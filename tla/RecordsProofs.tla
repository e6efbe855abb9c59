---------------------------- MODULE RecordsProofs ----------------------------
(***************************************************************************)
(* Proofs about Records, for any clients, requests and file names, any     *)
(* number of requests and runs, and wherever a handler or a worker is cut  *)
(* off.                                                                    *)
(*                                                                         *)
(* A handler holds on to a row by its number from one store call to the    *)
(* next.  That this is sound rests on Grows: rows are only ever added, and *)
(* what identifies them stays; StillHeld draws the conclusion.             *)
(*                                                                         *)
(* The invariant is RecordsInv: TypeInv (rows and requests); CountInv (no  *)
(* more runs than requests); BuildInv (a run that is being created belongs *)
(* to one handler); WorkInv (what a worker has left to do says how many    *)
(* artifacts its run has); Solo (while it is calm one request at most is   *)
(* at work); MemoryInv and HistoryInv (what is decided, what is recorded,  *)
(* and who is about to).                                                   *)
(***************************************************************************)
EXTENDS Records, SequenceTheorems, FiniteSetTheorems, TLAPS

Texts == 0 .. MaxRequests
States == {"draft", "approved", "revised"}
Artifact == [run : Nat, revision : Nat, preview : Texts, held : Seq(Texts), state : States]
Kind == {"chat", "feedback", "run", "approve", "reject", "delete", "forget", "revise",
         "accept", "upload", "none"}
Place == {"idle", "create", "message", "route", "reply", "session", "tasks", "sandbox",
          "link", "start", "lookup", "upsert", "approve_look", "save_item", "approve",
          "reject", "delete", "forget", "revise_look", "revise", "reload", "record",
          "accept", "upload", "fill", "upload_row"}
Req == [pc : Place, do : Kind, on : Nat, run : Nat, text : Texts, name : Names \union {"none"}]

(* Where a request of each kind may be. *)
OnPath(r) ==
  /\ r.pc \in {"create", "message", "route", "reply", "link"} => r.do = "chat"
  /\ r.pc \in {"session", "tasks", "sandbox", "start"} => r.do \in {"chat", "run"}
  /\ r.pc \in {"lookup", "upsert"} => r.do = "feedback"
  /\ r.pc \in {"approve_look", "save_item", "approve"} => r.do = "approve"
  /\ r.pc \in {"revise_look", "revise", "reload", "record"} => r.do = "revise"
  /\ r.pc \in {"upload", "fill", "upload_row"} => r.do = "upload"
  /\ r.pc = "reject" => r.do = "reject"
  /\ r.pc = "delete" => r.do = "delete"
  /\ r.pc = "forget" => r.do = "forget"
  /\ r.pc = "accept" => r.do = "accept"
  /\ r.pc = "idle" => r.do = "none"

(* What a request holds on to is there. *)
AboutMessage(r) == r.on \in DOMAIN messages /\ messages[r.on].role = "user"
AboutProposal(r) == r.on \in DOMAIN proposals /\ (r.pc # "approve" => r.run = 0)
Noted(r) == r.run \in DOMAIN items /\ items[r.run].run = r.on
Reloaded(r) == /\ r.on \in DOMAIN artifacts
               /\ r.run \in DOMAIN artifacts[r.on].held
               /\ r.text = artifacts[r.on].held[r.run]
HasFile(r) == << r.on, r.name >> \in DOMAIN disk

Held(r) ==
  /\ r.do = "chat" /\ r.pc \notin {"create", "message"} => AboutMessage(r)
  /\ r.pc \in {"tasks", "sandbox", "link", "start"} => r.run \in DOMAIN runs
  /\ r.do = "feedback" => r.on \in 0 .. Len(messages)
  /\ r.do \in {"approve", "reject", "delete"} => AboutProposal(r)
  /\ r.pc = "approve" => Noted(r)
  /\ r.do = "forget" => r.on \in DOMAIN items
  /\ r.do \in {"revise", "accept"} => r.on \in DOMAIN artifacts
  /\ r.pc = "record" => Reloaded(r)
  /\ r.do = "upload" => r.on \in DOMAIN runs /\ r.name \in Names
  /\ r.pc \in {"fill", "upload_row"} => HasFile(r)

WellHeld(a) ==
  /\ a.run \in DOMAIN runs
  /\ a.revision = Len(a.held) /\ a.revision # 0
  /\ a.preview = a.held[a.revision] /\ a.held[1] = 0

RowsOK ==
  /\ messages \in Seq(Message) /\ runs \in Seq(Run) /\ items \in Seq(Item)
  /\ artifacts \in Seq(Artifact) /\ revisions \subseteq Revision
  /\ \A m \in DOMAIN feedback :
       m \in 0 .. Len(messages) /\ feedback[m] \in [id : Nat, score : Nat]
  /\ \A r \in DOMAIN proposals : r \in DOMAIN runs /\ proposals[r] \in Proposal
  /\ \A a \in DOMAIN artifacts : WellHeld(artifacts[a])
  /\ \A f \in DOMAIN disk : f[1] \in DOMAIN runs /\ f[2] \in Names /\ disk[f] \in {"torn", "whole"}

RequestsOK ==
  /\ req \in [Clients -> Req]
  /\ \A c \in Clients : OnPath(req[c]) /\ Held(req[c])

TypeInv ==
  /\ RowsOK /\ RequestsOK
  /\ chats \in Nat /\ given \in 0 .. MaxRequests /\ calm \in BOOLEAN

-----------------------------------------------------------------------------
(* Facts about sequences. *)
LEMMA UpdateEntry ==
  ASSUME NEW S, NEW s \in Seq(S), NEW i \in DOMAIN s, NEW e \in S
  PROVE  /\ [s EXCEPT ![i] = e] \in Seq(S)
         /\ Len([s EXCEPT ![i] = e]) = Len(s)
         /\ DOMAIN [s EXCEPT ![i] = e] = DOMAIN s
         /\ [s EXCEPT ![i] = e][i] = e
         /\ \A k \in DOMAIN s : k # i => [s EXCEPT ![i] = e][k] = s[k]
BY ExceptSeq, LenProperties

LEMMA Added ==
  ASSUME NEW S, NEW s \in Seq(S), NEW e \in S
  PROVE  /\ Append(s, e) \in Seq(S)
         /\ Len(Append(s, e)) = Len(s) + 1
         /\ DOMAIN Append(s, e) = 1 .. Len(s) + 1
         /\ \A k \in DOMAIN s : Append(s, e)[k] = s[k]
         /\ Append(s, e)[Len(s) + 1] = e
BY AppendProperties, LenProperties

LEMMA EntryType == ASSUME NEW S, NEW s \in Seq(S)
                   PROVE  /\ Len(s) \in Nat /\ DOMAIN s = 1 .. Len(s)
                          /\ \A i \in DOMAIN s : s[i] \in S
BY ElementOfSeq, LenProperties

LEMMA IdleReq == Idle \in Req /\ Idle.pc = "idle" /\ Idle.do = "none"
                 /\ OnPath(Idle) /\ Held(Idle) /\ Held(Idle)'
<1>1. Idle \in Req /\ Idle.pc = "idle" /\ Idle.do = "none"
  BY MaxAssumption DEF Idle, Req, Place, Kind, Texts
<1>2. OnPath(Idle)
  BY <1>1 DEF OnPath
<1>3. Held(Idle) /\ Held(Idle)'
  BY <1>1 DEF Held
<1> QED
  BY <1>1, <1>2, <1>3

-----------------------------------------------------------------------------
(* Rows are only added, and what identifies them stays.                    *)
Grows ==
  /\ \A m \in DOMAIN messages : m \in DOMAIN messages' /\ messages'[m].role = messages[m].role
  /\ Len(messages) <= Len(messages')
  /\ DOMAIN runs \subseteq DOMAIN runs'
  /\ DOMAIN proposals \subseteq DOMAIN proposals'
  /\ \A i \in DOMAIN items : i \in DOMAIN items' /\ items'[i].run = items[i].run
  /\ \A a \in DOMAIN artifacts :
       /\ a \in DOMAIN artifacts'
       /\ \A n \in DOMAIN artifacts[a].held :
            n \in DOMAIN artifacts'[a].held /\ artifacts'[a].held[n] = artifacts[a].held[n]
  /\ DOMAIN disk \subseteq DOMAIN disk'

LEMMA Typed ==
  ASSUME TypeInv
  PROVE  /\ Len(messages) \in Nat /\ DOMAIN messages = 1 .. Len(messages)
         /\ Len(runs) \in Nat /\ DOMAIN runs = 1 .. Len(runs)
         /\ Len(items) \in Nat /\ DOMAIN items = 1 .. Len(items)
         /\ Len(artifacts) \in Nat /\ DOMAIN artifacts = 1 .. Len(artifacts)
         /\ \A m \in DOMAIN messages : messages[m] \in Message
         /\ \A r \in DOMAIN runs : runs[r] \in Run
         /\ \A i \in DOMAIN items : items[i] \in Item
         /\ \A a \in DOMAIN artifacts : artifacts[a] \in Artifact
         /\ \A c \in Clients : req[c] \in Req
BY EntryType DEF TypeInv, RowsOK, RequestsOK

(* A request holds on to what it held. *)
LEMMA StillHeld ==
  ASSUME TypeInv, Grows, RowsOK', NEW r \in Req, Held(r)
  PROVE  Held(r)'
<1>1. Len(messages') \in Nat /\ Len(messages) \in Nat
  BY EntryType, Typed DEF RowsOK
<1>2. r.on \in 0 .. Len(messages) => r.on \in 0 .. Len(messages')
  BY <1>1 DEF Grows
<1>3. AboutMessage(r) => AboutMessage(r)'
  BY DEF AboutMessage, Grows
<1>4. AboutProposal(r) => AboutProposal(r)'
  BY DEF AboutProposal, Grows
<1>5. Noted(r) => Noted(r)'
  BY DEF Noted, Grows
<1>6. /\ r.on \in DOMAIN artifacts => r.on \in DOMAIN artifacts'
      /\ Reloaded(r) => Reloaded(r)'
  BY DEF Reloaded, Grows
<1>7. HasFile(r) => HasFile(r)'
  BY DEF HasFile, Grows
<1>8. /\ r.run \in DOMAIN runs => r.run \in DOMAIN runs'
      /\ r.on \in DOMAIN runs => r.on \in DOMAIN runs'
      /\ r.on \in DOMAIN items => r.on \in DOMAIN items'
  BY DEF Grows
<1>9. (r.do = "chat" /\ r.pc \notin {"create", "message"} => AboutMessage(r)')
      /\ (r.do = "feedback" => r.on \in 0 .. Len(messages'))
  BY <1>2, <1>3 DEF Held
<1>10. /\ r.do \in {"approve", "reject", "delete"} => AboutProposal(r)'
       /\ r.pc = "approve" => Noted(r)'
       /\ r.pc \in {"fill", "upload_row"} => HasFile(r)'
  BY <1>4, <1>5, <1>7 DEF Held
<1>11. /\ r.do \in {"revise", "accept"} => r.on \in DOMAIN artifacts'
       /\ r.pc = "record" => Reloaded(r)'
  BY <1>6 DEF Held
<1>12. /\ r.pc \in {"tasks", "sandbox", "link", "start"} => r.run \in DOMAIN runs'
       /\ r.do = "forget" => r.on \in DOMAIN items'
       /\ r.do = "upload" => r.on \in DOMAIN runs' /\ r.name \in Names
  BY <1>8 DEF Held
<1> QED
  BY <1>9, <1>10, <1>11, <1>12 DEF Held

(* How a request goes on. *)
Moves(c, pc, on, run, text) ==
  /\ req' \in [Clients -> Req]
  /\ \A d \in Clients : d # c => req'[d] = req[d]
  /\ req'[c].pc = pc /\ req'[c].do = req[c].do /\ req'[c].on = on /\ req'[c].run = run
  /\ req'[c].text = text /\ req'[c].name = req[c].name

LEMMA Others ==
  ASSUME TypeInv, Grows, RowsOK', NEW c \in Clients, req' \in [Clients -> Req],
         \A d \in Clients : d # c => req'[d] = req[d],
         OnPath(req'[c]), Held(req[c])'
  PROVE  RequestsOK'
<1>1. ASSUME NEW d \in Clients
      PROVE  (OnPath(req[d]) /\ Held(req[d]))'
  <2>1. CASE d = c
    BY <2>1 DEF OnPath
  <2>2. CASE d # c
    <3>1. req'[d] = req[d] /\ req[d] \in Req
      BY <2>2 DEF TypeInv, RequestsOK
    <3>2. OnPath(req[d]) /\ Held(req[d])
      BY DEF TypeInv, RequestsOK
    <3>3. PICK r \in Req : r = req[d]
      BY <3>1
    <3>4. Held(r)'
      BY <3>2, <3>3, StillHeld
    <3> QED
      BY <3>1, <3>2, <3>3, <3>4 DEF OnPath
  <2> QED
    BY <2>1, <2>2
<1> QED
  BY <1>1 DEF RequestsOK

(* What may become of one table while the others stay as they are. *)
LEMMA SameRows ==
  ASSUME TypeInv,
         UNCHANGED << messages, feedback, runs, artifacts, revisions, proposals, items, disk >>
  PROVE  RowsOK' /\ Grows
<1>1. RowsOK'
  BY DEF TypeInv, RowsOK, WellHeld
<1>2. Grows
  BY Typed DEF Grows
<1> QED
  BY <1>1, <1>2

LEMMA NewMessages ==
  ASSUME TypeInv, messages' \in Seq(Message), Len(messages) <= Len(messages'),
         \A m \in DOMAIN messages : messages'[m].role = messages[m].role,
         UNCHANGED << feedback, runs, artifacts, revisions, proposals, items, disk >>
  PROVE  RowsOK' /\ Grows
<1>1. /\ Len(messages') \in Nat /\ DOMAIN messages' = 1 .. Len(messages')
      /\ Len(messages) \in Nat /\ DOMAIN messages = 1 .. Len(messages)
  BY EntryType, Typed
<1>2. RowsOK'
  BY <1>1 DEF TypeInv, RowsOK, WellHeld
<1>3. Grows
  BY <1>1 DEF Grows
<1> QED
  BY <1>2, <1>3

LEMMA NewFeedback ==
  ASSUME TypeInv,
         \A m \in DOMAIN feedback' :
           m \in 0 .. Len(messages) /\ feedback'[m] \in [id : Nat, score : Nat],
         UNCHANGED << messages, runs, artifacts, revisions, proposals, items, disk >>
  PROVE  RowsOK' /\ Grows
<1>1. RowsOK'
  BY DEF TypeInv, RowsOK, WellHeld
<1>2. Grows
  BY Typed DEF Grows
<1> QED
  BY <1>1, <1>2

LEMMA NewRuns ==
  ASSUME TypeInv, runs' \in Seq(Run), DOMAIN runs \subseteq DOMAIN runs',
         UNCHANGED << messages, feedback, artifacts, revisions, proposals, items, disk >>
  PROVE  RowsOK' /\ Grows
<1>1. RowsOK'
  BY DEF TypeInv, RowsOK, WellHeld
<1>2. Grows
  BY Typed DEF Grows
<1> QED
  BY <1>1, <1>2

LEMMA NewProposals ==
  ASSUME TypeInv, runs' \in Seq(Run), DOMAIN runs \subseteq DOMAIN runs',
         DOMAIN proposals \subseteq DOMAIN proposals',
         \A r \in DOMAIN proposals' : r \in DOMAIN runs /\ proposals'[r] \in Proposal,
         UNCHANGED << messages, feedback, artifacts, revisions, items, disk >>
  PROVE  RowsOK' /\ Grows
<1>1. RowsOK'
  BY DEF TypeInv, RowsOK, WellHeld
<1>2. Grows
  BY Typed DEF Grows
<1> QED
  BY <1>1, <1>2

LEMMA NewItems ==
  ASSUME TypeInv, items' \in Seq(Item), DOMAIN items \subseteq DOMAIN items',
         \A i \in DOMAIN items : items'[i].run = items[i].run,
         UNCHANGED << messages, feedback, runs, artifacts, revisions, proposals, disk >>
  PROVE  RowsOK' /\ Grows
<1>1. RowsOK'
  BY DEF TypeInv, RowsOK, WellHeld
<1>2. Grows
  BY Typed DEF Grows
<1> QED
  BY <1>1, <1>2

LEMMA NewArtifacts ==
  ASSUME TypeInv, runs' \in Seq(Run), DOMAIN runs \subseteq DOMAIN runs',
         artifacts' \in Seq(Artifact), DOMAIN artifacts \subseteq DOMAIN artifacts',
         \A a \in DOMAIN artifacts' : WellHeld(artifacts'[a]),
         \A a \in DOMAIN artifacts : \A n \in DOMAIN artifacts[a].held :
           n \in DOMAIN artifacts'[a].held /\ artifacts'[a].held[n] = artifacts[a].held[n],
         UNCHANGED << messages, feedback, revisions, proposals, items, disk >>
  PROVE  RowsOK' /\ Grows
<1>1. RowsOK'
  BY DEF TypeInv, RowsOK, WellHeld
<1>2. Grows
  BY Typed DEF Grows
<1> QED
  BY <1>1, <1>2

LEMMA NewRevisions ==
  ASSUME TypeInv, runs' \in Seq(Run), DOMAIN runs \subseteq DOMAIN runs',
         revisions' \subseteq Revision,
         UNCHANGED << messages, feedback, artifacts, proposals, items, disk >>
  PROVE  RowsOK' /\ Grows
<1>1. RowsOK'
  BY DEF TypeInv, RowsOK, WellHeld
<1>2. Grows
  BY Typed DEF Grows
<1> QED
  BY <1>1, <1>2

LEMMA NewFiles ==
  ASSUME TypeInv, DOMAIN disk \subseteq DOMAIN disk',
         \A f \in DOMAIN disk' :
           f[1] \in DOMAIN runs /\ f[2] \in Names /\ disk'[f] \in {"torn", "whole"},
         UNCHANGED << messages, feedback, runs, artifacts, revisions, proposals, items >>
  PROVE  RowsOK' /\ Grows
<1>1. RowsOK'
  BY DEF TypeInv, RowsOK, WellHeld
<1>2. Grows
  BY Typed DEF Grows
<1> QED
  BY <1>1, <1>2

-----------------------------------------------------------------------------
(* TypeInv is inductive, as long as there are not more runs than requests. *)
LEMMA Mine ==
  ASSUME TypeInv, NEW c \in Clients
  PROVE  /\ req[c] \in Req /\ OnPath(req[c]) /\ Held(req[c])
         /\ req[c].on \in Nat /\ req[c].run \in Nat /\ req[c].text \in Texts
BY DEF TypeInv, RequestsOK, Req

LEMMA Advance ==
  ASSUME TypeInv, NEW c \in Clients, req' \in [Clients -> Req],
         \A d \in Clients : d # c => req'[d] = req[d],
         OnPath(req'[c]), Held(req[c])', RowsOK', Grows,
         chats' \in Nat, given' \in 0 .. MaxRequests, calm' \in BOOLEAN
  PROVE  TypeInv'
BY Others DEF TypeInv

LEMMA Ends ==
  ASSUME TypeInv, NEW c \in Clients, End(c), RowsOK', Grows,
         chats' \in Nat, given' \in 0 .. MaxRequests, calm' \in BOOLEAN
  PROVE  TypeInv'
<1>1. /\ req' \in [Clients -> Req] /\ req'[c] = Idle
      /\ \A d \in Clients : d # c => req'[d] = req[d]
  BY IdleReq DEF End, Step, TypeInv, RequestsOK
<1>2. OnPath(req'[c]) /\ Held(req[c])'
  BY <1>1, IdleReq DEF OnPath, Held
<1> QED
  BY <1>1, <1>2, Advance

LEMMA Going ==
  ASSUME TypeInv, NEW c \in Clients, NEW p \in Place, Go(c, p)
  PROVE  Moves(c, p, req[c].on, req[c].run, req[c].text)
BY DEF Go, Step, Moves, TypeInv, RequestsOK, Req

LEMMA GiveTyped ==
  ASSUME TypeInv, NEW c \in Clients, Give(c)
  PROVE  TypeInv'
<1>1. RowsOK' /\ Grows
  BY SameRows DEF Give, chatVars, fileVars, memoryVars, uploadVars
<1>2. PICK do, on, name :
        /\ do \in Kinds /\ on \in About(do)
        /\ name \in IF do = "upload" THEN Names ELSE {"none"}
        /\ Step(c, [do |-> do, on |-> on, run |-> 0, text |-> given + 1, name |-> name,
                    pc |-> CASE do = "chat" -> IF on = 0 THEN "create" ELSE "message"
                             [] do = "run" -> "session"
                             [] do = "approve" -> "approve_look"
                             [] do = "revise" -> "revise_look"
                             [] do = "feedback" -> "lookup"
                             [] OTHER -> do])
  BY DEF Give
<1>3. do \in Kind \ {"none"}
  BY <1>2, KindsAssumption DEF Kind
<1>4. PICK p : p = CASE do = "chat" -> IF on = 0 THEN "create" ELSE "message"
                     [] do = "run" -> "session"
                     [] do = "approve" -> "approve_look"
                     [] do = "revise" -> "revise_look"
                     [] do = "feedback" -> "lookup"
                     [] OTHER -> do
  OBVIOUS
<1>5. \/ do = "chat" /\ p \in {"create", "message"}
      \/ do = "run" /\ p = "session"
      \/ do = "approve" /\ p = "approve_look"
      \/ do = "revise" /\ p = "revise_look"
      \/ do = "feedback" /\ p = "lookup"
      \/ do \in {"reject", "delete", "forget", "accept", "upload"} /\ p = do
  BY <1>3, <1>4 DEF Kind
<1>6. given + 1 \in Texts /\ given' \in 0 .. MaxRequests
  <2>1. given < MaxRequests /\ given' = given + 1
    BY DEF Give
  <2> QED
    BY <2>1, MaxAssumption DEF TypeInv, Texts
<1>7. on \in Nat
  <2>1. /\ About("chat") = {chats} /\ About("run") = {0} /\ About("feedback") \subseteq Nat
        /\ About("forget") = DOMAIN items /\ About("upload") = DOMAIN runs
        /\ \A k \in {"approve", "reject", "delete"} : About(k) = DOMAIN proposals
        /\ \A k \in {"revise", "accept"} : About(k) = DOMAIN artifacts
    BY Typed DEF About
  <2>2. chats \in Nat /\ DOMAIN runs \subseteq Nat /\ DOMAIN proposals \subseteq Nat
        /\ DOMAIN items \subseteq Nat /\ DOMAIN artifacts \subseteq Nat
    BY Typed DEF TypeInv, RowsOK
  <2> QED
    BY <1>2, <1>3, <2>1, <2>2 DEF Kind
<1>8. name \in Names \union {"none"}
  BY <1>2
<1>9. PICK x : x = [pc |-> p, do |-> do, on |-> on, run |-> 0, text |-> given + 1,
                    name |-> name]
  OBVIOUS
<1>10. x \in Req
  <2>1. p \in Place
    BY <1>5 DEF Place
  <2> QED
    BY <1>3, <1>6, <1>7, <1>8, <1>9, <2>1 DEF Req
<1>11. Step(c, x)
  BY <1>2, <1>4, <1>9
<1>12. /\ req' \in [Clients -> Req] /\ req'[c] = x
       /\ \A d \in Clients : d # c => req'[d] = req[d]
  BY <1>10, <1>11 DEF Step, TypeInv, RequestsOK
<1>13. Held(x)
  <2>1. do = "feedback" => on \in 0 .. Len(messages)
    BY <1>2, Typed DEF About
  <2>2. do \in {"approve", "reject", "delete"} => on \in DOMAIN proposals
    BY <1>2 DEF About
  <2>3. do = "forget" => on \in DOMAIN items
    BY <1>2 DEF About
  <2>4. do \in {"revise", "accept"} => on \in DOMAIN artifacts
    BY <1>2 DEF About
  <2>5. do = "upload" => on \in DOMAIN runs /\ name \in Names
    BY <1>2 DEF About
  <2> QED
    BY <1>5, <1>9, <2>1, <2>2, <2>3, <2>4, <2>5 DEF Held, AboutProposal
<1>14. Held(x)' /\ OnPath(x)
  BY <1>1, <1>5, <1>9, <1>10, <1>13, StillHeld DEF OnPath
<1>15. chats' \in Nat /\ calm' \in BOOLEAN
  BY DEF Give, TypeInv, chatVars
<1> QED
  BY <1>1, <1>6, <1>12, <1>14, <1>15, Advance

(* Steps that look at the tables and change nothing of them. *)
LEMMA LookTyped ==
  ASSUME TypeInv, NEW c \in Clients,
         \/ CutOff(c) \/ RouteChat(c) \/ LookupFeedback(c) \/ LookProposal(c)
         \/ LookArtifact(c) \/ Reload(c)
  PROVE  TypeInv'
<1>1. RowsOK' /\ Grows
  BY SameRows DEF CutOff, RouteChat, LookupFeedback, LookProposal, LookArtifact, Reload,
                  chatVars, fileVars, memoryVars, uploadVars
<1>2. chats' \in Nat /\ given' \in 0 .. MaxRequests /\ calm' \in BOOLEAN
  BY DEF CutOff, RouteChat, LookupFeedback, LookProposal, LookArtifact, Reload, chatVars,
         boundVars, TypeInv
<1>3. End(c) => TypeInv'
  BY <1>1, <1>2, Ends
<1>4. ASSUME NEW pc, NEW on, NEW run, NEW text, Moves(c, pc, on, run, text),
             OnPath(req'[c]), Held(req'[c])
      PROVE  TypeInv'
  <2>1. PICK r \in Req : r = req'[c]
    BY <1>4 DEF Moves
  <2>2. Held(r)'
    BY <1>1, <1>4, <2>1, StillHeld
  <2>3. Held(req[c])'
    BY <2>1, <2>2
  <2> QED
    BY <1>1, <1>2, <1>4, <2>3, Advance DEF Moves
<1>5. CASE RouteChat(c)
  <2>1. ASSUME NEW p \in {"reply", "session"}, Go(c, p) PROVE TypeInv'
    <3>1. Moves(c, p, req[c].on, req[c].run, req[c].text)
      BY <2>1, Going DEF Place
    <3>2. req[c].do = "chat" /\ req[c].pc = "route"
      BY <1>5, Mine DEF OnPath, RouteChat, At
    <3>3. OnPath(req'[c]) /\ Held(req'[c])
      BY <3>1, <3>2, Mine DEF OnPath, Held, AboutMessage, Moves
    <3> QED
      BY <1>4, <3>1, <3>3
  <2> QED
    BY <1>3, <1>5, <2>1 DEF RouteChat
<1>6. CASE LookupFeedback(c)
  <2>1. PICK n \in Nat :
          n = IF req[c].on \in DOMAIN feedback THEN feedback[req[c].on].id ELSE req[c].text
    <3>1. req[c].on \in DOMAIN feedback => feedback[req[c].on].id \in Nat
      BY DEF TypeInv, RowsOK
    <3> QED
      BY <3>1, Mine DEF Texts
  <2>2. Moves(c, "upsert", req[c].on, n, req[c].text)
    BY <1>6, <2>1 DEF LookupFeedback, Moves, Step, TypeInv, RequestsOK, Req, Place
  <2>3. req[c].do = "feedback"
    BY <1>6, Mine DEF OnPath, LookupFeedback, At
  <2>4. OnPath(req'[c]) /\ Held(req'[c])
    BY <2>2, <2>3, Mine DEF OnPath, Held, Moves
  <2> QED
    BY <1>4, <2>2, <2>4
<1>7. CASE LookProposal(c)
  <2>1. ASSUME Go(c, "save_item") PROVE TypeInv'
    <3>1. Moves(c, "save_item", req[c].on, req[c].run, req[c].text)
      BY <2>1, Going DEF Place
    <3>2. req[c].do = "approve" /\ req[c].pc = "approve_look"
      BY <1>7, Mine DEF OnPath, LookProposal, At
    <3>3. OnPath(req'[c]) /\ Held(req'[c])
      BY <3>1, <3>2, Mine DEF OnPath, Held, AboutProposal, Moves
    <3> QED
      BY <1>4, <3>1, <3>3
  <2> QED
    BY <1>3, <1>7, <2>1 DEF LookProposal
<1>8. CASE LookArtifact(c)
  <2>1. Moves(c, "revise", req[c].on, req[c].run, req[c].text)
    BY <1>8, Going DEF Place, LookArtifact
  <2>2. req[c].do = "revise"
    BY <1>8, Mine DEF OnPath, LookArtifact, At
  <2>3. OnPath(req'[c]) /\ Held(req'[c])
    BY <2>1, <2>2, Mine DEF OnPath, Held, Moves
  <2> QED
    BY <1>4, <2>1, <2>3
<1>9. CASE Reload(c)
  <2>1. req[c].do = "revise"
    BY <1>9, Mine DEF OnPath, Reload, At
  <2>2. req[c].on \in DOMAIN artifacts
    BY <2>1, Mine DEF Held
  <2>3. PICK row \in Artifact : row = artifacts[req[c].on] /\ WellHeld(row)
    BY <2>2, Typed DEF TypeInv, RowsOK
  <2>4. /\ row.revision \in Nat /\ row.preview \in Texts /\ row.held \in Seq(Texts)
        /\ row.revision \in DOMAIN row.held
        /\ row.preview = row.held[row.revision]
    BY <2>3, EntryType DEF Artifact, WellHeld
  <2>5. Moves(c, "record", req[c].on, row.revision, row.preview)
    BY <1>9, <2>3, <2>4 DEF Reload, Moves, Step, TypeInv, RequestsOK, Req, Place
  <2>6. Reloaded(req'[c])
    BY <2>2, <2>3, <2>4, <2>5 DEF Reloaded, Moves
  <2>7. OnPath(req'[c]) /\ Held(req'[c])
    BY <2>1, <2>2, <2>5, <2>6 DEF OnPath, Held, Moves
  <2> QED
    BY <1>4, <2>5, <2>7
<1> QED
  BY <1>3, <1>5, <1>6, <1>7, <1>8, <1>9 DEF CutOff

LEMMA RunWith ==
  ASSUME NEW x \in Run
  PROVE  /\ \A s \in Stages : [x EXCEPT !.stage = s] \in Run
         /\ [x EXCEPT !.started = TRUE, !.todo = Work] \in Run
<1>1. ASSUME NEW s \in Stages PROVE [x EXCEPT !.stage = s] \in Run
  BY DEF Run
<1>2. Work \in Seq({"plan", "plan_row", "snapshot", "attach", "report", "report_row",
                    "proposal", "complete"})
  BY DEF Work
<1>3. [x EXCEPT !.started = TRUE, !.todo = Work] \in Run
  BY <1>2 DEF Run
<1> QED
  BY <1>1, <1>3

(* Chats. *)
LEMMA AddMessageMoves ==
  ASSUME TypeInv, NEW c \in Clients, AddMessage(c)
  PROVE  Moves(c, "route", Len(messages) + 1, req[c].run, req[c].text)
<1>1. PICK n \in Nat : n = Len(messages) + 1
  BY Typed
<1>2. req' = [req EXCEPT ![c] = [req[c] EXCEPT !.pc = "route", !.on = n]]
  BY <1>1 DEF AddMessage, Step
<1>3. Moves(c, "route", n, req[c].run, req[c].text)
  BY <1>2 DEF Moves, TypeInv, RequestsOK, Req, Place
<1> QED
  BY <1>1, <1>3

LEMMA ChatTyped ==
  ASSUME TypeInv, Len(runs) <= MaxRequests, NEW c \in Clients,
         CreateThread(c) \/ AddMessage(c) \/ Reply(c) \/ UpdateMessageRun(c)
  PROVE  TypeInv'
<1>1. given' \in 0 .. MaxRequests /\ calm' \in BOOLEAN
  BY DEF CreateThread, AddMessage, Reply, UpdateMessageRun, boundVars, TypeInv
<1>2. messages \in Seq(Message) /\ Len(messages) \in Nat
  BY Typed DEF TypeInv, RowsOK
<1>3. CASE CreateThread(c)
  <2>1. RowsOK' /\ Grows
    BY <1>3, SameRows DEF CreateThread, fileVars, memoryVars, uploadVars
  <2>2. chats' \in Nat
    BY <1>3 DEF CreateThread, TypeInv
  <2>3. End(c) => TypeInv'
    BY <1>1, <2>1, <2>2, Ends
  <2>4. ASSUME Go(c, "message") PROVE TypeInv'
    <3>1. Moves(c, "message", req[c].on, req[c].run, req[c].text)
      BY <2>4, Going DEF Place
    <3>2. req[c].do = "chat"
      BY <1>3, Mine DEF OnPath, CreateThread, At
    <3>3. OnPath(req'[c]) /\ Held(req[c])'
      BY <3>1, <3>2 DEF OnPath, Held, Moves
    <3> QED
      BY <1>1, <2>1, <2>2, <3>1, <3>3, Advance DEF Moves
  <2> QED
    BY <1>3, <2>3, <2>4 DEF CreateThread
<1>4. CASE AddMessage(c)
  <2>1. PICK m : m = [role |-> "user", run |-> 0]
    OBVIOUS
  <2> m \in Message
    BY <2>1, MaxAssumption DEF Message
  <2>2. messages' = Append(messages, m)
    BY <1>4, <2>1 DEF AddMessage
  <2>3. /\ messages' \in Seq(Message) /\ Len(messages') = Len(messages) + 1
        /\ DOMAIN messages' = 1 .. Len(messages) + 1
        /\ \A k \in DOMAIN messages : messages'[k] = messages[k]
        /\ messages'[Len(messages) + 1].role = "user"
    BY <1>2, <2>1, <2>2, Added
  <2>4. RowsOK' /\ Grows
    BY <1>2, <1>4, <2>3, NewMessages DEF AddMessage, fileVars, memoryVars, uploadVars
  <2>5. Moves(c, "route", Len(messages) + 1, req[c].run, req[c].text)
    BY <1>4, AddMessageMoves
  <2>6. req[c].do = "chat"
    BY <1>4, Mine DEF OnPath, AddMessage, At
  <2>7. AboutMessage(req[c])'
    BY <1>2, <2>3, <2>5 DEF AboutMessage, Moves
  <2>8. OnPath(req'[c]) /\ Held(req[c])'
    BY <2>5, <2>6, <2>7 DEF OnPath, Held, Moves
  <2>9. chats' \in Nat
    BY <1>4 DEF AddMessage, TypeInv
  <2> QED
    BY <1>1, <2>4, <2>5, <2>8, <2>9, Advance DEF Moves
<1>5. CASE Reply(c)
  <2>1. PICK m : m = [role |-> "assistant", run |-> 0]
    OBVIOUS
  <2> m \in Message
    BY <2>1, MaxAssumption DEF Message
  <2>2. messages' = Append(messages, m)
    BY <1>5, <2>1 DEF Reply
  <2>3. /\ messages' \in Seq(Message) /\ Len(messages') = Len(messages) + 1
        /\ \A k \in DOMAIN messages : messages'[k] = messages[k]
    BY <1>2, <2>2, Added
  <2>4. RowsOK' /\ Grows
    BY <1>2, <1>5, <2>3, NewMessages DEF Reply, fileVars, memoryVars, uploadVars
  <2> QED
    BY <1>1, <1>5, <2>4, Ends DEF Reply, TypeInv
<1>6. CASE UpdateMessageRun(c)
  <2>1. req[c].do = "chat" /\ req[c].pc = "link"
    BY <1>6, Mine DEF OnPath, UpdateMessageRun, At
  <2>2. /\ req[c].on \in DOMAIN messages /\ messages[req[c].on].role = "user"
        /\ req[c].run \in 0 .. MaxRequests /\ req[c].run \in DOMAIN runs
    BY <2>1, Mine, Typed, MaxAssumption DEF Held, AboutMessage
  <2>0. messages[req[c].on] \in Message
    BY <2>2, Typed
  <2>3. PICK m : m = [messages[req[c].on] EXCEPT !.run = req[c].run]
    OBVIOUS
  <2>12. m \in Message /\ m.role = messages[req[c].on].role
    BY <2>0, <2>2, <2>3 DEF Message
  <2>4. [messages EXCEPT ![req[c].on].run = req[c].run] = [messages EXCEPT ![req[c].on] = m]
    BY <2>3
  <2>5. /\ [messages EXCEPT ![req[c].on] = m] \in Seq(Message)
        /\ Len([messages EXCEPT ![req[c].on] = m]) = Len(messages)
        /\ \A k \in DOMAIN messages :
             [messages EXCEPT ![req[c].on] = m][k].role = messages[k].role
    BY <1>2, <2>2, <2>12, UpdateEntry
  <2>6. /\ messages' \in Seq(Message) /\ Len(messages') = Len(messages)
        /\ \A k \in DOMAIN messages : messages'[k].role = messages[k].role
    BY <1>2, <1>6, <2>4, <2>5 DEF UpdateMessageRun
  <2>7. RowsOK' /\ Grows
    BY <1>2, <1>6, <2>6, NewMessages DEF UpdateMessageRun, fileVars, memoryVars, uploadVars
  <2>8. Moves(c, "start", req[c].on, req[c].run, req[c].text)
    BY <1>6, Going DEF Place, UpdateMessageRun
  <2>9. AboutMessage(req[c])' /\ req[c].run \in DOMAIN runs'
    BY <2>2, <2>7, <2>8 DEF AboutMessage, Moves, Grows
  <2>10. OnPath(req'[c]) /\ Held(req[c])'
    BY <2>1, <2>8, <2>9 DEF OnPath, Held, Moves
  <2>11. chats' \in Nat
    BY <1>6 DEF UpdateMessageRun, TypeInv
  <2> QED
    BY <1>1, <2>7, <2>8, <2>10, <2>11, Advance DEF Moves
<1> QED
  BY <1>3, <1>4, <1>5, <1>6

(* Runs. *)
LEMMA SessionTyped ==
  ASSUME TypeInv, NEW c \in Clients, CreateSession(c)
  PROVE  TypeInv'
<1>1. PICK n \in Nat : n = Len(runs) + 1
  BY Typed
<1>2. req' = [req EXCEPT ![c] = [req[c] EXCEPT !.pc = "tasks", !.run = n]]
  BY <1>1 DEF CreateSession, Step
<1>3. Moves(c, "tasks", req[c].on, n, req[c].text)
  BY <1>2 DEF Moves, TypeInv, RequestsOK, Req, Place
<1>4. PICK x : x = [stage |-> "session", started |-> FALSE, todo |-> << >>,
                    status |-> "running", saved |-> 0, selected |-> 0]
  OBVIOUS
<1>5. x \in Run
  BY <1>4 DEF Run, Stages
<1>6. runs \in Seq(Run) /\ runs' = Append(runs, x)
  BY <1>4 DEF CreateSession, TypeInv, RowsOK
<1>7. runs' \in Seq(Run) /\ DOMAIN runs' = 1 .. n
  BY <1>1, <1>5, <1>6, Added
<1>8. DOMAIN runs \subseteq DOMAIN runs' /\ n \in DOMAIN runs'
  BY <1>1, <1>7, Typed
<1>9. RowsOK' /\ Grows
  BY <1>7, <1>8, NewRuns DEF CreateSession, chatVars, fileVars, memoryVars, uploadVars
<1>10. req[c].do \in {"chat", "run"} /\ req[c].pc = "session"
  BY Mine DEF OnPath, CreateSession, At
<1>11. req[c].do = "chat" => AboutMessage(req[c])'
  BY <1>3, <1>9, <1>10, Mine DEF Held, AboutMessage, Moves, Grows
<1>12. OnPath(req'[c]) /\ Held(req[c])'
  BY <1>3, <1>8, <1>10, <1>11 DEF OnPath, Held, Moves
<1>13. chats' \in Nat /\ given' \in 0 .. MaxRequests /\ calm' \in BOOLEAN
  BY DEF CreateSession, TypeInv, chatVars, boundVars
<1> QED
  BY <1>3, <1>9, <1>12, <1>13, Advance DEF Moves

(* What a client does to the run it is creating. *)
LEMMA RunUpdate ==
  ASSUME TypeInv, NEW k \in DOMAIN runs, NEW x \in Run, runs' = [runs EXCEPT ![k] = x]
  PROVE  /\ runs' \in Seq(Run) /\ Len(runs') = Len(runs) /\ DOMAIN runs' = DOMAIN runs
         /\ runs'[k] = x
         /\ \A r \in DOMAIN runs : r # k => runs'[r] = runs[r]
BY UpdateEntry DEF TypeInv, RowsOK

LEMMA LedgerTyped ==
  ASSUME TypeInv, NEW c \in Clients, CreateTasks(c) \/ AcquireSandbox(c) \/ StartRunWorker(c)
  PROVE  TypeInv'
<1>1. /\ req[c].do \in {"chat", "run"} /\ req[c].pc \in {"tasks", "sandbox", "start"}
      /\ req[c].run \in DOMAIN runs
  BY Mine DEF OnPath, Held, CreateTasks, AcquireSandbox, StartRunWorker, At
<1>2. runs[req[c].run] \in Run
  BY <1>1, Typed
<1>3. PICK x : runs' = [runs EXCEPT ![req[c].run] = x] /\ x \in Run
  <2>1. CASE CreateTasks(c)
    BY <1>2, <2>1, RunWith DEF CreateTasks, Stages
  <2>2. CASE AcquireSandbox(c)
    BY <1>2, <2>2, RunWith DEF AcquireSandbox, Stages
  <2>3. CASE StartRunWorker(c)
    <3>1. PICK x : x = [runs[req[c].run] EXCEPT !.started = TRUE, !.todo = Work]
      OBVIOUS
    <3>2. x \in Run
      BY <1>2, <3>1, RunWith
    <3>3. runs' = [runs EXCEPT ![req[c].run] = x]
      BY <2>3, <3>1 DEF StartRunWorker
    <3> QED
      BY <3>2, <3>3
  <2> QED
    BY <2>1, <2>2, <2>3
<1>4. RowsOK' /\ Grows
  <2>1. runs' \in Seq(Run) /\ DOMAIN runs' = DOMAIN runs
    BY <1>1, <1>3, RunUpdate
  <2> QED
    BY <2>1, NewRuns DEF CreateTasks, AcquireSandbox, StartRunWorker, chatVars, fileVars,
                         memoryVars, uploadVars
<1>5. chats' \in Nat /\ given' \in 0 .. MaxRequests /\ calm' \in BOOLEAN
  BY DEF CreateTasks, AcquireSandbox, StartRunWorker, TypeInv, chatVars, boundVars
<1>6. ASSUME NEW p \in {"sandbox", "link", "start"}, Go(c, p), p = "link" => req[c].do = "chat",
             req[c].do = "chat" => AboutMessage(req[c])
      PROVE  TypeInv'
  <2>1. Moves(c, p, req[c].on, req[c].run, req[c].text)
    BY <1>6, Going DEF Place
  <2>2. req[c].do = "chat" => AboutMessage(req[c])'
    BY <1>4, <1>6, <2>1 DEF AboutMessage, Moves, Grows
  <2>3. req'[c].run \in DOMAIN runs'
    BY <1>1, <1>4, <2>1 DEF Moves, Grows
  <2>4. OnPath(req'[c]) /\ Held(req[c])'
    BY <1>1, <1>6, <2>1, <2>2, <2>3 DEF OnPath, Held, Moves
  <2> QED
    BY <1>4, <1>5, <2>1, <2>4, Advance DEF Moves
<1>7. req[c].do = "chat" => AboutMessage(req[c])
  BY <1>1, Mine DEF Held
<1>8. CASE CreateTasks(c)
  BY <1>6, <1>7, <1>8 DEF CreateTasks
<1>9. CASE AcquireSandbox(c)
  BY <1>1, <1>6, <1>7, <1>9 DEF AcquireSandbox
<1>10. CASE StartRunWorker(c)
  BY <1>4, <1>5, <1>10, Ends DEF StartRunWorker
<1> QED
  BY <1>8, <1>9, <1>10

LEMMA FeedbackTyped ==
  ASSUME TypeInv, NEW c \in Clients, UpsertFeedback(c)
  PROVE  TypeInv'
<1>1. req[c].do = "feedback" /\ req[c].pc = "upsert"
  BY Mine DEF OnPath, UpsertFeedback, At
<1>2. req[c].on \in 0 .. Len(messages)
  BY <1>1, Mine DEF Held
<1>3. PICK n : n = IF req[c].on \in DOMAIN feedback THEN feedback[req[c].on].id ELSE req[c].run
  OBVIOUS
<1>4. n \in Nat
  BY <1>3, Mine DEF TypeInv, RowsOK
<1>5. PICK x : x = [id |-> n, score |-> req[c].text]
  OBVIOUS
<1>6. x \in [id : Nat, score : Nat]
  BY <1>4, <1>5, Mine DEF Texts
<1>7. feedback' = Put(feedback, req[c].on, x)
  BY <1>3, <1>5 DEF UpsertFeedback
<1>8. /\ DOMAIN feedback' = DOMAIN feedback \union {req[c].on}
      /\ feedback'[req[c].on] = x
      /\ \A m \in DOMAIN feedback : m # req[c].on => feedback'[m] = feedback[m]
  BY <1>7 DEF Put
<1>9. \A m \in DOMAIN feedback' :
        m \in 0 .. Len(messages) /\ feedback'[m] \in [id : Nat, score : Nat]
  BY <1>2, <1>6, <1>8 DEF TypeInv, RowsOK
<1>10. RowsOK' /\ Grows
  BY <1>9, NewFeedback DEF UpsertFeedback, fileVars, memoryVars, uploadVars
<1> QED
  BY <1>10, Ends DEF UpsertFeedback, TypeInv, boundVars

(* Memory. *)
LEMMA SaveItemTyped ==
  ASSUME TypeInv, Len(runs) <= MaxRequests, NEW c \in Clients, SaveItem(c)
  PROVE  TypeInv'
<1>1. PICK n \in Nat : n = Len(items) + 1
  BY Typed
<1>2. req' = [req EXCEPT ![c] = [req[c] EXCEPT !.pc = "approve", !.run = n]]
  BY <1>1 DEF SaveItem, Step
<1>3. Moves(c, "approve", req[c].on, n, req[c].text)
  BY <1>2 DEF Moves, TypeInv, RequestsOK, Req, Place
<1>4. req[c].do = "approve" /\ req[c].pc = "save_item"
  BY Mine DEF OnPath, SaveItem, At
<1>5. req[c].on \in DOMAIN proposals
  BY <1>4, Mine DEF Held, AboutProposal
<1>6. req[c].on \in 1 .. MaxRequests
  <2>1. req[c].on \in 1 .. Len(runs)
    BY <1>5, Typed DEF TypeInv, RowsOK
  <2> QED
    BY <2>1, Typed, MaxAssumption
<1>7. PICK x : x = [run |-> req[c].on, status |-> "active"]
  OBVIOUS
<1>8. x \in Item
  BY <1>6, <1>7 DEF Item
<1>9. items \in Seq(Item) /\ items' = Append(items, x)
  BY <1>7 DEF SaveItem, TypeInv, RowsOK
<1>10. /\ items' \in Seq(Item) /\ DOMAIN items' = 1 .. n /\ items'[n] = x
       /\ \A i \in DOMAIN items : items'[i] = items[i]
  BY <1>1, <1>8, <1>9, Added
<1>11. DOMAIN items \subseteq DOMAIN items' /\ n \in DOMAIN items'
  BY <1>1, <1>10, Typed
<1>12. RowsOK' /\ Grows
  BY <1>10, <1>11, NewItems DEF SaveItem, chatVars, fileVars, uploadVars
<1>13. Noted(req[c])' /\ AboutProposal(req[c])'
  BY <1>3, <1>5, <1>7, <1>10, <1>11, <1>12 DEF Noted, AboutProposal, Moves, Grows
<1>14. OnPath(req'[c]) /\ Held(req[c])'
  BY <1>3, <1>4, <1>13 DEF OnPath, Held, Moves
<1>15. chats' \in Nat /\ given' \in 0 .. MaxRequests /\ calm' \in BOOLEAN
  BY DEF SaveItem, TypeInv, chatVars, boundVars
<1> QED
  BY <1>3, <1>12, <1>14, <1>15, Advance DEF Moves

LEMMA SetStatusTyped ==
  ASSUME TypeInv, NEW c \in Clients, SetStatus(c)
  PROVE  TypeInv'
<1>1. req[c].do \in {"approve", "reject", "delete"} /\ req[c].pc \in {"approve", "reject", "delete"}
  BY Mine DEF OnPath, SetStatus, At
<1>2. req[c].on \in DOMAIN proposals /\ proposals[req[c].on] \in Proposal
  BY <1>1, Mine DEF Held, AboutProposal, TypeInv, RowsOK
<1>3. PICK s : s = CASE req[c].do = "approve" -> "approved" [] req[c].do = "reject" -> "rejected"
                     [] OTHER -> "deleted"
  OBVIOUS
<1>4. s \in {"approved", "rejected", "deleted"}
  BY <1>1, <1>3
<1>5. PICK x : x = [status |-> s, item |-> IF req[c].run # 0 THEN req[c].run
                                          ELSE proposals[req[c].on].item]
  OBVIOUS
<1>6. x \in Proposal
  BY <1>2, <1>4, <1>5, Mine DEF Proposal
<1>7. proposals' = [proposals EXCEPT ![req[c].on] = x]
  BY <1>3, <1>5 DEF SetStatus
<1>8. /\ DOMAIN proposals' = DOMAIN proposals
      /\ \A r \in DOMAIN proposals : proposals'[r] = IF r = req[c].on THEN x ELSE proposals[r]
  BY <1>7
<1>9. \A r \in DOMAIN proposals' : r \in DOMAIN runs /\ proposals'[r] \in Proposal
  BY <1>6, <1>8 DEF TypeInv, RowsOK
<1>10. runs' \in Seq(Run) /\ DOMAIN runs \subseteq DOMAIN runs'
  BY DEF SetStatus, TypeInv, RowsOK
<1>11. RowsOK' /\ Grows
  BY <1>8, <1>9, <1>10, NewProposals DEF SetStatus, chatVars, fileVars, uploadVars
<1> QED
  BY <1>11, Ends DEF SetStatus, TypeInv, chatVars, boundVars

LEMMA ForgetTyped ==
  ASSUME TypeInv, NEW c \in Clients, SetItemStatus(c)
  PROVE  TypeInv'
<1>1. req[c].do = "forget"
  BY Mine DEF OnPath, SetItemStatus, At
<1>2. req[c].on \in DOMAIN items /\ items[req[c].on] \in Item
  BY <1>1, Mine, Typed DEF Held
<1>3. PICK x : x = [items[req[c].on] EXCEPT !.status = "deleted"]
  OBVIOUS
<1>4. x \in Item /\ x.run = items[req[c].on].run
  BY <1>2, <1>3 DEF Item
<1>5. items \in Seq(Item) /\ items' = [items EXCEPT ![req[c].on] = x]
  BY <1>3 DEF SetItemStatus, TypeInv, RowsOK
<1>6. /\ items' \in Seq(Item) /\ DOMAIN items' = DOMAIN items
      /\ \A i \in DOMAIN items : items'[i].run = items[i].run
  BY <1>2, <1>4, <1>5, UpdateEntry
<1>7. RowsOK' /\ Grows
  BY <1>6, NewItems DEF SetItemStatus, chatVars, fileVars, uploadVars
<1> QED
  BY <1>7, Ends DEF SetItemStatus, TypeInv, chatVars, boundVars

(* Artifacts. *)
LEMMA RowUpdate ==
  ASSUME TypeInv, NEW a \in DOMAIN artifacts, NEW x \in Artifact,
         artifacts' = [artifacts EXCEPT ![a] = x], WellHeld(x),
         \A n \in DOMAIN artifacts[a].held : n \in DOMAIN x.held /\ x.held[n] = artifacts[a].held[n],
         UNCHANGED << messages, feedback, runs, revisions, proposals, items, disk >>
  PROVE  RowsOK' /\ Grows
<1>1. /\ artifacts' \in Seq(Artifact) /\ DOMAIN artifacts' = DOMAIN artifacts
      /\ artifacts'[a] = x
      /\ \A b \in DOMAIN artifacts : b # a => artifacts'[b] = artifacts[b]
  BY UpdateEntry DEF TypeInv, RowsOK
<1>2. \A b \in DOMAIN artifacts' : WellHeld(artifacts'[b])
  BY <1>1 DEF TypeInv, RowsOK
<1>3. \A b \in DOMAIN artifacts : \A n \in DOMAIN artifacts[b].held :
        n \in DOMAIN artifacts'[b].held /\ artifacts'[b].held[n] = artifacts[b].held[n]
  BY <1>1
<1>4. runs' \in Seq(Run) /\ DOMAIN runs \subseteq DOMAIN runs'
  BY DEF TypeInv, RowsOK
<1> QED
  BY <1>1, <1>2, <1>3, <1>4, NewArtifacts

LEMMA Revised ==
  ASSUME TypeInv, NEW c \in Clients, Revise(c)
  PROVE  /\ req[c].on \in DOMAIN artifacts /\ req[c].do = "revise"
         /\ \E x \in Artifact :
              /\ artifacts' = [artifacts EXCEPT ![req[c].on] = x]
              /\ WellHeld(x) /\ x.run = artifacts[req[c].on].run
              /\ x.revision = artifacts[req[c].on].revision + 1
              /\ \A n \in DOMAIN artifacts[req[c].on].held :
                   n \in DOMAIN x.held /\ x.held[n] = artifacts[req[c].on].held[n]
<1>1. req[c].do = "revise"
  BY Mine DEF OnPath, Revise, At
<1>2. req[c].on \in DOMAIN artifacts
  BY <1>1, Mine DEF Held
<1>3. PICK row \in Artifact : row = artifacts[req[c].on] /\ WellHeld(row)
  BY <1>2, Typed DEF TypeInv, RowsOK
<1>4. PICK t \in Texts : t = req[c].text
  BY Mine
<1>5. PICK x : x = [run |-> row.run, revision |-> row.revision + 1, preview |-> t,
                    held |-> Append(row.held, t), state |-> "revised"]
  OBVIOUS
<1>7. artifacts' = [artifacts EXCEPT ![req[c].on] = x]
  BY <1>3, <1>4, <1>5 DEF Revise
<1>8. row.held \in Seq(Texts) /\ row.revision \in Nat /\ row.run \in Nat
  BY DEF Artifact
<1>9. /\ x.held \in Seq(Texts) /\ Len(x.held) = Len(row.held) + 1
      /\ DOMAIN x.held = 1 .. Len(row.held) + 1
      /\ \A n \in DOMAIN row.held : x.held[n] = row.held[n]
      /\ x.held[Len(row.held) + 1] = t
  BY <1>5, <1>8, Added
<1>10. Len(row.held) \in Nat /\ DOMAIN row.held = 1 .. Len(row.held)
  BY <1>8, EntryType
<1>11. x \in Artifact
  BY <1>5, <1>8, <1>9 DEF Artifact, States
<1>12. WellHeld(x)
  <2>1. row.revision = Len(row.held) /\ row.revision # 0 /\ row.held[1] = 0 /\ row.run \in DOMAIN runs
    BY <1>3 DEF WellHeld
  <2>2. x.revision = row.revision + 1 /\ x.preview = t /\ x.run = row.run
    BY <1>5
  <2>3. x.held[x.revision] = t /\ x.revision = Len(x.held) /\ x.revision # 0
    BY <1>9, <1>10, <2>1, <2>2
  <2>4. x.held[1] = 0
    BY <1>9, <1>10, <2>1
  <2> QED
    BY <2>1, <2>2, <2>3, <2>4 DEF WellHeld
<1>13. x.run = row.run /\ x.revision = row.revision + 1 /\ DOMAIN row.held \subseteq DOMAIN x.held
  BY <1>5, <1>9, <1>10
<1> QED
  BY <1>1, <1>2, <1>3, <1>7, <1>9, <1>11, <1>12, <1>13

LEMMA ReviseTyped ==
  ASSUME TypeInv, NEW c \in Clients, Revise(c)
  PROVE  TypeInv'
<1>1. RowsOK' /\ Grows
  <2>1. UNCHANGED << messages, feedback, runs, revisions, proposals, items, disk >>
    BY DEF Revise, chatVars, memoryVars, uploadVars
  <2> QED
    BY <2>1, Revised, RowUpdate
<1>2. Moves(c, "reload", req[c].on, req[c].run, req[c].text)
  BY Going DEF Revise, Place
<1>3. OnPath(req'[c]) /\ Held(req[c])'
  BY <1>1, <1>2, Revised DEF OnPath, Held, Moves, Grows
<1>4. chats' \in Nat /\ given' \in 0 .. MaxRequests /\ calm' \in BOOLEAN
  BY DEF Revise, TypeInv, chatVars, boundVars
<1> QED
  BY <1>1, <1>2, <1>3, <1>4, Advance DEF Moves

LEMMA RecordTyped ==
  ASSUME TypeInv, NEW c \in Clients, RecordRevision(c)
  PROVE  TypeInv'
<1>1. req[c].do = "revise" /\ req[c].pc = "record"
  BY Mine DEF OnPath, RecordRevision, At
<1>2. PICK x : x = [artifact |-> req[c].on, revision |-> req[c].run, preview |-> req[c].text]
  OBVIOUS
<1>3. x \in Revision
  BY <1>2, Mine DEF Revision, Texts
<1>4. revisions' \subseteq Revision
  BY <1>2, <1>3 DEF RecordRevision, TypeInv, RowsOK
<1>5. runs' \in Seq(Run) /\ DOMAIN runs \subseteq DOMAIN runs'
  BY DEF RecordRevision, TypeInv, RowsOK
<1>6. RowsOK' /\ Grows
  BY <1>4, <1>5, NewRevisions DEF RecordRevision, chatVars, memoryVars, uploadVars
<1> QED
  BY <1>6, Ends DEF RecordRevision, TypeInv, chatVars, boundVars

LEMMA AcceptTyped ==
  ASSUME TypeInv, NEW c \in Clients, SetReviewState(c)
  PROVE  TypeInv'
<1>1. req[c].do = "accept"
  BY Mine DEF OnPath, SetReviewState, At
<1>2. req[c].on \in DOMAIN artifacts
  BY <1>1, Mine DEF Held
<1>3. PICK row \in Artifact : row = artifacts[req[c].on] /\ WellHeld(row)
  BY <1>2, Typed DEF TypeInv, RowsOK
<1>4. PICK x : x = [row EXCEPT !.state = "approved"]
  OBVIOUS
<1>5. /\ x \in Artifact /\ x.run = row.run /\ x.revision = row.revision
      /\ x.preview = row.preview /\ x.held = row.held
  BY <1>4 DEF Artifact, States
<1>6. WellHeld(x)
  BY <1>3, <1>5 DEF WellHeld
<1>7. artifacts' = [artifacts EXCEPT ![req[c].on] = x]
  BY <1>3, <1>4 DEF SetReviewState
<1>8. RowsOK' /\ Grows
  <2>1. UNCHANGED << messages, feedback, runs, revisions, proposals, items, disk >>
    BY DEF SetReviewState, chatVars, memoryVars, uploadVars
  <2> QED
    BY <1>2, <1>3, <1>5, <1>6, <1>7, <2>1, RowUpdate
<1> QED
  BY <1>8, Ends DEF SetReviewState, TypeInv, chatVars, boundVars

(* Uploads. *)
LEMMA UploadTyped ==
  ASSUME TypeInv, NEW c \in Clients, OpenFile(c) \/ FillFile(c) \/ CreateUpload(c)
  PROVE  TypeInv'
<1>1. req[c].do = "upload"
  BY Mine DEF OnPath, OpenFile, FillFile, CreateUpload, At
<1>2. req[c].on \in DOMAIN runs /\ req[c].name \in Names
  BY <1>1, Mine DEF Held
<1>3. PICK f : f = << req[c].on, req[c].name >>
  OBVIOUS
<1>4. f = File(c) /\ f[1] = req[c].on /\ f[2] = req[c].name
  BY <1>3 DEF File
<1>5. chats' \in Nat /\ given' \in 0 .. MaxRequests /\ calm' \in BOOLEAN
  BY DEF OpenFile, FillFile, CreateUpload, TypeInv, chatVars, boundVars
<1>6. ASSUME NEW p \in {"fill", "upload_row"}, Go(c, p), RowsOK', Grows, f \in DOMAIN disk'
      PROVE  TypeInv'
  <2>1. Moves(c, p, req[c].on, req[c].run, req[c].text)
    BY <1>6, Going DEF Place
  <2>2. HasFile(req[c])'
    BY <1>3, <1>6, <2>1 DEF HasFile, Moves
  <2>3. OnPath(req'[c]) /\ Held(req[c])'
    BY <1>1, <1>2, <1>6, <2>1, <2>2 DEF OnPath, Held, Moves, Grows
  <2> QED
    BY <1>5, <1>6, <2>1, <2>3, Advance DEF Moves
<1>7. CASE OpenFile(c)
  <2>1. CASE End(c) /\ UNCHANGED disk
    <3>1. RowsOK' /\ Grows
      BY <1>7, <2>1, SameRows DEF OpenFile, chatVars, fileVars, memoryVars
    <3> QED
      BY <1>5, <2>1, <3>1, Ends
  <2>2. CASE Go(c, "fill") /\ disk' = Put(disk, File(c), "torn")
    <3>1. /\ DOMAIN disk' = DOMAIN disk \union {f}
          /\ \A g \in DOMAIN disk' : disk'[g] = IF g = f THEN "torn" ELSE disk[g]
      BY <1>4, <2>2 DEF Put
    <3>2. \A g \in DOMAIN disk' :
            g[1] \in DOMAIN runs /\ g[2] \in Names /\ disk'[g] \in {"torn", "whole"}
      BY <1>2, <1>4, <3>1 DEF TypeInv, RowsOK
    <3>3. RowsOK' /\ Grows
      BY <1>7, <3>1, <3>2, NewFiles DEF OpenFile, chatVars, fileVars, memoryVars
    <3> QED
      BY <1>6, <2>2, <3>1, <3>3
  <2> QED
    BY <1>7, <2>1, <2>2 DEF OpenFile
<1>8. CASE FillFile(c)
  <2>1. f \in DOMAIN disk
    BY <1>3, <1>8, Mine DEF Held, HasFile, FillFile, At
  <2>2. disk' = [disk EXCEPT ![f] = "whole"]
    BY <1>4, <1>8 DEF FillFile
  <2>3. /\ DOMAIN disk' = DOMAIN disk
        /\ \A g \in DOMAIN disk' :
             g[1] \in DOMAIN runs /\ g[2] \in Names /\ disk'[g] \in {"torn", "whole"}
    BY <2>1, <2>2 DEF TypeInv, RowsOK
  <2>4. RowsOK' /\ Grows
    BY <1>8, <2>3, NewFiles DEF FillFile, chatVars, fileVars, memoryVars
  <2> QED
    BY <1>6, <1>8, <2>1, <2>3, <2>4 DEF FillFile
<1>9. CASE CreateUpload(c)
  <2>1. RowsOK' /\ Grows
    BY <1>9, SameRows DEF CreateUpload, chatVars, fileVars, memoryVars
  <2> QED
    BY <1>5, <1>9, <2>1, Ends DEF CreateUpload
<1> QED
  BY <1>7, <1>8, <1>9

-----------------------------------------------------------------------------
(* The worker.  What is left of its work says how many artifacts its run   *)
(* has by then.                                                            *)
Left(r) == Len(runs[r].todo)

Owns(r) ==
  /\ ~runs[r].started \/ Left(r) = 8 => Own(r) = {}
  /\ Left(r) \in {7, 6, 5, 4} => \E a : Own(r) = {a}
  /\ Left(r) \in {3, 2, 1} => \E a, b \in Nat : a < b /\ Own(r) = {a, b}

Works(r) ==
  /\ Left(r) <= 8 /\ \A i \in 1 .. Left(r) : runs[r].todo[i] = Work[8 - Left(r) + i]
  /\ ~runs[r].started => Left(r) = 0
  /\ Owns(r)

WorkInv == \A r \in DOMAIN runs : Works(r)

LEMMA Chores ==
  ASSUME TypeInv, NEW r \in DOMAIN runs
  PROVE  /\ runs[r] \in Run /\ Left(r) \in Nat
         /\ runs[r].todo # << >> <=> Left(r) # 0
         /\ Left(r) # 0 => /\ Len(Tail(runs[r].todo)) = Left(r) - 1
                           /\ Head(runs[r].todo) = runs[r].todo[1]
                           /\ \A i \in 1 .. Left(r) - 1 :
                                Tail(runs[r].todo)[i] = runs[r].todo[i + 1]
<1>1. runs[r] \in Run
  BY Typed
<1> DEFINE chores == {"plan", "plan_row", "snapshot", "attach", "report", "report_row",
                      "proposal", "complete"}
<1>2. PICK todo \in Seq(chores) : todo = runs[r].todo
  BY <1>1 DEF Run
<1> HIDE DEF chores
<1>3. Len(todo) \in Nat /\ (todo # << >> <=> Len(todo) # 0)
  BY EmptySeq, LenProperties
<1>4. todo # << >> => /\ Len(Tail(todo)) = Len(todo) - 1 /\ Head(todo) = todo[1]
                      /\ \A i \in 1 .. Len(Tail(todo)) : Tail(todo)[i] = todo[i + 1]
  BY HeadTailProperties
<1> QED
  BY <1>1, <1>2, <1>3, <1>4 DEF Left

LEMMA DoingAt ==
  ASSUME TypeInv, WorkInv, NEW r \in DOMAIN runs
  PROVE  /\ Doing(r, "plan") <=> Left(r) = 8
         /\ Doing(r, "plan_row") <=> Left(r) = 7
         /\ Doing(r, "snapshot") <=> Left(r) = 6
         /\ Doing(r, "attach") <=> Left(r) = 5
         /\ Doing(r, "report") <=> Left(r) = 4
         /\ Doing(r, "report_row") <=> Left(r) = 3
         /\ Doing(r, "proposal") <=> Left(r) = 2
         /\ Doing(r, "complete") <=> Left(r) = 1
<1>1. Left(r) \in 0 .. 8 /\ (Left(r) # 0 => runs[r].todo[1] = Work[9 - Left(r)])
  <2>1. Left(r) \in Nat
    BY Chores
  <2>2. Left(r) <= 8 /\ \A i \in 1 .. Left(r) : runs[r].todo[i] = Work[8 - Left(r) + i]
    BY DEF WorkInv, Works
  <2>3. Left(r) # 0 => 1 \in 1 .. Left(r) /\ 8 - Left(r) + 1 = 9 - Left(r)
    BY <2>1
  <2> QED
    BY <2>1, <2>2, <2>3
<1>2. /\ Work[1] = "plan" /\ Work[2] = "plan_row" /\ Work[3] = "snapshot"
      /\ Work[4] = "attach" /\ Work[5] = "report" /\ Work[6] = "report_row"
      /\ Work[7] = "proposal" /\ Work[8] = "complete"
  BY DEF Work
<1>3. \A what : Doing(r, what) <=> Left(r) # 0 /\ Work[9 - Left(r)] = what
  BY <1>1, Chores DEF Doing
<1> QED
  BY <1>1, <1>2, <1>3

(* A chore taken from the list, and whatever else changes of the run. *)
Took(r, x) ==
  /\ runs' = [runs EXCEPT ![r] = x]
  /\ x.todo = Tail(runs[r].todo)
  /\ x.started = runs[r].started /\ x.stage = runs[r].stage

LEMMA Chore ==
  ASSUME TypeInv, NEW r \in DOMAIN runs,
         \/ CreateArtifact(r) \/ CreateRevision(r) \/ SaveSnapshot(r) \/ SelectSnapshot(r)
         \/ CreateProposal(r) \/ CompleteSession(r)
  PROVE  Left(r) # 0 /\ \E x \in Run : Took(r, x)
<1>1. Left(r) # 0
  BY Chores DEF CreateArtifact, CreateRevision, SaveSnapshot, SelectSnapshot, CreateProposal,
                CompleteSession, Doing
<1>2. PICK run \in Run : run = runs[r]
  BY Chores
<1> DEFINE chores == {"plan", "plan_row", "snapshot", "attach", "report", "report_row",
                      "proposal", "complete"}
<1>3. PICK todo : todo = Tail(run.todo)
  OBVIOUS
<1>4. todo \in Seq(chores)
  <2>1. run.todo \in Seq(chores) /\ run.todo # << >>
    BY <1>1, <1>2, Chores DEF Run
  <2> HIDE DEF chores
  <2> QED
    BY <1>3, <2>1, HeadTailProperties
<1>5. PICK x : x = [run EXCEPT !.todo = todo]
  OBVIOUS
<1>6. /\ x \in Run /\ x.todo = todo /\ x.started = run.started /\ x.stage = run.stage
      /\ x.saved = run.saved
  BY <1>4, <1>5 DEF Run
<1>7. Next1(r) = [runs EXCEPT ![r] = x]
  BY <1>2, <1>3, <1>5 DEF Next1
<1>8. ASSUME NEW y \in Run, y.todo = todo, y.started = run.started, y.stage = run.stage,
             runs' = [[runs EXCEPT ![r] = x] EXCEPT ![r] = y]
      PROVE  \E z \in Run : Took(r, z)
  <2>1. runs' = [runs EXCEPT ![r] = y]
    BY <1>8
  <2>2. Took(r, y)
    BY <1>2, <1>3, <1>8, <2>1 DEF Took
  <2> QED
    BY <2>2
<1>9. CASE CreateArtifact(r) \/ CreateRevision(r) \/ CreateProposal(r)
  <2>1. runs' = Next1(r)
    BY <1>9 DEF CreateArtifact, CreateRevision, CreateProposal
  <2>2. Took(r, x)
    BY <1>2, <1>3, <1>6, <1>7, <2>1 DEF Took
  <2> QED
    BY <1>1, <1>6, <2>2
<1>10. CASE SaveSnapshot(r)
  <2>1. PICK y : y = [x EXCEPT !.saved = 1]
    OBVIOUS
  <2>2. y \in Run /\ y.todo = todo /\ y.started = run.started /\ y.stage = run.stage
    BY <1>6, <2>1 DEF Run
  <2>3. runs' = [[runs EXCEPT ![r] = x] EXCEPT ![r] = y]
    BY <1>7, <1>10, <2>1 DEF SaveSnapshot
  <2> QED
    BY <1>1, <1>8, <2>2, <2>3
<1>11. CASE SelectSnapshot(r)
  <2>1. PICK y : y = [x EXCEPT !.selected = run.saved]
    OBVIOUS
  <2>2. y \in Run /\ y.todo = todo /\ y.started = run.started /\ y.stage = run.stage
    BY <1>6, <2>1 DEF Run
  <2>3. runs' = [[runs EXCEPT ![r] = x] EXCEPT ![r] = y]
    BY <1>2, <1>7, <1>11, <2>1 DEF SelectSnapshot
  <2> QED
    BY <1>1, <1>8, <2>2, <2>3
<1>12. CASE CompleteSession(r)
  <2>1. PICK y : y = [x EXCEPT !.status = "completed"]
    OBVIOUS
  <2>2. y \in Run /\ y.todo = todo /\ y.started = run.started /\ y.stage = run.stage
    BY <1>6, <2>1 DEF Run
  <2>3. runs' = [[runs EXCEPT ![r] = x] EXCEPT ![r] = y]
    BY <1>7, <1>12, <2>1 DEF CompleteSession
  <2> QED
    BY <1>1, <1>8, <2>2, <2>3
<1> QED
  BY <1>1, <1>9, <1>10, <1>11, <1>12

LEMMA SameRequests ==
  ASSUME TypeInv, RowsOK', Grows, UNCHANGED req
  PROVE  RequestsOK'
<1>1. ASSUME NEW c \in Clients PROVE OnPath(req[c]) /\ Held(req[c])'
  <2>1. PICK r \in Req : r = req[c] /\ r = req'[c]
    BY Mine
  <2>2. Held(r)'
    BY <2>1, Mine, StillHeld
  <2> QED
    BY <2>1, <2>2, Mine
<1> QED
  BY <1>1 DEF RequestsOK, TypeInv, OnPath

LEMMA RowOf ==
  ASSUME TypeInv, WorkInv, NEW r \in DOMAIN runs, CreateRevision(r)
  PROVE  \E a \in Own(r) : /\ \A b \in Own(r) : b <= a
                           /\ revisions' = revisions \union
                                {[artifact |-> a, revision |-> 1, preview |-> 0]}
<1>1. Left(r) \in {7, 3}
  BY DoingAt DEF CreateRevision
<1>2. Own(r) \subseteq Nat
  BY Typed DEF Own
<1>3. PICK a \in Own(r) : \A b \in Own(r) : b <= a
  BY <1>1, <1>2 DEF WorkInv, Works, Owns
<1>4. PICK m : m = CHOOSE b \in Own(r) : \A d \in Own(r) : d <= b
  OBVIOUS
<1>5. m \in Own(r) /\ \A d \in Own(r) : d <= m
  BY <1>3, <1>4
<1>6. revisions' = revisions \union {[artifact |-> m, revision |-> 1, preview |-> 0]}
  BY <1>4 DEF CreateRevision
<1> QED
  BY <1>5, <1>6

LEMMA ArtifactTyped ==
  ASSUME TypeInv, NEW r \in DOMAIN runs, CreateArtifact(r)
  PROVE  /\ RowsOK' /\ Grows
         /\ DOMAIN artifacts' = DOMAIN artifacts \union {Len(artifacts) + 1}
         /\ artifacts'[Len(artifacts) + 1].run = r
         /\ artifacts'[Len(artifacts) + 1].revision = 1
         /\ \A a \in DOMAIN artifacts : artifacts'[a] = artifacts[a]
<1>1. PICK x \in Run : Took(r, x)
  BY Chore
<1>2. runs' \in Seq(Run) /\ DOMAIN runs' = DOMAIN runs
  BY <1>1, RunUpdate DEF Took
<1>3. PICK s \in States : s = IF Doing(r, "plan") THEN "draft" ELSE "approved"
  BY DEF States
<1>4. PICK y : y = [run |-> r, revision |-> 1, preview |-> 0, held |-> << 0 >>, state |-> s]
  OBVIOUS
<1>5. << 0 >> \in Seq(Texts) /\ Len(<< 0 >>) = 1 /\ << 0 >>[1] = 0
  BY MaxAssumption DEF Texts
<1>6. y \in Artifact
  BY <1>4, <1>5, Typed, MaxAssumption DEF Artifact, Texts
<1>7. y.run = r /\ y.revision = Len(y.held) /\ y.revision = 1 /\ y.preview = y.held[1] /\ y.held[1] = 0
  BY <1>4, <1>5
<1>8. WellHeld(y)
  BY <1>7 DEF WellHeld
<1>9. artifacts \in Seq(Artifact) /\ artifacts' = Append(artifacts, y)
  BY <1>3, <1>4 DEF CreateArtifact, TypeInv, RowsOK
<1>10. /\ artifacts' \in Seq(Artifact) /\ DOMAIN artifacts' = 1 .. Len(artifacts) + 1
       /\ artifacts'[Len(artifacts) + 1] = y
       /\ \A a \in DOMAIN artifacts : artifacts'[a] = artifacts[a]
  BY <1>6, <1>9, Added
<1>11. DOMAIN artifacts' = DOMAIN artifacts \union {Len(artifacts) + 1}
  BY <1>10, Typed
<1>12. \A a \in DOMAIN artifacts' : WellHeld(artifacts'[a])
  <2>1. \A a \in DOMAIN artifacts : WellHeld(artifacts[a])
    BY DEF TypeInv, RowsOK
  <2> QED
    BY <1>8, <1>10, <1>11, <2>1
<1>13. UNCHANGED << messages, feedback, revisions, proposals, items, disk >>
  BY DEF CreateArtifact, chatVars, memoryVars, uploadVars
<1>14. RowsOK' /\ Grows
  BY <1>2, <1>10, <1>11, <1>12, <1>13, NewArtifacts
<1> QED
  BY <1>7, <1>10, <1>11, <1>14

LEMMA GivenUp ==
  ASSUME TypeInv, NEW r \in DOMAIN runs, GiveUp(r)
  PROVE  \E x \in Run : /\ runs' = [runs EXCEPT ![r] = x]
                        /\ x.todo = << >>
                        /\ x.started = runs[r].started /\ x.stage = runs[r].stage
<1>1. PICK status \in {"failed", "running"} :
        runs' = [runs EXCEPT ![r] = [runs[r] EXCEPT !.todo = << >>, !.status = status]]
  BY DEF GiveUp
<1>2. PICK x : x = [runs[r] EXCEPT !.todo = << >>, !.status = status]
  OBVIOUS
<1>3. runs[r] \in Run
  BY Chores
<1>4. /\ x.todo = << >> /\ x.started = runs[r].started /\ x.stage = runs[r].stage
      /\ x \in Run
  <2>1. ASSUME NEW chores PROVE << >> \in Seq(chores)
    OBVIOUS
  <2> QED
    BY <1>2, <1>3, <2>1 DEF Run
<1> QED
  BY <1>1, <1>2, <1>4

LEMMA WorkerTyped ==
  ASSUME TypeInv, WorkInv, NEW r \in DOMAIN runs, WorkerStep(r)
  PROVE  TypeInv'
<1>1. UNCHANGED req /\ chats' \in Nat /\ given' \in 0 .. MaxRequests /\ calm' \in BOOLEAN
  BY DEF WorkerStep, CreateArtifact, CreateRevision, SaveSnapshot, SelectSnapshot,
         CreateProposal, CompleteSession, GiveUp, TypeInv, chatVars, boundVars
<1>2. RowsOK' /\ Grows
  <2>1. runs' \in Seq(Run) /\ DOMAIN runs' = DOMAIN runs
    <3>1. CASE GiveUp(r)
      <4>1. PICK x \in Run : runs' = [runs EXCEPT ![r] = x]
        BY <3>1, GivenUp
      <4> QED
        BY <4>1, RunUpdate
    <3>2. CASE ~GiveUp(r)
      <4>1. PICK x \in Run : Took(r, x)
        BY <3>2, Chore DEF WorkerStep
      <4> QED
        BY <4>1, RunUpdate DEF Took
    <3> QED
      BY <3>1, <3>2
  <2>2. CASE CreateArtifact(r)
    BY <2>2, ArtifactTyped
  <2>3. CASE CreateRevision(r)
    <3>1. PICK a \in Own(r) :
            revisions' = revisions \union {[artifact |-> a, revision |-> 1, preview |-> 0]}
      BY <2>3, RowOf
    <3>2. [artifact |-> a, revision |-> 1, preview |-> 0] \in Revision
      BY Typed, MaxAssumption DEF Own, Revision
    <3>3. revisions' \subseteq Revision
      BY <3>1, <3>2 DEF TypeInv, RowsOK
    <3>4. UNCHANGED << messages, feedback, artifacts, proposals, items, disk >>
      BY <2>3 DEF CreateRevision, chatVars, memoryVars, uploadVars
    <3> QED
      BY <2>1, <3>3, <3>4, NewRevisions
  <2>4. CASE CreateProposal(r)
    <3>1. PICK x : x = [status |-> "proposed", item |-> 0]
      OBVIOUS
    <3>2. x \in Proposal
      BY <3>1 DEF Proposal
    <3>3. proposals' = Put(proposals, r, x)
      BY <2>4, <3>1 DEF CreateProposal
    <3>4. /\ DOMAIN proposals \subseteq DOMAIN proposals'
          /\ \A k \in DOMAIN proposals' : k \in DOMAIN runs /\ proposals'[k] \in Proposal
      <4>1. /\ DOMAIN proposals' = DOMAIN proposals \union {r} /\ proposals'[r] = x
            /\ \A k \in DOMAIN proposals : k # r => proposals'[k] = proposals[k]
        BY <3>3 DEF Put
      <4>2. \A k \in DOMAIN proposals : k \in DOMAIN runs /\ proposals[k] \in Proposal
        BY DEF TypeInv, RowsOK
      <4> QED
        BY <3>2, <4>1, <4>2
    <3>5. UNCHANGED << messages, feedback, artifacts, revisions, items, disk >>
      BY <2>4 DEF CreateProposal, chatVars, fileVars, uploadVars
    <3> QED
      BY <2>1, <3>4, <3>5, NewProposals
  <2>5. CASE SaveSnapshot(r) \/ SelectSnapshot(r) \/ CompleteSession(r) \/ GiveUp(r)
    <3>1. UNCHANGED << messages, feedback, artifacts, revisions, proposals, items, disk >>
      BY <2>5 DEF SaveSnapshot, SelectSnapshot, CompleteSession, GiveUp, chatVars, fileVars,
                  memoryVars, uploadVars
    <3> QED
      BY <2>1, <3>1, NewRuns
  <2> QED
    BY <2>2, <2>3, <2>4, <2>5 DEF WorkerStep
<1> QED
  BY <1>1, <1>2, SameRequests DEF TypeInv

LEMMA TypeStep ==
  ASSUME TypeInv, WorkInv, Len(runs) <= MaxRequests, [Next]_vars
  PROVE  TypeInv'
<1>1. ASSUME NEW c \in Clients, ClientStep(c) PROVE TypeInv'
  BY <1>1, GiveTyped, LookTyped, ChatTyped, SessionTyped, LedgerTyped, FeedbackTyped,
     SaveItemTyped, SetStatusTyped, ForgetTyped, ReviseTyped, RecordTyped, AcceptTyped,
     UploadTyped DEF ClientStep
<1>2. CASE UNCHANGED vars
  <2>1. RowsOK' /\ Grows
    BY <1>2, SameRows DEF vars
  <2> QED
    BY <1>2, <2>1, SameRequests DEF vars, TypeInv
<1> QED
  BY <1>1, <1>2, WorkerTyped DEF Next

-----------------------------------------------------------------------------
(* No more chats and runs than requests: a request that may still create   *)
(* one has not yet.                                                        *)
Opening == {c \in Clients : At(c, "create")}
Starting == {c \in Clients : req[c].pc \in {"create", "message", "route", "session"}}

CountInv ==
  /\ IsFiniteSet(Opening) /\ chats + Cardinality(Opening) <= given
  /\ IsFiniteSet(Starting) /\ Len(runs) + Cardinality(Starting) <= given

LEMMA FewRuns ==
  ASSUME TypeInv, CountInv
  PROVE  Len(runs) <= MaxRequests /\ chats <= MaxRequests
<1>1. Cardinality(Opening) \in Nat /\ Cardinality(Starting) \in Nat
  BY FS_CardinalityType DEF CountInv
<1> QED
  BY <1>1, Typed, MaxAssumption DEF CountInv, TypeInv

LEMMA CountInit == ASSUME Init PROVE CountInv
<1>1. Opening = {} /\ Starting = {} /\ chats = 0 /\ given = 0 /\ Len(runs) = 0
  BY DEF Init, Opening, Starting, At, Idle
<1> QED
  BY <1>1, FS_EmptySet DEF CountInv

(* A step of a client or a worker, but for those that create something:    *)
(* who was not about to create something still is not.                     *)
LEMMA CountedStep ==
  ASSUME TypeInv, CountInv, TypeInv', chats' = chats, given' = given, Len(runs') = Len(runs),
         Opening' \subseteq Opening, Starting' \subseteq Starting
  PROVE  CountInv'
<1>1. /\ IsFiniteSet(Opening') /\ Cardinality(Opening') <= Cardinality(Opening)
      /\ IsFiniteSet(Starting') /\ Cardinality(Starting') <= Cardinality(Starting)
  BY FS_Subset DEF CountInv
<1>2. /\ Cardinality(Opening) \in Nat /\ Cardinality(Starting) \in Nat
      /\ Cardinality(Opening') \in Nat /\ Cardinality(Starting') \in Nat
  BY <1>1, FS_CardinalityType DEF CountInv
<1> QED
  BY <1>1, <1>2, Typed DEF CountInv, TypeInv

(* Where a step takes a request: EXCEPT unfolded once. *)
LEMMA Stepped ==
  ASSUME TypeInv, NEW c \in Clients, NEW r, Step(c, r)
  PROVE  req'[c] = r /\ \A d \in Clients : d # c => req'[d] = req[d]
<1>1. DOMAIN req = Clients
  BY DEF TypeInv, RequestsOK
<1>2. req' = [req EXCEPT ![c] = r]
  BY DEF Step
<1> QED
  BY <1>1, <1>2

LEMMA Gone ==
  ASSUME TypeInv, NEW c \in Clients, NEW p, Go(c, p)
  PROVE  /\ req'[c].pc = p /\ req'[c].do = req[c].do /\ req'[c].on = req[c].on
         /\ req'[c].run = req[c].run /\ req'[c].text = req[c].text
         /\ \A d \in Clients : d # c => req'[d] = req[d]
<1>1. PICK r : r = [req[c] EXCEPT !.pc = p]
  OBVIOUS
<1>2. Step(c, r)
  BY <1>1 DEF Go
<1>3. /\ r.pc = p /\ r.do = req[c].do /\ r.on = req[c].on /\ r.run = req[c].run
      /\ r.text = req[c].text
  BY <1>1, Mine DEF Req
<1> QED
  BY <1>2, <1>3, Stepped

LEMMA Ended ==
  ASSUME TypeInv, NEW c \in Clients, End(c)
  PROVE  /\ req'[c] = Idle /\ req'[c].pc = "idle"
         /\ \A d \in Clients : d # c => req'[d] = req[d]
BY Stepped, IdleReq DEF End

(* Where the steps of a request lead, one by one. *)
LEMMA Leads ==
  ASSUME TypeInv, NEW c \in Clients, ClientStep(c)
  PROVE  /\ \A d \in Clients : d # c => req'[d] = req[d]
         /\ CutOff(c) \/ Reply(c) \/ StartRunWorker(c) \/ UpsertFeedback(c) \/ SetStatus(c)
            \/ SetItemStatus(c) \/ RecordRevision(c) \/ SetReviewState(c) \/ CreateUpload(c)
              => req'[c].pc = "idle"
         /\ CreateThread(c) => At(c, "create") /\ req'[c].pc \in {"message", "idle"}
         /\ AddMessage(c) => At(c, "message") /\ req'[c].pc = "route"
         /\ RouteChat(c) => At(c, "route") /\ req'[c].pc \in {"reply", "session", "idle"}
         /\ CreateSession(c) => At(c, "session") /\ req'[c].pc = "tasks"
         /\ CreateTasks(c) => At(c, "tasks") /\ req'[c].pc = "sandbox"
         /\ AcquireSandbox(c) => At(c, "sandbox") /\ req'[c].pc \in {"link", "start"}
         /\ UpdateMessageRun(c) => At(c, "link") /\ req'[c].pc = "start"
         /\ LookupFeedback(c) => req'[c].pc = "upsert"
         /\ LookProposal(c) => At(c, "approve_look") /\ req'[c].pc \in {"save_item", "idle"}
         /\ SaveItem(c) => At(c, "save_item") /\ req'[c].pc = "approve"
         /\ LookArtifact(c) => req'[c].pc = "revise"
         /\ Revise(c) => At(c, "revise") /\ req'[c].pc = "reload"
         /\ Reload(c) => At(c, "reload") /\ req'[c].pc = "record"
         /\ OpenFile(c) => req'[c].pc \in {"fill", "idle"}
         /\ FillFile(c) => req'[c].pc = "upload_row"
<1>1. \A d \in Clients : d # c => req'[d] = req[d]
  <2>1. \E r : Step(c, r)
    BY DEF ClientStep, Give, CutOff, CreateThread, AddMessage, RouteChat, Reply, CreateSession,
           CreateTasks, AcquireSandbox, UpdateMessageRun, StartRunWorker, LookupFeedback,
           UpsertFeedback, LookProposal, SaveItem, SetStatus, SetItemStatus, LookArtifact,
           Revise, Reload, RecordRevision, SetReviewState, OpenFile, FillFile, CreateUpload,
           Go, End
  <2> QED
    BY <2>1, Stepped
<1>2. CutOff(c) \/ Reply(c) \/ StartRunWorker(c) \/ UpsertFeedback(c) \/ SetStatus(c)
      \/ SetItemStatus(c) \/ RecordRevision(c) \/ SetReviewState(c) \/ CreateUpload(c)
        => req'[c].pc = "idle"
  BY Ended DEF CutOff, Reply, StartRunWorker, UpsertFeedback, SetStatus, SetItemStatus,
               RecordRevision, SetReviewState, CreateUpload
<1>3. /\ CreateThread(c) => At(c, "create") /\ req'[c].pc \in {"message", "idle"}
      /\ RouteChat(c) => At(c, "route") /\ req'[c].pc \in {"reply", "session", "idle"}
      /\ LookProposal(c) => At(c, "approve_look") /\ req'[c].pc \in {"save_item", "idle"}
      /\ OpenFile(c) => req'[c].pc \in {"fill", "idle"}
  BY Ended, Gone DEF CreateThread, RouteChat, LookProposal, OpenFile
<1>4. /\ CreateTasks(c) => At(c, "tasks") /\ req'[c].pc = "sandbox"
      /\ AcquireSandbox(c) => At(c, "sandbox") /\ req'[c].pc \in {"link", "start"}
      /\ UpdateMessageRun(c) => At(c, "link") /\ req'[c].pc = "start"
      /\ LookArtifact(c) => req'[c].pc = "revise"
      /\ Revise(c) => At(c, "revise") /\ req'[c].pc = "reload"
      /\ FillFile(c) => req'[c].pc = "upload_row"
  BY Gone DEF CreateTasks, AcquireSandbox, UpdateMessageRun, LookArtifact, Revise, FillFile
<1>5. ASSUME NEW p, NEW n, Step(c, [req[c] EXCEPT !.pc = p, !.run = n]) PROVE req'[c].pc = p
  <2>1. PICK r : r = [req[c] EXCEPT !.pc = p, !.run = n]
    OBVIOUS
  <2>2. r.pc = p
    BY <2>1, Mine DEF Req
  <2> QED
    BY <1>5, <2>1, <2>2, Stepped
<1>6. CreateSession(c) => At(c, "session") /\ req'[c].pc = "tasks"
  BY <1>5 DEF CreateSession
<1>7. SaveItem(c) => At(c, "save_item") /\ req'[c].pc = "approve"
  BY <1>5 DEF SaveItem
<1>8. LookupFeedback(c) => req'[c].pc = "upsert"
  BY <1>5 DEF LookupFeedback
<1>9. AddMessage(c) => At(c, "message") /\ req'[c].pc = "route"
  BY AddMessageMoves DEF AddMessage, Moves
<1>10. Reload(c) => At(c, "reload") /\ req'[c].pc = "record"
  <2>1. PICK n, t, r : r = [req[c] EXCEPT !.pc = "record", !.run = n, !.text = t]
                       /\ (Reload(c) => Step(c, r))
    BY DEF Reload
  <2>2. r.pc = "record"
    BY <2>1, Mine DEF Req
  <2> QED
    BY <2>1, <2>2, Stepped DEF Reload
<1> QED
  BY <1>1, <1>2, <1>3, <1>4, <1>6, <1>7, <1>8, <1>9, <1>10

LEMMA GivenPlace ==
  ASSUME TypeInv, NEW c \in Clients, Give(c)
  PROVE  /\ req'[c].pc \in {"create", "message", "session", "approve_look", "revise_look",
                            "lookup", "reject", "delete", "forget", "accept", "upload"}
         /\ \A d \in Clients : d # c => req'[d] = req[d]
         /\ calm' => calm /\ \A d \in Clients : At(d, "idle")
<1>1. PICK do, on, name :
        /\ do \in Kinds
        /\ Step(c, [do |-> do, on |-> on, run |-> 0, text |-> given + 1, name |-> name,
                    pc |-> CASE do = "chat" -> IF on = 0 THEN "create" ELSE "message"
                             [] do = "run" -> "session"
                             [] do = "approve" -> "approve_look"
                             [] do = "revise" -> "revise_look"
                             [] do = "feedback" -> "lookup"
                             [] OTHER -> do])
  BY DEF Give
<1>2. PICK p : p = CASE do = "chat" -> IF on = 0 THEN "create" ELSE "message"
                     [] do = "run" -> "session"
                     [] do = "approve" -> "approve_look"
                     [] do = "revise" -> "revise_look"
                     [] do = "feedback" -> "lookup"
                     [] OTHER -> do
  OBVIOUS
<1>3. p \in {"create", "message", "session", "approve_look", "revise_look",
             "lookup", "reject", "delete", "forget", "accept", "upload"}
  BY <1>1, <1>2, KindsAssumption
<1>4. PICK x : x = [do |-> do, on |-> on, run |-> 0, text |-> given + 1, name |-> name, pc |-> p]
  OBVIOUS
<1>5. Step(c, x) /\ x.pc = p
  BY <1>1, <1>2, <1>4
<1> QED
  BY <1>3, <1>5, Stepped DEF Give

(* What becomes of the runs. *)
LEMMA Made ==
  ASSUME TypeInv, NEW c \in Clients, CreateTasks(c) \/ AcquireSandbox(c) \/ StartRunWorker(c)
  PROVE  /\ req[c].run \in DOMAIN runs
         /\ Len(runs') = Len(runs) /\ DOMAIN runs' = DOMAIN runs
         /\ \A r \in DOMAIN runs : r # req[c].run => runs'[r] = runs[r]
         /\ ~StartRunWorker(c) => /\ runs'[req[c].run].started = runs[req[c].run].started
                                  /\ runs'[req[c].run].todo = runs[req[c].run].todo
         /\ StartRunWorker(c) => /\ runs'[req[c].run].started
                                 /\ runs'[req[c].run].todo = Work
                                 /\ runs'[req[c].run].stage = runs[req[c].run].stage
         /\ AcquireSandbox(c) => runs'[req[c].run].stage = "whole"
<1>1. req[c].run \in DOMAIN runs
  BY Mine DEF Held, CreateTasks, AcquireSandbox, StartRunWorker, At
<1>2. PICK k \in DOMAIN runs : k = req[c].run
  BY <1>1
<1>3. PICK run \in Run : run = runs[k]
  BY Typed
<1>4. ~(CreateTasks(c) /\ StartRunWorker(c)) /\ ~(AcquireSandbox(c) /\ StartRunWorker(c))
      /\ ~(CreateTasks(c) /\ AcquireSandbox(c))
  BY DEF CreateTasks, AcquireSandbox, StartRunWorker, At
<1>5. PICK x \in Run :
        /\ runs' = [runs EXCEPT ![k] = x]
        /\ ~StartRunWorker(c) => x.started = run.started /\ x.todo = run.todo
        /\ StartRunWorker(c) => x.started /\ x.todo = Work /\ x.stage = run.stage
        /\ AcquireSandbox(c) => x.stage = "whole"
  <2>1. CASE CreateTasks(c)
    <3>1. PICK x : x = [run EXCEPT !.stage = "tasks"]
      OBVIOUS
    <3>2. x \in Run /\ x.started = run.started /\ x.todo = run.todo
      BY <3>1 DEF Run, Stages
    <3>3. runs' = [runs EXCEPT ![k] = x]
      BY <1>2, <1>3, <2>1, <3>1 DEF CreateTasks
    <3> QED
      BY <1>4, <2>1, <3>2, <3>3
  <2>2. CASE AcquireSandbox(c)
    <3>1. PICK x : x = [run EXCEPT !.stage = "whole"]
      OBVIOUS
    <3>2. x \in Run /\ x.started = run.started /\ x.todo = run.todo /\ x.stage = "whole"
      BY <3>1 DEF Run, Stages
    <3>3. runs' = [runs EXCEPT ![k] = x]
      BY <1>2, <1>3, <2>2, <3>1 DEF AcquireSandbox
    <3> QED
      BY <1>4, <2>2, <3>2, <3>3
  <2>3. CASE StartRunWorker(c)
    <3>1. PICK x : x = [run EXCEPT !.started = TRUE, !.todo = Work]
      OBVIOUS
    <3>2. x.started /\ x.todo = Work /\ x.stage = run.stage
      BY <3>1 DEF Run
    <3>3. x \in Run
      BY <3>1, RunWith
    <3>4. runs' = [runs EXCEPT ![k] = x]
      BY <1>2, <1>3, <2>3, <3>1 DEF StartRunWorker
    <3> QED
      BY <1>4, <2>3, <3>2, <3>3, <3>4
  <2> QED
    BY <2>1, <2>2, <2>3
<1>6. /\ Len(runs') = Len(runs) /\ DOMAIN runs' = DOMAIN runs /\ runs'[k] = x
      /\ \A r \in DOMAIN runs : r # k => runs'[r] = runs[r]
  BY <1>5, RunUpdate
<1> QED
  BY <1>2, <1>3, <1>5, <1>6

LEMMA WorkedOn ==
  ASSUME TypeInv, NEW r \in DOMAIN runs, WorkerStep(r)
  PROVE  /\ Len(runs') = Len(runs) /\ DOMAIN runs' = DOMAIN runs
         /\ \A k \in DOMAIN runs : k # r => runs'[k] = runs[k]
         /\ runs'[r].started = runs[r].started /\ runs'[r].stage = runs[r].stage
         /\ GiveUp(r) => runs'[r].todo = << >>
         /\ ~GiveUp(r) => Left(r) # 0 /\ runs'[r].todo = Tail(runs[r].todo)
<1>1. CASE GiveUp(r)
  <2>1. PICK x \in Run : /\ runs' = [runs EXCEPT ![r] = x] /\ x.todo = << >>
                         /\ x.started = runs[r].started /\ x.stage = runs[r].stage
    BY <1>1, GivenUp
  <2> QED
    BY <1>1, <2>1, RunUpdate
<1>2. CASE ~GiveUp(r)
  <2>1. Left(r) # 0
    BY <1>2, Chore DEF WorkerStep
  <2>2. PICK x \in Run : Took(r, x)
    BY <1>2, Chore DEF WorkerStep
  <2> QED
    BY <1>2, <2>1, <2>2, RunUpdate DEF Took
<1> QED
  BY <1>1, <1>2

LEMMA SessionAdded ==
  ASSUME TypeInv, NEW c \in Clients, CreateSession(c)
  PROVE  /\ Len(runs') = Len(runs) + 1
         /\ DOMAIN runs' = DOMAIN runs \union {Len(runs) + 1}
         /\ \A r \in DOMAIN runs : runs'[r] = runs[r]
         /\ ~runs'[Len(runs) + 1].started /\ runs'[Len(runs) + 1].todo = << >>
         /\ req'[c].run = Len(runs) + 1
<1>1. PICK x : x = [stage |-> "session", started |-> FALSE, todo |-> << >>,
                    status |-> "running", saved |-> 0, selected |-> 0]
  OBVIOUS
<1>2. x \in Run /\ ~x.started /\ x.todo = << >>
  BY <1>1 DEF Run, Stages
<1>3. runs \in Seq(Run) /\ runs' = Append(runs, x)
  BY <1>1 DEF CreateSession, TypeInv, RowsOK
<1>4. /\ Len(runs') = Len(runs) + 1 /\ DOMAIN runs' = 1 .. Len(runs) + 1
      /\ \A r \in DOMAIN runs : runs'[r] = runs[r]
      /\ runs'[Len(runs) + 1] = x
  BY <1>2, <1>3, Added
<1>5. DOMAIN runs' = DOMAIN runs \union {Len(runs) + 1}
  BY <1>4, Typed
<1>6. PICK n : n = Len(runs) + 1
  OBVIOUS
<1>7. PICK r : r = [req[c] EXCEPT !.pc = "tasks", !.run = n]
  OBVIOUS
<1>8. r.run = n
  BY <1>7, Mine DEF Req
<1>9. req'[c].run = n
  BY <1>6, <1>7, <1>8, Stepped DEF CreateSession
<1> QED
  BY <1>2, <1>4, <1>5, <1>6, <1>9

LEMMA CountStep ==
  ASSUME TypeInv, CountInv, TypeInv', [Next]_vars
  PROVE  CountInv'
<1>1. /\ Cardinality(Opening) \in Nat /\ Cardinality(Starting) \in Nat
      /\ given \in Nat /\ chats \in Nat /\ Len(runs) \in Nat
  BY FS_CardinalityType, Typed DEF CountInv, TypeInv
<1>2. ASSUME NEW c \in Clients, Give(c) PROVE CountInv'
  <2>1. At(c, "idle") /\ given' = given + 1 /\ chats' = chats /\ runs' = runs
    BY <1>2 DEF Give, chatVars
  <2>2. \A d \in Clients : d # c => req'[d] = req[d]
    BY <1>2, Leads DEF ClientStep
  <2>3. Opening' \subseteq Opening \union {c} /\ Starting' \subseteq Starting \union {c}
    BY <2>2 DEF Opening, Starting, At
  <2>4. ASSUME NEW S, NEW T, IsFiniteSet(S), T \subseteq S \union {c}
        PROVE  /\ IsFiniteSet(T) /\ Cardinality(T) \in Nat
               /\ Cardinality(T) <= Cardinality(S) + 1
    <3>1. /\ IsFiniteSet(S \union {c}) /\ Cardinality(S \union {c}) \in Nat
          /\ Cardinality(S) \in Nat /\ Cardinality(S \union {c}) <= Cardinality(S) + 1
      BY <2>4, FS_AddElement, FS_CardinalityType
    <3>2. /\ IsFiniteSet(T) /\ Cardinality(T) <= Cardinality(S \union {c})
          /\ Cardinality(T) \in Nat
      BY <2>4, <3>1, FS_Subset, FS_CardinalityType
    <3> QED
      BY <3>1, <3>2
  <2>5. /\ IsFiniteSet(Opening') /\ Cardinality(Opening') <= Cardinality(Opening) + 1
        /\ IsFiniteSet(Starting') /\ Cardinality(Starting') <= Cardinality(Starting) + 1
        /\ Cardinality(Opening') \in Nat /\ Cardinality(Starting') \in Nat
    BY <2>3, <2>4 DEF CountInv
  <2> QED
    BY <1>1, <2>1, <2>5 DEF CountInv
<1>3. ASSUME NEW c \in Clients, CreateThread(c) PROVE CountInv'
  <2>1. chats' = chats + 1 /\ given' = given /\ runs' = runs
    BY <1>3 DEF CreateThread, boundVars
  <2>2. /\ \A d \in Clients : d # c => req'[d] = req[d]
        /\ At(c, "create") /\ req'[c].pc \in {"message", "idle"}
    BY <1>3, Leads DEF ClientStep
  <2>3. /\ Opening' = Opening \ {c} /\ c \in Opening /\ Starting' \subseteq Starting
    BY <2>2 DEF Opening, Starting, At
  <2>4. IsFiniteSet(Opening') /\ Cardinality(Opening') = Cardinality(Opening) - 1
    BY <2>3, FS_RemoveElement DEF CountInv
  <2>5. IsFiniteSet(Starting') /\ Cardinality(Starting') <= Cardinality(Starting)
    BY <2>3, FS_Subset DEF CountInv
  <2>6. Cardinality(Starting') \in Nat
    BY <2>5, FS_CardinalityType
  <2> QED
    BY <1>1, <2>1, <2>4, <2>5, <2>6 DEF CountInv
<1>4. ASSUME NEW c \in Clients, CreateSession(c) PROVE CountInv'
  <2>1. chats' = chats /\ given' = given
    BY <1>4 DEF CreateSession, boundVars, chatVars
  <2>2. /\ \A d \in Clients : d # c => req'[d] = req[d]
        /\ At(c, "session") /\ req'[c].pc = "tasks"
    BY <1>4, Leads DEF ClientStep
  <2>3. Opening' \subseteq Opening /\ Starting' = Starting \ {c} /\ c \in Starting
    BY <2>2 DEF Opening, Starting, At
  <2>4. IsFiniteSet(Starting') /\ Cardinality(Starting') = Cardinality(Starting) - 1
    BY <2>3, FS_RemoveElement DEF CountInv
  <2>5. IsFiniteSet(Opening') /\ Cardinality(Opening') <= Cardinality(Opening)
    BY <2>3, FS_Subset DEF CountInv
  <2>6. Cardinality(Opening') \in Nat
    BY <2>5, FS_CardinalityType
  <2>7. Len(runs') = Len(runs) + 1
    BY <1>4, AppendProperties DEF CreateSession, TypeInv, RowsOK
  <2> QED
    BY <1>1, <2>1, <2>4, <2>5, <2>6, <2>7 DEF CountInv
<1>5. ASSUME NEW c \in Clients, ClientStep(c), ~Give(c), ~CreateThread(c), ~CreateSession(c)
      PROVE  CountInv'
  <2>1. Opening' \subseteq Opening /\ Starting' \subseteq Starting
    BY <1>5, Leads DEF ClientStep, Opening, Starting, At
  <2>2. chats' = chats /\ given' = given
    BY <1>5 DEF ClientStep, CutOff, AddMessage, RouteChat, Reply,
           CreateTasks, AcquireSandbox, UpdateMessageRun, StartRunWorker, LookupFeedback,
           UpsertFeedback, LookProposal, SaveItem, SetStatus, SetItemStatus, LookArtifact,
           Revise, Reload, RecordRevision, SetReviewState, OpenFile, FillFile, CreateUpload,
           chatVars, boundVars
  <2>3. Len(runs') = Len(runs)
    <3>1. CASE CreateTasks(c) \/ AcquireSandbox(c) \/ StartRunWorker(c)
      BY <3>1, Made
    <3>2. CASE UNCHANGED runs
      BY <3>2
    <3> QED
      BY <1>5, <3>1, <3>2 DEF ClientStep, CutOff, AddMessage, RouteChat, Reply,
           UpdateMessageRun, LookupFeedback,
           UpsertFeedback, LookProposal, SaveItem, SetStatus, SetItemStatus, LookArtifact,
           Revise, Reload, RecordRevision, SetReviewState, OpenFile, FillFile, CreateUpload
  <2> QED
    BY <2>1, <2>2, <2>3, CountedStep
<1>6. ASSUME NEW r \in DOMAIN runs, WorkerStep(r) PROVE CountInv'
  <2>1. UNCHANGED << chats, given, req >>
    BY <1>6 DEF WorkerStep, CreateArtifact, CreateRevision, SaveSnapshot, SelectSnapshot,
         CreateProposal, CompleteSession, GiveUp, chatVars, boundVars
  <2>2. Len(runs') = Len(runs)
    BY <1>6, WorkedOn, Typed
  <2> QED
    BY <2>1, <2>2, CountedStep DEF Opening, Starting, At
<1>7. CASE UNCHANGED vars
  BY <1>7 DEF vars, CountInv, Opening, Starting, At
<1> QED
  BY <1>2, <1>3, <1>4, <1>5, <1>6, <1>7 DEF Next

-----------------------------------------------------------------------------
(* A run between its session and its worker belongs to the one handler     *)
(* that creates it; a message names it when all of it is there.            *)
Building == {"tasks", "sandbox", "link", "start"}
Builds(c) == req[c].pc \in Building

Linked(m) ==
  messages[m].run # 0 =>
    /\ messages[m].run \in DOMAIN runs /\ runs[messages[m].run].stage = "whole"
    /\ messages[m].role = "user"
    /\ \A n \in DOMAIN messages : messages[n].run = messages[m].run => n = m

Builder(c) ==
  /\ Builds(c) => ~runs[req[c].run].started
  /\ req[c].pc \in {"link", "start"} => runs[req[c].run].stage = "whole"
  /\ req[c].pc \in {"tasks", "sandbox", "link"} =>
       \A m \in DOMAIN messages : messages[m].run # req[c].run
  /\ \A d \in Clients : Builds(c) /\ Builds(d) /\ req[c].run = req[d].run => c = d

Attended(r) == ~runs[r].started => \E c \in Clients : Builds(c) /\ req[c].run = r

BuildInv ==
  /\ \A r \in DOMAIN runs : runs[r].started => runs[r].stage = "whole"
  /\ \A c \in Clients : Builder(c)
  /\ \A m \in DOMAIN messages : Linked(m)
  /\ calm => \A r \in DOMAIN runs : Attended(r)

LEMMA BuildInit == ASSUME Init PROVE BuildInv
BY DEF Init, BuildInv, Builder, Builds, Building, Idle

(* A step that creates no run and starts or links none. *)
LEMMA BuildSame ==
  ASSUME TypeInv, BuildInv, DOMAIN runs' = DOMAIN runs,
         \A r \in DOMAIN runs : runs'[r].started = runs[r].started /\ runs'[r].stage = runs[r].stage,
         \A m \in DOMAIN messages' :
           messages'[m].run = 0 \/ (m \in DOMAIN messages /\ messages'[m] = messages[m]),
         \A c \in Clients : req'[c].pc \in Building => req'[c] = req[c],
         calm' => calm /\ \A c \in Clients : Builds(c) => req'[c] = req[c]
  PROVE  BuildInv'
<1>1. \A r \in DOMAIN runs' : runs'[r].started => runs'[r].stage = "whole"
  BY DEF BuildInv
<1>2. ASSUME NEW c \in Clients PROVE Builder(c)'
  <2>1. CASE req'[c].pc \notin Building
    BY <2>1 DEF Builder, Builds, Building
  <2>2. CASE req'[c].pc \in Building
    <3>1. Builder(c) /\ req'[c] = req[c] /\ req[c].pc \in Building
      BY <2>2 DEF BuildInv
    <3>2. req[c].run \in DOMAIN runs
      BY <3>1, Mine DEF Held, Building
    <3>3. req[c].run # 0
      BY <3>2, Typed
    <3>4. req[c].pc \in {"tasks", "sandbox", "link"} =>
            \A m \in DOMAIN messages' : messages'[m].run # req[c].run
      BY <3>1, <3>3 DEF Builder
    <3>5. \A d \in Clients : req'[d].pc \in Building /\ req[c].run = req'[d].run => c = d
      BY <3>1 DEF Builder, Builds
    <3> QED
      BY <3>1, <3>2, <3>4, <3>5 DEF Builder, Builds
  <2> QED
    BY <2>1, <2>2
<1>3. ASSUME NEW m \in DOMAIN messages' PROVE Linked(m)'
  BY <1>3 DEF BuildInv, Linked
<1>4. ASSUME calm', NEW r \in DOMAIN runs' PROVE Attended(r)'
  BY <1>4 DEF BuildInv, Attended, Builds
<1> QED
  BY <1>1, <1>2, <1>3, <1>4 DEF BuildInv

LEMMA BuildOthers ==
  ASSUME TypeInv, NEW c \in Clients, ClientStep(c), ~CreateSession(c), ~CreateTasks(c),
         ~AcquireSandbox(c), ~UpdateMessageRun(c), ~StartRunWorker(c), BuildInv
  PROVE  BuildInv'
<1>1. UNCHANGED runs
  BY DEF ClientStep, Give, CutOff, CreateThread, AddMessage, RouteChat, Reply, LookupFeedback,
         UpsertFeedback, LookProposal, SaveItem, SetStatus, SetItemStatus, LookArtifact,
         Revise, Reload, RecordRevision, SetReviewState, OpenFile, FillFile, CreateUpload
<1>2. \A d \in Clients : d # c => req'[d] = req[d]
  BY Leads
<1>3. req'[c].pc \notin Building
  <2>1. CASE Give(c)
    BY <2>1, GivenPlace DEF Building
  <2>2. CASE ~Give(c)
    BY <2>2, Leads DEF Building, ClientStep
  <2> QED
    BY <2>1, <2>2
<1>4. calm' => calm /\ ~Builds(c)
  <2>1. CASE CutOff(c)
    BY <2>1 DEF CutOff
  <2>2. CASE ~CutOff(c)
    BY <2>2 DEF ClientStep, Give, CreateThread, AddMessage, RouteChat, Reply, LookupFeedback,
         UpsertFeedback, LookProposal, SaveItem, SetStatus, SetItemStatus, LookArtifact,
         Revise, Reload, RecordRevision, SetReviewState, OpenFile, FillFile, CreateUpload,
         At, Builds, Building, boundVars, TypeInv
  <2> QED
    BY <2>1, <2>2
<1>5. \A m \in DOMAIN messages' :
        messages'[m].run = 0 \/ (m \in DOMAIN messages /\ messages'[m] = messages[m])
  <2>1. CASE AddMessage(c) \/ Reply(c)
    <3>1. PICK role \in {"user", "assistant"} :
            messages' = Append(messages, [role |-> role, run |-> 0])
      BY <2>1 DEF AddMessage, Reply
    <3>2. PICK x : x = [role |-> role, run |-> 0]
      OBVIOUS
    <3>3. x \in Message /\ x.run = 0
      BY <3>2, MaxAssumption DEF Message
    <3>4. messages \in Seq(Message) /\ messages' = Append(messages, x)
      BY <3>1, <3>2 DEF TypeInv, RowsOK
    <3>5. /\ DOMAIN messages' = 1 .. Len(messages) + 1
          /\ \A m \in DOMAIN messages : messages'[m] = messages[m]
          /\ messages'[Len(messages) + 1] = x
      BY <3>3, <3>4, Added
    <3>6. \A m \in DOMAIN messages' : m \in DOMAIN messages \/ m = Len(messages) + 1
      BY <3>5, Typed
    <3> QED
      BY <3>3, <3>5, <3>6
  <2>2. CASE ~(AddMessage(c) \/ Reply(c))
    BY <2>2 DEF ClientStep, Give, CutOff, CreateThread, RouteChat, LookupFeedback,
         UpsertFeedback, LookProposal, SaveItem, SetStatus, SetItemStatus, LookArtifact,
         Revise, Reload, RecordRevision, SetReviewState, OpenFile, FillFile, CreateUpload,
         chatVars
  <2> QED
    BY <2>1, <2>2
<1> QED
  BY <1>1, <1>2, <1>3, <1>4, <1>5, BuildSame

LEMMA BuildSession ==
  ASSUME TypeInv, BuildInv, NEW c \in Clients, CreateSession(c)
  PROVE  BuildInv'
<1>1. PICK k : k = Len(runs) + 1
  OBVIOUS
<1>2. /\ DOMAIN runs' = DOMAIN runs \union {k} /\ k \notin DOMAIN runs /\ k # 0
      /\ \A r \in DOMAIN runs : runs'[r] = runs[r]
      /\ ~runs'[k].started /\ req'[c].run = k
  <2>1. Len(runs) \in Nat /\ DOMAIN runs = 1 .. Len(runs)
    BY Typed
  <2>2. k \notin DOMAIN runs /\ k # 0
    BY <1>1, <2>1
  <2> QED
    BY <1>1, <2>2, SessionAdded
<1>3. /\ \A d \in Clients : d # c => req'[d] = req[d]
      /\ req[c].pc = "session" /\ req'[c].pc = "tasks"
  BY Leads DEF ClientStep, At
<1>4. messages' = messages /\ calm' = calm
  BY DEF CreateSession, chatVars, boundVars
<1>5. \A d \in Clients : Builds(d) => req[d].run \in DOMAIN runs
  BY Mine DEF Held, Builds, Building
<1>6. \A m \in DOMAIN messages : messages[m].run \in DOMAIN runs \/ messages[m].run = 0
  BY DEF BuildInv, Linked
<1>7. \A r \in DOMAIN runs' : runs'[r].started => runs'[r].stage = "whole"
  BY <1>2 DEF BuildInv
<1>8. ASSUME NEW d \in Clients PROVE Builder(d)'
  <2>1. CASE d = c
    <3>1. \A e \in Clients : e # c /\ req'[e].pc \in Building => req'[e].run # k
      BY <1>2, <1>3, <1>5 DEF Builds
    <3>2. \A m \in DOMAIN messages' : messages'[m].run # k
      BY <1>2, <1>4, <1>6
    <3> QED
      BY <1>2, <1>3, <2>1, <3>1, <3>2 DEF Builder, Builds
  <2>2. CASE d # c
    <3>1. req'[d] = req[d] /\ Builder(d)
      BY <1>3, <2>2 DEF BuildInv
    <3>2. Builds(d) => req[d].run \in DOMAIN runs /\ req[d].run # k
      BY <1>2, <1>5
    <3>3. req[d].pc \in {"tasks", "sandbox", "link", "start"} => Builds(d)
      BY DEF Builds, Building
    <3>4. Builds(d) => runs'[req[d].run] = runs[req[d].run]
      BY <1>2, <3>2
    <3>5. \A e \in Clients : Builds(d) /\ req'[e].pc \in Building /\ req[d].run = req'[e].run => d = e
      BY <1>2, <1>3, <3>1, <3>2 DEF Builder, Builds
    <3> QED
      BY <1>4, <3>1, <3>3, <3>4, <3>5 DEF Builder, Builds
  <2> QED
    BY <2>1, <2>2
<1>9. ASSUME NEW m \in DOMAIN messages' PROVE Linked(m)'
  BY <1>2, <1>4, <1>9 DEF BuildInv, Linked
<1>10. ASSUME calm', NEW r \in DOMAIN runs' PROVE Attended(r)'
  <2>1. CASE r = k
    BY <1>2, <1>3, <2>1 DEF Attended, Builds, Building
  <2>2. CASE r # k
    <3>1. r \in DOMAIN runs /\ runs'[r] = runs[r] /\ Attended(r)
      BY <1>2, <1>4, <1>10, <2>2 DEF BuildInv
    <3> QED
      BY <1>3, <3>1 DEF Attended, Builds, Building
  <2> QED
    BY <2>1, <2>2
<1> QED
  BY <1>7, <1>8, <1>9, <1>10 DEF BuildInv

(* What the builder of a run does, the messages left alone or not. *)
LEMMA BuildMade ==
  ASSUME TypeInv, BuildInv, NEW c \in Clients, CreateTasks(c) \/ AcquireSandbox(c)
  PROVE  BuildInv'
<1>1. PICK k : k = req[c].run
  OBVIOUS
<1>2. /\ k \in DOMAIN runs /\ DOMAIN runs' = DOMAIN runs
      /\ \A r \in DOMAIN runs : r # k => runs'[r] = runs[r]
      /\ runs'[k].started = runs[k].started
      /\ AcquireSandbox(c) => runs'[k].stage = "whole"
  BY <1>1, Made DEF CreateTasks, AcquireSandbox, StartRunWorker, At
<1>3. /\ \A d \in Clients : d # c => req'[d] = req[d]
      /\ req'[c].run = k /\ req[c].pc \in {"tasks", "sandbox"}
      /\ req'[c].pc \in {"sandbox", "link", "start"}
      /\ req'[c].pc \in {"link", "start"} => runs'[k].stage = "whole"
  BY <1>1, <1>2, Gone DEF CreateTasks, AcquireSandbox, At
<1>4. messages' = messages /\ calm' = calm
  BY DEF CreateTasks, AcquireSandbox, chatVars, boundVars
<1>5. Builds(c) /\ Builder(c) /\ ~runs[k].started
      /\ \A m \in DOMAIN messages : messages[m].run # k
  BY <1>1, <1>3 DEF BuildInv, Builder, Builds, Building
<1>6. \A d \in Clients : Builds(d) => req[d].run \in DOMAIN runs
  BY Mine DEF Held, Builds, Building
<1>7. \A d \in Clients : req'[d].run = req[d].run /\ (Builds(d)' <=> Builds(d))
  BY <1>1, <1>3, <1>5 DEF Builds, Building
<1>8. \A r \in DOMAIN runs : runs'[r].started = runs[r].started
  BY <1>2
<1>9. \A r \in DOMAIN runs' : runs'[r].started => runs'[r].stage = "whole"
  BY <1>2, <1>5 DEF BuildInv
<1>10. ASSUME NEW d \in Clients PROVE Builder(d)'
  <2>1. Builds(d) => ~runs'[req[d].run].started
    BY <1>6, <1>8 DEF BuildInv, Builder
  <2>2. \A e \in Clients : Builds(d) /\ Builds(e) /\ req[d].run = req[e].run => d = e
    BY DEF BuildInv, Builder
  <2>3. CASE d = c
    BY <1>1, <1>3, <1>4, <1>5, <1>7, <2>1, <2>2, <2>3 DEF Builder
  <2>4. CASE d # c
    <3>1. req[d].pc \in {"link", "start"} => runs'[req[d].run].stage = "whole"
      <4>1. req[d].pc \in {"link", "start"} => Builds(d)
        BY DEF Builds, Building
      <4>2. Builds(d) => req[d].run # k
        BY <1>1, <1>5, <2>2, <2>4
      <4> QED
        BY <1>2, <1>6, <4>1, <4>2 DEF BuildInv, Builder
    <3>2. req[d].pc \in {"tasks", "sandbox", "link"} =>
            \A m \in DOMAIN messages : messages[m].run # req[d].run
      BY DEF BuildInv, Builder
    <3> QED
      BY <1>3, <1>4, <1>7, <2>1, <2>2, <2>4, <3>1, <3>2 DEF Builder
  <2> QED
    BY <2>3, <2>4
<1>11. ASSUME NEW m \in DOMAIN messages' PROVE Linked(m)'
  <2>1. Linked(m) /\ messages[m].run # k
    BY <1>4, <1>5, <1>11 DEF BuildInv
  <2> QED
    BY <1>2, <1>4, <2>1 DEF Linked
<1>12. ASSUME calm', NEW r \in DOMAIN runs' PROVE Attended(r)'
  <2>1. r \in DOMAIN runs /\ Attended(r)
    BY <1>2, <1>4, <1>12 DEF BuildInv
  <2> QED
    BY <1>7, <1>8, <2>1 DEF Attended
<1> QED
  BY <1>9, <1>10, <1>11, <1>12 DEF BuildInv

LEMMA BuildLink ==
  ASSUME TypeInv, BuildInv, NEW c \in Clients, UpdateMessageRun(c)
  PROVE  BuildInv'
<1>1. PICK k, n : k = req[c].run /\ n = req[c].on
  OBVIOUS
<1>2. /\ \A d \in Clients : d # c => req'[d] = req[d]
      /\ req'[c].run = k /\ req[c].pc = "link" /\ req'[c].pc = "start"
  BY <1>1, Gone DEF UpdateMessageRun, At
<1>3. /\ k \in DOMAIN runs /\ k # 0 /\ n \in DOMAIN messages /\ messages[n].role = "user"
  <2>1. req[c].do = "chat"
    BY <1>2, Mine DEF OnPath
  <2>2. AboutMessage(req[c]) /\ req[c].run \in DOMAIN runs
    BY <1>2, <2>1, Mine DEF Held
  <2> QED
    BY <1>1, <2>2, Typed DEF AboutMessage
<1>4. runs' = runs /\ (calm' => calm)
  BY DEF UpdateMessageRun
<1>5. Builds(c) /\ ~runs[k].started /\ runs[k].stage = "whole"
      /\ \A m \in DOMAIN messages : messages[m].run # k
  BY <1>1, <1>2 DEF BuildInv, Builder, Builds, Building
<1>6. /\ DOMAIN messages' = DOMAIN messages
      /\ \A m \in DOMAIN messages :
           /\ messages'[m].role = messages[m].role
           /\ m # n => messages'[m] = messages[m]
           /\ messages'[m].run \in {messages[m].run, k}
  <2>1. CASE UNCHANGED messages
    BY <2>1
  <2>2. CASE messages' = [messages EXCEPT ![req[c].on].run = req[c].run]
    <3>1. messages[n] \in Message
      BY <1>3, Typed
    <3>2. PICK x : x = [messages[n] EXCEPT !.run = k]
      OBVIOUS
    <3>3. x.run = k /\ x.role = messages[n].role
      BY <3>1, <3>2 DEF Message
    <3>4. messages' = [messages EXCEPT ![n] = x]
      BY <1>1, <2>2, <3>2
    <3> QED
      BY <1>3, <3>3, <3>4
  <2> QED
    BY <2>1, <2>2 DEF UpdateMessageRun
<1>7. \A d \in Clients : req'[d].run = req[d].run /\ (Builds(d)' <=> Builds(d))
  BY <1>1, <1>2, <1>5 DEF Builds, Building
<1>8. \A r \in DOMAIN runs' : runs'[r].started => runs'[r].stage = "whole"
  BY <1>4 DEF BuildInv
<1>9. ASSUME NEW d \in Clients PROVE Builder(d)'
  <2>1. Builder(d)
    BY DEF BuildInv
  <2>2. \A e \in Clients : Builds(d) /\ Builds(e) /\ req[d].run = req[e].run => d = e
    BY <2>1 DEF Builder
  <2>3. CASE d = c
    BY <1>1, <1>2, <1>4, <1>5, <1>7, <2>2, <2>3 DEF Builder
  <2>4. CASE d # c
    <3>1. Builds(d) => req[d].run # k
      BY <1>1, <1>5, <2>2, <2>4
    <3>2. req[d].pc \in {"tasks", "sandbox", "link"} => Builds(d)
      BY DEF Builds, Building
    <3>3. req[d].pc \in {"tasks", "sandbox", "link"} =>
            \A m \in DOMAIN messages' : messages'[m].run # req[d].run
      BY <1>6, <2>1, <3>1, <3>2 DEF Builder
    <3> QED
      BY <1>2, <1>4, <1>7, <2>1, <2>2, <2>4, <3>3 DEF Builder
  <2> QED
    BY <2>3, <2>4
<1>10. ASSUME NEW m \in DOMAIN messages' PROVE Linked(m)'
  <2>1. CASE messages'[m].run = k
    <3>1. m = n
      BY <1>5, <1>6, <1>10, <2>1
    <3>2. \A j \in DOMAIN messages' : messages'[j].run = k => j = n
      BY <1>5, <1>6
    <3> QED
      BY <1>3, <1>4, <1>5, <1>6, <2>1, <3>1, <3>2 DEF Linked
  <2>2. CASE messages'[m].run # k
    <3>1. messages'[m].run = messages[m].run /\ Linked(m)
      BY <1>6, <1>10, <2>2 DEF BuildInv
    <3> QED
      BY <1>4, <1>6, <1>10, <2>2, <3>1 DEF Linked
  <2> QED
    BY <2>1, <2>2
<1>11. ASSUME calm', NEW r \in DOMAIN runs' PROVE Attended(r)'
  BY <1>4, <1>7, <1>11 DEF BuildInv, Attended
<1> QED
  BY <1>8, <1>9, <1>10, <1>11 DEF BuildInv

LEMMA BuildStart ==
  ASSUME TypeInv, BuildInv, NEW c \in Clients, StartRunWorker(c)
  PROVE  BuildInv'
<1>1. PICK k : k = req[c].run
  OBVIOUS
<1>2. /\ k \in DOMAIN runs /\ DOMAIN runs' = DOMAIN runs
      /\ \A r \in DOMAIN runs : r # k => runs'[r] = runs[r]
      /\ runs'[k].started /\ runs'[k].stage = runs[k].stage
  BY <1>1, Made
<1>3. /\ \A d \in Clients : d # c => req'[d] = req[d]
      /\ req[c].pc = "start" /\ req'[c].pc = "idle"
  BY Leads DEF ClientStep, StartRunWorker, At
<1>4. messages' = messages /\ calm' = calm
  BY DEF StartRunWorker, chatVars, boundVars
<1>5. Builds(c) /\ runs[k].stage = "whole"
  BY <1>1, <1>3 DEF BuildInv, Builder, Builds, Building
<1>6. \A d \in Clients : Builds(d) => req[d].run \in DOMAIN runs
  BY Mine DEF Held, Builds, Building
<1>7. ~Builds(c)'
  BY <1>3 DEF Builds, Building
<1>8. \A r \in DOMAIN runs' : runs'[r].started => runs'[r].stage = "whole"
  BY <1>2, <1>5 DEF BuildInv
<1>9. ASSUME NEW d \in Clients PROVE Builder(d)'
  <2>1. CASE d = c
    BY <1>3, <1>7, <2>1 DEF Builder
  <2>2. CASE d # c
    <3>1. Builder(d) /\ req'[d] = req[d] /\ (Builds(d) => req[d].run # k)
      BY <1>1, <1>3, <1>5, <2>2 DEF BuildInv, Builder
    <3>2. req[d].pc \in {"tasks", "sandbox", "link", "start"} => Builds(d)
      BY DEF Builds, Building
    <3>3. Builds(d) => runs'[req[d].run] = runs[req[d].run]
      BY <1>2, <1>6, <3>1
    <3>4. \A e \in Clients : Builds(d) /\ Builds(e)' /\ req[d].run = req'[e].run => d = e
      BY <1>3, <1>7, <3>1 DEF Builder, Builds
    <3> QED
      BY <1>4, <3>1, <3>2, <3>3, <3>4 DEF Builder, Builds
  <2> QED
    BY <2>1, <2>2
<1>10. ASSUME NEW m \in DOMAIN messages' PROVE Linked(m)'
  <2>1. Linked(m)
    BY <1>4, <1>10 DEF BuildInv
  <2>2. \A r \in DOMAIN runs : runs'[r].stage = runs[r].stage
    BY <1>2
  <2> QED
    BY <1>2, <1>4, <2>1, <2>2 DEF Linked
<1>11. ASSUME calm', NEW r \in DOMAIN runs' PROVE Attended(r)'
  <2>1. r \in DOMAIN runs /\ Attended(r)
    BY <1>2, <1>4, <1>11 DEF BuildInv
  <2> QED
    BY <1>1, <1>2, <1>3, <2>1 DEF Attended, Builds
<1> QED
  BY <1>8, <1>9, <1>10, <1>11 DEF BuildInv

LEMMA BuildStep ==
  ASSUME TypeInv, BuildInv, [Next]_vars
  PROVE  BuildInv'
<1>1. ASSUME NEW c \in Clients, ClientStep(c) PROVE BuildInv'
  BY <1>1, BuildSession, BuildMade, BuildLink, BuildStart, BuildOthers
<1>2. ASSUME NEW r \in DOMAIN runs, WorkerStep(r) PROVE BuildInv'
  <2>1. /\ DOMAIN runs' = DOMAIN runs
        /\ \A k \in DOMAIN runs :
             runs'[k].started = runs[k].started /\ runs'[k].stage = runs[k].stage
    BY <1>2, WorkedOn
  <2>2. UNCHANGED << req, messages >> /\ (calm' => calm)
    BY <1>2 DEF WorkerStep, CreateArtifact, CreateRevision, SaveSnapshot, SelectSnapshot,
         CreateProposal, CompleteSession, GiveUp, chatVars, boundVars
  <2> QED
    BY <2>1, <2>2, BuildSame
<1>3. CASE UNCHANGED vars
  BY <1>3, BuildSame DEF vars
<1> QED
  BY <1>1, <1>2, <1>3 DEF Next

-----------------------------------------------------------------------------
(* A worker's list and its run's artifacts, step by step.                  *)
LEMMA WorkInit == ASSUME Init PROVE WorkInv
BY DEF Init, WorkInv

LEMMA ArtifactsStay ==
  ASSUME TypeInv, NEW c \in Clients, ClientStep(c)
  PROVE  /\ DOMAIN artifacts' = DOMAIN artifacts
         /\ \A a \in DOMAIN artifacts : artifacts'[a].run = artifacts[a].run
         /\ \A r : Own(r)' = Own(r)
<1>1. /\ DOMAIN artifacts' = DOMAIN artifacts
      /\ \A a \in DOMAIN artifacts : artifacts'[a].run = artifacts[a].run
  <2>1. CASE Revise(c)
    <3>1. PICK x \in Artifact : /\ artifacts' = [artifacts EXCEPT ![req[c].on] = x]
                                /\ x.run = artifacts[req[c].on].run
      BY <2>1, Revised
    <3> QED
      BY <3>1
  <2>2. CASE SetReviewState(c)
    <3>1. PICK k : k = req[c].on
      OBVIOUS
    <3>2. PICK x : x = [artifacts[k] EXCEPT !.state = "approved"]
      OBVIOUS
    <3>3. k \in DOMAIN artifacts => x.run = artifacts[k].run
      BY <3>2, Typed DEF Artifact
    <3>4. artifacts' = [artifacts EXCEPT ![k] = x]
      BY <2>2, <3>1, <3>2 DEF SetReviewState
    <3> QED
      BY <3>3, <3>4
  <2>3. CASE ~Revise(c) /\ ~SetReviewState(c)
    <3>1. artifacts' = artifacts
      BY <2>3 DEF ClientStep, Give, CutOff, CreateThread, AddMessage, RouteChat, Reply,
         CreateSession, CreateTasks, AcquireSandbox, UpdateMessageRun, StartRunWorker,
         LookupFeedback, UpsertFeedback, LookProposal, SaveItem, SetStatus, SetItemStatus,
         LookArtifact, Reload, RecordRevision, OpenFile, FillFile, CreateUpload, fileVars
    <3> QED
      BY <3>1
  <2> QED
    BY <2>1, <2>2, <2>3
<1> QED
  BY <1>1 DEF Own

LEMMA WorksOn ==
  ASSUME NEW r, Works(r), runs'[r] = runs[r], Own(r)' = Own(r)
  PROVE  Works(r)'
BY DEF Works, Owns, Left

LEMMA WorkStep ==
  ASSUME TypeInv, BuildInv, WorkInv, [Next]_vars
  PROVE  WorkInv'
<1>1. ASSUME NEW c \in Clients, CreateSession(c) PROVE WorkInv'
  <2>1. \A r : Own(r)' = Own(r)
    BY <1>1, ArtifactsStay DEF ClientStep
  <2>2. PICK k : k = Len(runs) + 1
    OBVIOUS
  <2>3. k \notin DOMAIN runs
    BY <2>2, Typed
  <2>4. Own(k) = {}
    BY <2>3 DEF Own, TypeInv, RowsOK, WellHeld
  <2>5. /\ DOMAIN runs' = DOMAIN runs \union {k}
        /\ \A r \in DOMAIN runs : runs'[r] = runs[r]
        /\ ~runs'[k].started /\ Len(runs'[k].todo) = 0
    <3>1. Len(<< >>) = 0
      OBVIOUS
    <3> QED
      BY <1>1, <2>2, <3>1, SessionAdded
  <2>6. Works(k)'
    BY <2>1, <2>4, <2>5 DEF Works, Owns, Left
  <2> QED
    BY <2>1, <2>5, <2>6, WorksOn DEF WorkInv
<1>2. ASSUME NEW c \in Clients, CreateTasks(c) \/ AcquireSandbox(c) PROVE WorkInv'
  <2>1. \A r : Own(r)' = Own(r)
    BY <1>2, ArtifactsStay DEF ClientStep
  <2>2. PICK k : k = req[c].run
    OBVIOUS
  <2>3. /\ k \in DOMAIN runs /\ DOMAIN runs' = DOMAIN runs
        /\ \A r \in DOMAIN runs : r # k => runs'[r] = runs[r]
        /\ runs'[k].started = runs[k].started /\ runs'[k].todo = runs[k].todo
    BY <1>2, <2>2, Made DEF CreateTasks, AcquireSandbox, StartRunWorker, At
  <2>4. Works(k)'
    <3>1. Works(k) /\ Left(k)' = Left(k)
      BY <2>3 DEF WorkInv, Left
    <3>2. Owns(k)'
      BY <2>1, <2>3, <3>1 DEF Works, Owns
    <3> QED
      BY <2>3, <3>1, <3>2 DEF Works
  <2> QED
    BY <2>1, <2>3, <2>4, WorksOn DEF WorkInv
<1>3. ASSUME NEW c \in Clients, StartRunWorker(c) PROVE WorkInv'
  <2>1. \A r : Own(r)' = Own(r)
    BY <1>3, ArtifactsStay DEF ClientStep
  <2>2. PICK k : k = req[c].run
    OBVIOUS
  <2>3. /\ k \in DOMAIN runs /\ DOMAIN runs' = DOMAIN runs
        /\ \A r \in DOMAIN runs : r # k => runs'[r] = runs[r]
        /\ runs'[k].started /\ runs'[k].todo = Work
    BY <1>3, <2>2, Made
  <2>4. Own(k) = {}
    <3>1. ~runs[k].started
      BY <1>3, <2>2 DEF StartRunWorker, At, BuildInv, Builder, Builds, Building
    <3> QED
      BY <2>3, <3>1 DEF WorkInv, Works, Owns
  <2>5. Len(Work) = 8
    BY DEF Work
  <2>6. Works(k)'
    BY <2>1, <2>3, <2>4, <2>5 DEF Works, Owns, Left
  <2> QED
    BY <2>1, <2>3, <2>6, WorksOn DEF WorkInv
<1>4. ASSUME NEW c \in Clients, ClientStep(c), UNCHANGED runs PROVE WorkInv'
  BY <1>4, ArtifactsStay, WorksOn DEF WorkInv
<1>5. ASSUME NEW r \in DOMAIN runs, GiveUp(r) PROVE WorkInv'
  <2>1. /\ DOMAIN runs' = DOMAIN runs
        /\ \A k \in DOMAIN runs : k # r => runs'[k] = runs[k]
        /\ runs'[r].started = runs[r].started /\ runs'[r].todo = << >>
    BY <1>5, WorkedOn DEF WorkerStep
  <2>2. \A k : Own(k)' = Own(k)
    BY <1>5 DEF GiveUp, fileVars, Own
  <2>3. Left(r) # 0 /\ Left(r)' = 0
    <3>1. Len(<< >>) = 0
      OBVIOUS
    <3> QED
      BY <1>5, <2>1, <3>1, Chores DEF GiveUp, Left
  <2>4. Works(r)'
    BY <2>1, <2>3 DEF WorkInv, Works, Owns
  <2> QED
    BY <2>1, <2>2, <2>4, WorksOn DEF WorkInv
<1>6. ASSUME NEW r \in DOMAIN runs, WorkerStep(r), ~GiveUp(r) PROVE WorkInv'
  <2>1. /\ DOMAIN runs' = DOMAIN runs
        /\ \A k \in DOMAIN runs : k # r => runs'[k] = runs[k]
        /\ runs'[r].started = runs[r].started /\ runs'[r].todo = Tail(runs[r].todo)
        /\ Left(r) # 0
    BY <1>6, WorkedOn
  <2>2. /\ Left(r) \in 1 .. 8 /\ Left(r)' = Left(r) - 1
        /\ \A i \in 1 .. Left(r)' : runs'[r].todo[i] = runs[r].todo[i + 1]
    <3>1. Left(r) \in Nat /\ Left(r) <= 8
      BY Chores DEF WorkInv, Works
    <3>2. Left(r)' = Left(r) - 1
      BY <2>1, Chores DEF Left
    <3> QED
      BY <2>1, <3>1, <3>2, Chores
  <2>3. \A i \in 1 .. Left(r)' : runs'[r].todo[i] = Work[8 - Left(r)' + i]
    BY <2>2 DEF WorkInv, Works
  <2>4. runs'[r].started
    BY <2>1 DEF WorkInv, Works
  <2>5. Owns(r)
    BY DEF WorkInv, Works
  <2>6. Owns(r)' => Works(r)'
    BY <2>2, <2>3, <2>4 DEF Works
  <2>9. CASE CreateArtifact(r)
    <3>1. Left(r) \in {8, 4}
      BY <2>9, DoingAt DEF CreateArtifact
    <3>2. PICK n \in Nat : n = Len(artifacts) + 1
      BY Typed
    <3>3. /\ DOMAIN artifacts' = DOMAIN artifacts \union {n} /\ artifacts'[n].run = r
          /\ \A a \in DOMAIN artifacts : artifacts'[a] = artifacts[a]
      BY <2>9, <3>2, ArtifactTyped
    <3>4. n \notin DOMAIN artifacts /\ \A a \in DOMAIN artifacts : a \in Nat /\ a < n
      BY <3>2, Typed
    <3>5. Own(r)' = Own(r) \union {n} /\ \A k \in DOMAIN runs : k # r => Own(k)' = Own(k)
      BY <3>3, <3>4 DEF Own
    <3>6. Works(r)'
      <4>1. CASE Left(r) = 8
        <5>1. Own(r)' = {n}
          BY <2>5, <3>5, <4>1 DEF Owns
        <5>2. Left(r)' = 7
          BY <2>2, <4>1
        <5> QED
          BY <2>4, <2>6, <5>1, <5>2 DEF Owns
      <4>2. CASE Left(r) = 4
        <5>1. PICK a : Own(r) = {a}
          BY <2>5, <4>2 DEF Owns
        <5>2. a \in Nat /\ a < n
          BY <3>4, <5>1 DEF Own
        <5>3. Own(r)' = {a, n}
          BY <3>5, <5>1
        <5>4. Left(r)' = 3
          BY <2>2, <4>2
        <5> QED
          BY <2>4, <2>6, <5>2, <5>3, <5>4 DEF Owns
      <4> QED
        BY <3>1, <4>1, <4>2
    <3> QED
      BY <2>1, <3>5, <3>6, WorksOn DEF WorkInv
  <2>10. CASE ~CreateArtifact(r)
    <3>1. Left(r) \in {7, 6, 5, 3, 2, 1}
      BY <1>6, <2>10, DoingAt DEF WorkerStep, CreateRevision, SaveSnapshot, SelectSnapshot,
                                 CreateProposal, CompleteSession
    <3>2. \A k : Own(k)' = Own(k)
      BY <1>6, <2>10 DEF WorkerStep, CreateRevision, SaveSnapshot, SelectSnapshot,
                        CreateProposal, CompleteSession, fileVars, Own
    <3>3. Works(r)'
      BY <2>2, <2>4, <2>5, <2>6, <3>1, <3>2 DEF Owns
    <3> QED
      BY <2>1, <3>2, <3>3, WorksOn DEF WorkInv
  <2> QED
    BY <2>9, <2>10
<1>7. CASE UNCHANGED vars
  BY <1>7, WorksOn DEF vars, WorkInv, Own
<1>8. ASSUME NEW c \in Clients, ClientStep(c) PROVE WorkInv'
  <2>1. CreateSession(c) \/ CreateTasks(c) \/ AcquireSandbox(c) \/ StartRunWorker(c)
        \/ UNCHANGED runs
    BY <1>8 DEF ClientStep, Give, CutOff, CreateThread, AddMessage, RouteChat, Reply,
         UpdateMessageRun, LookupFeedback, UpsertFeedback, LookProposal, SaveItem, SetStatus,
         SetItemStatus, LookArtifact, Revise, Reload, RecordRevision, SetReviewState, OpenFile,
         FillFile, CreateUpload
  <2> QED
    BY <1>1, <1>2, <1>3, <1>4, <1>8, <2>1
<1> QED
  BY <1>5, <1>6, <1>7, <1>8 DEF Next

-----------------------------------------------------------------------------
(* As long as it is calm, one request at most is at work.                  *)
Solo == calm => \A c, d \in Clients : ~At(c, "idle") /\ ~At(d, "idle") => c = d

LEMMA SoloInit == ASSUME Init PROVE Solo
BY DEF Init, Solo, At, Idle

LEMMA Calms ==
  ASSUME TypeInv, NEW c \in Clients, ClientStep(c), ~Give(c)
  PROVE  ~At(c, "idle") /\ (calm' => calm /\ ~CutOff(c))
<1>1. ~At(c, "idle")
  BY DEF ClientStep, CutOff, CreateThread, AddMessage, RouteChat, Reply, CreateSession,
       CreateTasks, AcquireSandbox, UpdateMessageRun, StartRunWorker, LookupFeedback,
       UpsertFeedback, LookProposal, SaveItem, SetStatus, SetItemStatus, LookArtifact,
       Revise, Reload, RecordRevision, SetReviewState, OpenFile, FillFile, CreateUpload, At
<1>2. CutOff(c) => calm' = FALSE
  BY DEF CutOff
<1>3. CutOff(c) \/ UpdateMessageRun(c) \/ UNCHANGED calm
  BY DEF ClientStep, CreateThread, AddMessage, RouteChat, Reply, CreateSession,
       CreateTasks, AcquireSandbox, StartRunWorker, LookupFeedback,
       UpsertFeedback, LookProposal, SaveItem, SetStatus, SetItemStatus, LookArtifact,
       Revise, Reload, RecordRevision, SetReviewState, OpenFile, FillFile, CreateUpload,
       boundVars
<1>4. UpdateMessageRun(c) => (calm' => calm)
  BY DEF UpdateMessageRun
<1> QED
  BY <1>1, <1>2, <1>3, <1>4

LEMMA SoloStep ==
  ASSUME TypeInv, Solo, [Next]_vars
  PROVE  Solo'
<1>1. ASSUME NEW c \in Clients, Give(c) PROVE Solo'
  BY <1>1, GivenPlace DEF Solo, At
<1>2. ASSUME NEW c \in Clients, ClientStep(c), ~Give(c) PROVE Solo'
  BY <1>2, Leads, Calms DEF Solo, At
<1>3. ASSUME NEW r \in DOMAIN runs, WorkerStep(r) PROVE Solo'
  BY <1>3 DEF WorkerStep, CreateArtifact, CreateRevision, SaveSnapshot, SelectSnapshot,
              CreateProposal, CompleteSession, GiveUp, boundVars, Solo, At
<1>4. CASE UNCHANGED vars
  BY <1>4 DEF vars, Solo, At
<1> QED
  BY <1>1, <1>2, <1>3, <1>4 DEF Next

-----------------------------------------------------------------------------
(* Memory: a run proposes once, and while it is calm what has an item is   *)
(* decided, or being decided by the request that made it.                  *)
Proposed(r) == runs[r].started /\ Left(r) \in {0, 1}

Became(r) == proposals[r].item \in DOMAIN items /\ items[proposals[r].item].run = r

Decided(i) ==
  \/ proposals[items[i].run].status # "proposed"
  \/ \E c \in Clients : At(c, "approve") /\ req[c].on = items[i].run

MemoryInv ==
  /\ \A i \in DOMAIN items : items[i].run \in DOMAIN proposals
  /\ \A r \in DOMAIN proposals : Proposed(r)
  /\ \A r \in DOMAIN proposals : proposals[r].status = "approved" => Became(r)
  /\ calm => \A c \in Clients : At(c, "save_item") => proposals[req[c].on].status = "proposed"
  /\ calm => \A i \in DOMAIN items : Decided(i)
  /\ calm => \A i, j \in DOMAIN items : items[i].run = items[j].run => i = j

LEMMA MemoryInit == ASSUME Init PROVE MemoryInv
<1>1. DOMAIN items = {} /\ DOMAIN proposals = {}
  BY DEF Init
<1>2. \A c \in Clients : ~At(c, "save_item")
  BY DEF Init, At, Idle
<1> QED
  BY <1>1, <1>2 DEF MemoryInv

LEMMA ProposedStays ==
  ASSUME TypeInv, BuildInv, WorkInv, MemoryInv, [Next]_vars, NEW r \in DOMAIN proposals
  PROVE  Proposed(r)'
<1>1. r \in DOMAIN runs /\ Proposed(r)
  BY DEF TypeInv, RowsOK, MemoryInv
<1>2. CASE runs'[r] = runs[r]
  BY <1>1, <1>2 DEF Proposed, Left
<1>3. ASSUME NEW c \in Clients, CreateSession(c) PROVE Proposed(r)'
  BY <1>1, <1>2, <1>3, SessionAdded
<1>4. ASSUME NEW c \in Clients, CreateTasks(c) \/ AcquireSandbox(c) PROVE Proposed(r)'
  <2>1. ~StartRunWorker(c)
    BY <1>4 DEF CreateTasks, AcquireSandbox, StartRunWorker, At
  <2>2. runs'[r].started = runs[r].started /\ runs'[r].todo = runs[r].todo
    BY <1>1, <1>4, <2>1, Made
  <2> QED
    BY <1>1, <2>2 DEF Proposed, Left
<1>5. ASSUME NEW c \in Clients, StartRunWorker(c) PROVE Proposed(r)'
  <2>1. ~runs[req[c].run].started
    BY <1>5 DEF StartRunWorker, At, BuildInv, Builder, Builds, Building
  <2> QED
    BY <1>1, <1>2, <1>5, <2>1, Made DEF Proposed
<1>6. ASSUME NEW k \in DOMAIN runs, WorkerStep(k) PROVE Proposed(r)'
  <2>1. CASE k # r
    BY <1>1, <1>2, <1>6, <2>1, WorkedOn
  <2>2. CASE k = r /\ GiveUp(r)
    <3>1. Len(<< >>) = 0
      OBVIOUS
    <3> QED
      BY <1>1, <1>6, <2>2, <3>1, WorkedOn DEF Proposed, Left
  <2>3. CASE k = r /\ ~GiveUp(r)
    <3>1. Left(r) # 0 /\ runs'[r].todo = Tail(runs[r].todo) /\ runs'[r].started = runs[r].started
      BY <1>6, <2>3, WorkedOn
    <3>2. Len(Tail(runs[r].todo)) = Left(r) - 1
      BY <1>1, <3>1, Chores
    <3> QED
      BY <1>1, <3>1, <3>2 DEF Proposed, Left
  <2> QED
    BY <2>1, <2>2, <2>3
<1>7. ASSUME NEW c \in Clients, ClientStep(c) PROVE Proposed(r)'
  <2>1. CreateSession(c) \/ CreateTasks(c) \/ AcquireSandbox(c) \/ StartRunWorker(c)
        \/ UNCHANGED runs
    BY <1>7 DEF ClientStep, Give, CutOff, CreateThread, AddMessage, RouteChat, Reply,
         UpdateMessageRun, LookupFeedback, UpsertFeedback, LookProposal, SaveItem, SetStatus,
         SetItemStatus, LookArtifact, Revise, Reload, RecordRevision, SetReviewState, OpenFile,
         FillFile, CreateUpload
  <2> QED
    BY <1>2, <1>3, <1>4, <1>5, <2>1
<1>8. CASE UNCHANGED vars
  BY <1>2, <1>8 DEF vars
<1> QED
  BY <1>6, <1>7, <1>8 DEF Next

(* A step that makes no item and decides nothing. *)
LEMMA MemorySame ==
  ASSUME TypeInv, BuildInv, WorkInv, MemoryInv, [Next]_vars, UNCHANGED proposals,
         DOMAIN items' = DOMAIN items, \A i \in DOMAIN items : items'[i].run = items[i].run,
         calm' => /\ calm
                  /\ \A c \in Clients :
                       /\ At(c, "save_item")' => /\ req'[c].on = req[c].on
                                                 /\ proposals[req[c].on].status = "proposed"
                       /\ At(c, "approve") => At(c, "approve")' /\ req'[c].on = req[c].on
  PROVE  MemoryInv'
<1>1. \A r \in DOMAIN proposals' : Proposed(r)'
  BY ProposedStays
<1>2. ASSUME NEW r \in DOMAIN proposals', proposals'[r].status = "approved" PROVE Became(r)'
  BY <1>2 DEF MemoryInv, Became
<1>3. calm' => \A c \in Clients : At(c, "save_item")' => proposals'[req'[c].on].status = "proposed"
  OBVIOUS
<1>4. ASSUME calm', NEW i \in DOMAIN items' PROVE Decided(i)'
  BY <1>4 DEF MemoryInv, Decided
<1>5. /\ \A i \in DOMAIN items' : items'[i].run \in DOMAIN proposals'
      /\ calm' => \A i, j \in DOMAIN items' : items'[i].run = items'[j].run => i = j
  BY DEF MemoryInv
<1> QED
  BY <1>1, <1>2, <1>3, <1>4, <1>5 DEF MemoryInv

LEMMA MemoryItem ==
  ASSUME TypeInv, BuildInv, WorkInv, Solo, MemoryInv, NEW c \in Clients, SaveItem(c)
  PROVE  MemoryInv'
<1>1. PICK k, n \in Nat : k = req[c].on /\ n = Len(items) + 1
  BY Mine, Typed
<1>2. req[c].pc = "save_item" /\ proposals' = proposals /\ runs' = runs /\ calm' = calm
  BY DEF SaveItem, At, boundVars
<1>3. k \in DOMAIN proposals
  <2>1. req[c].do = "approve"
    BY <1>2, Mine DEF OnPath
  <2> QED
    BY <1>1, <2>1, Mine DEF Held, AboutProposal
<1>4. /\ req'[c].pc = "approve" /\ req'[c].on = k /\ req'[c].run = n
      /\ \A d \in Clients : d # c => req'[d] = req[d]
  <2>1. PICK r : r = [req[c] EXCEPT !.pc = "approve", !.run = n]
    OBVIOUS
  <2>2. r.pc = "approve" /\ r.on = k /\ r.run = n
    BY <1>1, <2>1, Mine DEF Req
  <2> QED
    BY <1>1, <2>1, <2>2, Stepped DEF SaveItem
<1>5. /\ DOMAIN items' = DOMAIN items \union {n} /\ n \notin DOMAIN items
      /\ items'[n].run = k /\ \A i \in DOMAIN items : items'[i] = items[i]
  <2>1. items' = Append(items, [run |-> k, status |-> "active"])
    BY <1>1 DEF SaveItem
  <2>2. items \in Seq(Item) /\ Len(items) \in Nat /\ DOMAIN items = 1 .. Len(items)
    BY Typed DEF TypeInv, RowsOK
  <2> QED
    BY <1>1, <2>1, <2>2, AppendProperties
<1>6. calm => /\ proposals[k].status = "proposed"
              /\ \A d \in Clients : d # c => At(d, "idle")
  BY <1>1, <1>2 DEF MemoryInv, Solo, At
<1>7. calm => \A i \in DOMAIN items : items[i].run # k
  BY <1>1, <1>2, <1>6 DEF MemoryInv, Decided, At
<1>8. \A r \in DOMAIN proposals' : Proposed(r)'
  BY <1>2 DEF MemoryInv, Proposed, Left
<1>9. ASSUME NEW r \in DOMAIN proposals', proposals'[r].status = "approved" PROVE Became(r)'
  BY <1>2, <1>5, <1>9 DEF MemoryInv, Became
<1>10. calm' => \A d \in Clients : ~At(d, "save_item")'
  BY <1>2, <1>4, <1>6 DEF At
<1>11. ASSUME calm', NEW i \in DOMAIN items' PROVE Decided(i)'
  <2>1. CASE i = n
    BY <1>4, <1>5, <2>1 DEF Decided, At
  <2>2. CASE i # n
    <3>1. i \in DOMAIN items /\ items'[i] = items[i] /\ Decided(i)
      BY <1>2, <1>5, <1>11, <2>2 DEF MemoryInv
    <3>2. proposals[items[i].run].status # "proposed"
      BY <1>2, <1>6, <1>11, <3>1 DEF Decided, At
    <3> QED
      BY <1>2, <3>1, <3>2 DEF Decided
  <2> QED
    BY <2>1, <2>2
<1>12. \A i \in DOMAIN items' : items'[i].run \in DOMAIN proposals'
  BY <1>2, <1>3, <1>5 DEF MemoryInv
<1>13. calm' => \A i, j \in DOMAIN items' : items'[i].run = items'[j].run => i = j
  BY <1>2, <1>5, <1>7 DEF MemoryInv
<1> QED
  BY <1>8, <1>9, <1>10, <1>11, <1>12, <1>13 DEF MemoryInv

LEMMA MemoryStatus ==
  ASSUME TypeInv, BuildInv, WorkInv, Solo, MemoryInv, NEW c \in Clients, SetStatus(c)
  PROVE  MemoryInv'
<1>1. PICK k : k = req[c].on
  OBVIOUS
<1>2. /\ req[c].pc \in {"approve", "reject", "delete"} /\ req[c].do = req[c].pc
      /\ items' = items /\ runs' = runs /\ calm' = calm
  BY Mine DEF SetStatus, At, OnPath, boundVars
<1>3. k \in DOMAIN proposals
  BY <1>1, <1>2, Mine DEF Held, AboutProposal
<1>4. /\ req'[c].pc = "idle"
      /\ \A d \in Clients : d # c => req'[d] = req[d]
  BY Leads DEF ClientStep
<1>5. /\ DOMAIN proposals' = DOMAIN proposals
      /\ \A r \in DOMAIN proposals : r # k => proposals'[r] = proposals[r]
      /\ proposals'[k].status # "proposed"
      /\ proposals'[k].status = "approved" => /\ req[c].do = "approve"
                                              /\ proposals'[k].item =
                                                   IF req[c].run # 0 THEN req[c].run ELSE proposals[k].item
  <2>1. PICK x : x = [status |-> CASE req[c].do = "approve" -> "approved"
                                   [] req[c].do = "reject" -> "rejected" [] OTHER -> "deleted",
                      item |-> IF req[c].run # 0 THEN req[c].run ELSE proposals[k].item]
    OBVIOUS
  <2>2. /\ x.status # "proposed" /\ (x.status = "approved" => req[c].do = "approve")
        /\ x.item = IF req[c].run # 0 THEN req[c].run ELSE proposals[k].item
    BY <1>2, <2>1
  <2>3. proposals' = [proposals EXCEPT ![k] = x]
    BY <1>1, <2>1 DEF SetStatus
  <2> QED
    BY <1>3, <2>2, <2>3
<1>6. calm => \A d \in Clients : d # c => At(d, "idle")
  BY <1>2 DEF Solo, At
<1>7. \A r \in DOMAIN proposals' : Proposed(r)'
  BY <1>2, <1>5 DEF MemoryInv, Proposed, Left
<1>8. ASSUME NEW r \in DOMAIN proposals', proposals'[r].status = "approved" PROVE Became(r)'
  <2>1. CASE r = k
    <3>1. req[c].do = "approve"
      BY <1>5, <1>8, <2>1
    <3>2. Noted(req[c])
      BY <1>2, <3>1, Mine DEF Held
    <3>3. req[c].run \in DOMAIN items /\ req[c].run # 0 /\ items[req[c].run].run = k
      BY <1>1, <3>2, Typed DEF Noted
    <3> QED
      BY <1>2, <1>5, <1>8, <2>1, <3>3 DEF Became
  <2>2. CASE r # k
    BY <1>2, <1>5, <1>8, <2>2 DEF MemoryInv, Became
  <2> QED
    BY <2>1, <2>2
<1>9. calm' => \A d \in Clients : ~At(d, "save_item")'
  BY <1>2, <1>4, <1>6 DEF At
<1>10. ASSUME calm', NEW i \in DOMAIN items' PROVE Decided(i)'
  <2>1. CASE items[i].run = k
    BY <1>2, <1>5, <2>1 DEF Decided
  <2>2. CASE items[i].run # k
    <3>1. i \in DOMAIN items /\ items[i].run \in DOMAIN proposals /\ Decided(i)
      BY <1>2, <1>10 DEF MemoryInv
    <3>2. proposals[items[i].run].status # "proposed"
      BY <1>1, <1>2, <1>6, <1>10, <2>2, <3>1 DEF Decided, At
    <3> QED
      BY <1>2, <1>5, <2>2, <3>1, <3>2 DEF Decided
  <2> QED
    BY <2>1, <2>2
<1>11. /\ \A i \in DOMAIN items' : items'[i].run \in DOMAIN proposals'
       /\ calm' => \A i, j \in DOMAIN items' : items'[i].run = items'[j].run => i = j
  BY <1>2, <1>5 DEF MemoryInv
<1> QED
  BY <1>7, <1>8, <1>9, <1>10, <1>11 DEF MemoryInv

LEMMA MemoryProposal ==
  ASSUME TypeInv, BuildInv, WorkInv, MemoryInv, NEW r \in DOMAIN runs, CreateProposal(r)
  PROVE  MemoryInv'
<1>1. Left(r) = 2
  BY DoingAt DEF CreateProposal
<1>2. r \notin DOMAIN proposals
  BY <1>1 DEF MemoryInv, Proposed
<1>3. /\ DOMAIN proposals' = DOMAIN proposals \union {r}
      /\ \A k \in DOMAIN proposals : proposals'[k] = proposals[k]
      /\ proposals'[r].status = "proposed"
  BY <1>2 DEF CreateProposal, Put
<1>4. UNCHANGED << items, req, calm >>
  BY DEF CreateProposal, boundVars
<1>5. Proposed(r)'
  <2>1. /\ runs'[r].started = runs[r].started /\ runs'[r].todo = Tail(runs[r].todo)
    <3>1. PICK x \in Run : Took(r, x)
      BY Chore
    <3> QED
      BY <3>1, RunUpdate DEF Took
  <2>2. Left(r)' = 1
    BY <1>1, <2>1, Chores DEF Left
  <2>3. runs[r].started
    BY <1>1 DEF WorkInv, Works
  <2> QED
    BY <2>1, <2>2, <2>3 DEF Proposed
<1>6. \A k \in DOMAIN proposals' : Proposed(k)'
  BY <1>3, <1>5, ProposedStays DEF Next, WorkerStep
<1>7. ASSUME NEW k \in DOMAIN proposals', proposals'[k].status = "approved" PROVE Became(k)'
  BY <1>3, <1>4, <1>7 DEF MemoryInv, Became
<1>8. \A c \in Clients : At(c, "save_item") => req[c].on \in DOMAIN proposals
  <2>1. ASSUME NEW c \in Clients, At(c, "save_item") PROVE req[c].on \in DOMAIN proposals
    <3>1. req[c].do = "approve"
      BY <2>1, Mine DEF OnPath, At
    <3> QED
      BY <3>1, Mine DEF Held, AboutProposal
  <2> QED
    BY <2>1
<1>9. calm' => \A c \in Clients : At(c, "save_item")' => proposals'[req'[c].on].status = "proposed"
  BY <1>3, <1>4, <1>8 DEF MemoryInv, At
<1>10. ASSUME calm', NEW i \in DOMAIN items' PROVE Decided(i)'
  BY <1>3, <1>4, <1>10 DEF MemoryInv, Decided, At
<1>11. /\ \A i \in DOMAIN items' : items'[i].run \in DOMAIN proposals'
       /\ calm' => \A i, j \in DOMAIN items' : items'[i].run = items'[j].run => i = j
  BY <1>3, <1>4 DEF MemoryInv
<1> QED
  BY <1>6, <1>7, <1>9, <1>10, <1>11 DEF MemoryInv

LEMMA MemoryStep ==
  ASSUME TypeInv, BuildInv, WorkInv, Solo, MemoryInv, [Next]_vars
  PROVE  MemoryInv'
<1>1. ASSUME NEW c \in Clients, ClientStep(c), ~SaveItem(c), ~SetStatus(c), ~SetItemStatus(c)
      PROVE  MemoryInv'
  <2>1. UNCHANGED << proposals, items >>
    BY <1>1 DEF ClientStep, Give, CutOff, CreateThread, AddMessage, RouteChat, Reply,
         CreateSession, CreateTasks, AcquireSandbox, UpdateMessageRun, StartRunWorker,
         LookupFeedback, UpsertFeedback, LookProposal, LookArtifact, Revise, Reload,
         RecordRevision, SetReviewState, OpenFile, FillFile, CreateUpload, memoryVars
  <2>2. \A d \in Clients : d # c => req'[d] = req[d]
    BY <1>1, Leads
  <2>3. calm' => calm /\ ~At(c, "approve")
    <3>1. CASE Give(c)
      BY <3>1, GivenPlace DEF Give, At
    <3>2. CASE ~Give(c)
      <4>1. calm' => calm /\ ~CutOff(c)
        BY <1>1, <3>2, Calms
      <4>2. ~CutOff(c) => ~At(c, "approve")
        BY <1>1, <3>2 DEF ClientStep, CreateThread, AddMessage, RouteChat, Reply,
           CreateSession, CreateTasks, AcquireSandbox, UpdateMessageRun, StartRunWorker,
           LookupFeedback, UpsertFeedback, LookProposal, LookArtifact, Revise, Reload,
           RecordRevision, SetReviewState, OpenFile, FillFile, CreateUpload, At
      <4> QED
        BY <4>1, <4>2
    <3> QED
      BY <3>1, <3>2
  <2>4. At(c, "save_item")' => /\ req'[c].on = req[c].on
                               /\ proposals[req[c].on].status = "proposed"
    <3>1. CASE LookProposal(c)
      BY <3>1, Gone, Ended DEF LookProposal, At
    <3>2. CASE Give(c)
      BY <3>2, GivenPlace DEF At
    <3>3. CASE ~LookProposal(c) /\ ~Give(c)
      BY <1>1, <3>3, Leads DEF ClientStep, At
    <3> QED
      BY <3>1, <3>2, <3>3
  <2>5. calm => \A d \in Clients : At(d, "save_item") => proposals[req[d].on].status = "proposed"
    BY DEF MemoryInv
  <2> QED
    BY <1>1, <2>1, <2>2, <2>3, <2>4, <2>5, MemorySame DEF At
<1>2. ASSUME NEW c \in Clients, SetItemStatus(c) PROVE MemoryInv'
  <2>1. /\ \A d \in Clients : d # c => req'[d] = req[d]
        /\ req[c].pc = "forget" /\ req'[c].pc = "idle"
    BY <1>2, Leads DEF ClientStep, SetItemStatus, At
  <2>2. UNCHANGED << proposals, calm >>
    BY <1>2 DEF SetItemStatus, boundVars
  <2>3. DOMAIN items' = DOMAIN items /\ \A i \in DOMAIN items : items'[i].run = items[i].run
    <3>1. PICK k, x : k = req[c].on /\ x = [items[k] EXCEPT !.status = "deleted"]
      OBVIOUS
    <3>2. k \in DOMAIN items => x.run = items[k].run
      BY <3>1, Typed DEF Item
    <3>3. items' = [items EXCEPT ![k] = x]
      BY <1>2, <3>1 DEF SetItemStatus
    <3> QED
      BY <3>2, <3>3
  <2>4. calm => \A d \in Clients : At(d, "save_item") => proposals[req[d].on].status = "proposed"
    BY DEF MemoryInv
  <2> QED
    BY <2>1, <2>2, <2>3, <2>4, MemorySame DEF At
<1>3. ASSUME NEW r \in DOMAIN runs, WorkerStep(r), ~CreateProposal(r) PROVE MemoryInv'
  <2>1. UNCHANGED << proposals, items, req >> /\ (calm' => calm)
    BY <1>3 DEF WorkerStep, CreateArtifact, CreateRevision, SaveSnapshot, SelectSnapshot,
              CompleteSession, GiveUp, boundVars, memoryVars
  <2>2. calm => \A d \in Clients : At(d, "save_item") => proposals[req[d].on].status = "proposed"
    BY DEF MemoryInv
  <2> QED
    BY <2>1, <2>2, MemorySame DEF At
<1>4. CASE UNCHANGED vars
  <2>1. calm => \A d \in Clients : At(d, "save_item") => proposals[req[d].on].status = "proposed"
    BY DEF MemoryInv
  <2> QED
    BY <1>4, <2>1, MemorySame DEF At, vars
<1> QED
  BY <1>1, <1>2, <1>3, <1>4, MemoryItem, MemoryStatus, MemoryProposal DEF Next

-----------------------------------------------------------------------------
(* History: a revision that is not recorded while it is calm is about to   *)
(* be, by the worker that made the artifact or the request that revised it. *)
Recorded(a, n) == \E v \in revisions : v.artifact = a /\ v.revision = n

RowDue(a, n) == n = 1 /\ Left(artifacts[a].run) \in {7, 3}
                /\ \A b \in Own(artifacts[a].run) : b <= a

Writing(c, a, n) ==
  /\ req[c].on = a
  /\ \/ At(c, "reload") /\ n = artifacts[a].revision
     \/ At(c, "record") /\ n = req[c].run

Told(a, n) == Recorded(a, n) \/ RowDue(a, n) \/ \E c \in Clients : Writing(c, a, n)

Tells(v) == /\ v.artifact \in DOMAIN artifacts
            /\ v.revision \in DOMAIN artifacts[v.artifact].held
            /\ v.preview = artifacts[v.artifact].held[v.revision]

HistoryInv ==
  /\ \A v \in revisions : Tells(v)
  /\ uploads \subseteq DOMAIN disk
  /\ calm => \A a \in DOMAIN artifacts : \A n \in 1 .. artifacts[a].revision : Told(a, n)

LEMMA HistoryInit == ASSUME Init PROVE HistoryInv
BY DEF Init, HistoryInv

(* What an artifact held at a number, it holds. *)
LEMMA HeldStays ==
  ASSUME TypeInv, [Next]_vars, NEW a \in DOMAIN artifacts, NEW n \in DOMAIN artifacts[a].held
  PROVE  /\ a \in DOMAIN artifacts' /\ n \in DOMAIN artifacts'[a].held
         /\ artifacts'[a].held[n] = artifacts[a].held[n]
<1>1. ASSUME NEW c \in Clients, Revise(c)
      PROVE  /\ a \in DOMAIN artifacts' /\ n \in DOMAIN artifacts'[a].held
             /\ artifacts'[a].held[n] = artifacts[a].held[n]
  <2>1. PICK k, x :
          /\ k \in DOMAIN artifacts /\ artifacts' = [artifacts EXCEPT ![k] = x]
          /\ \A m \in DOMAIN artifacts[k].held :
               m \in DOMAIN x.held /\ x.held[m] = artifacts[k].held[m]
    BY <1>1, Revised
  <2> QED
    BY <2>1
<1>2. ASSUME NEW c \in Clients, SetReviewState(c)
      PROVE  a \in DOMAIN artifacts' /\ artifacts'[a].held = artifacts[a].held
  <2>1. PICK k, x : k = req[c].on /\ x = [artifacts[k] EXCEPT !.state = "approved"]
    OBVIOUS
  <2>2. k \in DOMAIN artifacts => x.held = artifacts[k].held
    BY <2>1, Typed DEF Artifact
  <2>3. artifacts' = [artifacts EXCEPT ![k] = x]
    BY <1>2, <2>1 DEF SetReviewState
  <2> QED
    BY <2>2, <2>3
<1>3. ASSUME NEW c \in Clients, ClientStep(c), ~Revise(c), ~SetReviewState(c)
      PROVE  artifacts' = artifacts
  BY <1>3 DEF ClientStep, Give, CutOff, CreateThread, AddMessage, RouteChat, Reply,
     CreateSession, CreateTasks, AcquireSandbox, UpdateMessageRun, StartRunWorker,
     LookupFeedback, UpsertFeedback, LookProposal, SaveItem, SetStatus, SetItemStatus,
     LookArtifact, Reload, RecordRevision, OpenFile, FillFile, CreateUpload, fileVars
<1>4. ASSUME NEW r \in DOMAIN runs, CreateArtifact(r)
      PROVE  a \in DOMAIN artifacts' /\ artifacts'[a] = artifacts[a]
  BY <1>4, ArtifactTyped
<1>5. ASSUME NEW r \in DOMAIN runs, WorkerStep(r), ~CreateArtifact(r) PROVE artifacts' = artifacts
  BY <1>5 DEF WorkerStep, CreateRevision, SaveSnapshot, SelectSnapshot, CreateProposal,
              CompleteSession, GiveUp, fileVars
<1>6. CASE UNCHANGED vars
  BY <1>6 DEF vars
<1> QED
  BY <1>1, <1>2, <1>3, <1>4, <1>5, <1>6 DEF Next

(* A revision recorded by a step tells what the artifact holds. *)
LEMMA TellsStep ==
  ASSUME TypeInv, WorkInv, HistoryInv, [Next]_vars, NEW v \in revisions'
  PROVE  Tells(v)'
<1>1. Tells(v) => Tells(v)'
  BY HeldStays DEF Tells
<1>2. v \in revisions => Tells(v)
  BY DEF HistoryInv
<1>3. ASSUME NEW c \in Clients, RecordRevision(c), v \notin revisions PROVE Tells(v)
  <2>1. v = [artifact |-> req[c].on, revision |-> req[c].run, preview |-> req[c].text]
    BY <1>3 DEF RecordRevision
  <2>2. v.artifact = req[c].on /\ v.revision = req[c].run /\ v.preview = req[c].text
    BY <2>1
  <2>3. Reloaded(req[c])
    BY <1>3, Mine DEF Held, RecordRevision, At
  <2> QED
    BY <2>2, <2>3 DEF Tells, Reloaded
<1>4. ASSUME NEW r \in DOMAIN runs, CreateRevision(r), v \notin revisions PROVE Tells(v)
  <2>1. PICK a \in Own(r) :
          revisions' = revisions \union {[artifact |-> a, revision |-> 1, preview |-> 0]}
    BY <1>4, RowOf
  <2>2. v = [artifact |-> a, revision |-> 1, preview |-> 0]
    BY <1>4, <2>1
  <2>3. v.artifact = a /\ v.revision = 1 /\ v.preview = 0
    BY <2>2
  <2>4. a \in DOMAIN artifacts /\ WellHeld(artifacts[a]) /\ artifacts[a].held \in Seq(Texts)
    BY Typed DEF Own, TypeInv, RowsOK, Artifact
  <2>5. artifacts[a].held[1] = 0 /\ 1 \in DOMAIN artifacts[a].held
    BY <2>4, EntryType DEF WellHeld
  <2> QED
    BY <2>3, <2>4, <2>5 DEF Tells
<1>5. CASE UNCHANGED revisions
  BY <1>1, <1>2, <1>5
<1>6. ASSUME NEW c \in Clients, ClientStep(c), ~RecordRevision(c) PROVE UNCHANGED revisions
  BY <1>6 DEF ClientStep, Give, CutOff, CreateThread, AddMessage, RouteChat, Reply,
     CreateSession, CreateTasks, AcquireSandbox, UpdateMessageRun, StartRunWorker,
     LookupFeedback, UpsertFeedback, LookProposal, SaveItem, SetStatus, SetItemStatus,
     LookArtifact, Revise, Reload, SetReviewState, OpenFile, FillFile, CreateUpload, fileVars
<1>7. ASSUME NEW r \in DOMAIN runs, WorkerStep(r), ~CreateRevision(r) PROVE UNCHANGED revisions
  BY <1>7 DEF WorkerStep, CreateArtifact, SaveSnapshot, SelectSnapshot, CreateProposal,
              CompleteSession, GiveUp, fileVars
<1> QED
  BY <1>1, <1>2, <1>3, <1>4, <1>5, <1>6, <1>7 DEF Next, vars

LEMMA UploadsStep ==
  ASSUME TypeInv, HistoryInv, [Next]_vars
  PROVE  uploads' \subseteq DOMAIN disk'
<1>1. ASSUME NEW c \in Clients, OpenFile(c) PROVE uploads' \subseteq DOMAIN disk'
  BY <1>1 DEF OpenFile, HistoryInv, Put
<1>2. ASSUME NEW c \in Clients, FillFile(c) PROVE uploads' \subseteq DOMAIN disk'
  BY <1>2 DEF FillFile, HistoryInv
<1>3. ASSUME NEW c \in Clients, CreateUpload(c) PROVE uploads' \subseteq DOMAIN disk'
  <2>1. File(c) \in DOMAIN disk
    BY <1>3, Mine DEF Held, HasFile, File, CreateUpload, At
  <2> QED
    BY <1>3, <2>1 DEF CreateUpload, HistoryInv
<1>4. ASSUME NEW c \in Clients, ClientStep(c), ~OpenFile(c), ~FillFile(c), ~CreateUpload(c)
      PROVE  UNCHANGED uploadVars
  BY <1>4 DEF ClientStep, Give, CutOff, CreateThread, AddMessage, RouteChat, Reply,
     CreateSession, CreateTasks, AcquireSandbox, UpdateMessageRun, StartRunWorker,
     LookupFeedback, UpsertFeedback, LookProposal, SaveItem, SetStatus, SetItemStatus,
     LookArtifact, Revise, Reload, RecordRevision, SetReviewState
<1>5. ASSUME NEW r \in DOMAIN runs, WorkerStep(r) PROVE UNCHANGED uploadVars
  BY <1>5 DEF WorkerStep, CreateArtifact, CreateRevision, SaveSnapshot, SelectSnapshot,
              CreateProposal, CompleteSession, GiveUp
<1> QED
  BY <1>1, <1>2, <1>3, <1>4, <1>5 DEF Next, vars, uploadVars, HistoryInv

AllTold == \A a \in DOMAIN artifacts : \A n \in 1 .. artifacts[a].revision : Told(a, n)

(* The run of an artifact is where it was in its work, but for its worker. *)
LEMMA DueStays ==
  ASSUME TypeInv, BuildInv, WorkInv, NEW c \in Clients, ClientStep(c), NEW a \in DOMAIN artifacts,
         NEW n
  PROVE  RowDue(a, n) => RowDue(a, n)'
<1>1. /\ artifacts'[a].run = artifacts[a].run
      /\ \A r : Own(r)' = Own(r)
  BY ArtifactsStay
<1>2. PICK k : k = artifacts[a].run
  OBVIOUS
<1>3. k \in DOMAIN runs /\ a \in Own(k)
  BY <1>2 DEF TypeInv, RowsOK, WellHeld, Own
<1>4. Left(k)' = Left(k)
  <2>1. CASE CreateSession(c)
    BY <1>3, <2>1, SessionAdded DEF Left
  <2>2. CASE CreateTasks(c) \/ AcquireSandbox(c)
    <3>1. ~StartRunWorker(c)
      BY <2>2 DEF CreateTasks, AcquireSandbox, StartRunWorker, At
    <3>2. runs'[k].todo = runs[k].todo
      BY <1>3, <2>2, <3>1, Made
    <3> QED
      BY <3>2 DEF Left
  <2>3. CASE StartRunWorker(c)
    <3>1. ~runs[req[c].run].started
      BY <2>3 DEF StartRunWorker, At, BuildInv, Builder, Builds, Building
    <3>2. runs[k].started
      BY <1>3 DEF WorkInv, Works, Owns
    <3> QED
      BY <1>3, <2>3, <3>1, <3>2, Made DEF Left
  <2>4. CASE UNCHANGED runs
    BY <2>4 DEF Left
  <2>5. CreateSession(c) \/ CreateTasks(c) \/ AcquireSandbox(c) \/ StartRunWorker(c)
        \/ UNCHANGED runs
    BY DEF ClientStep, Give, CutOff, CreateThread, AddMessage, RouteChat, Reply,
         UpdateMessageRun, LookupFeedback, UpsertFeedback, LookProposal, SaveItem, SetStatus,
         SetItemStatus, LookArtifact, Revise, Reload, RecordRevision, SetReviewState, OpenFile,
         FillFile, CreateUpload
  <2> QED
    BY <2>1, <2>2, <2>3, <2>4, <2>5
<1> QED
  BY <1>1, <1>2, <1>4 DEF RowDue

(* A step that makes no artifact and revises none. *)
LEMMA ToldSame ==
  ASSUME TypeInv, HistoryInv, calm, revisions \subseteq revisions',
         DOMAIN artifacts' = DOMAIN artifacts,
         \A a \in DOMAIN artifacts : artifacts'[a].revision = artifacts[a].revision,
         \A a \in DOMAIN artifacts : \A n \in Nat :
           /\ RowDue(a, n) => RowDue(a, n)' \/ Recorded(a, n)'
           /\ \A c \in Clients : Writing(c, a, n) => Writing(c, a, n)' \/ Recorded(a, n)'
  PROVE  AllTold'
<1>1. ASSUME NEW a \in DOMAIN artifacts', NEW n \in 1 .. artifacts'[a].revision
      PROVE  Told(a, n)'
  <2>1. a \in DOMAIN artifacts /\ Told(a, n) /\ n \in Nat
    BY <1>1 DEF HistoryInv
  <2>2. CASE Recorded(a, n)
    BY <2>2 DEF Told, Recorded
  <2>3. CASE RowDue(a, n)
    BY <2>1, <2>3 DEF Told
  <2>4. CASE \E c \in Clients : Writing(c, a, n)
    BY <2>1, <2>4 DEF Told
  <2> QED
    BY <2>1, <2>2, <2>3, <2>4 DEF Told
<1> QED
  BY <1>1 DEF AllTold

LEMMA SameNumber ==
  ASSUME TypeInv, NEW c \in Clients, ClientStep(c), ~Revise(c), NEW a \in DOMAIN artifacts
  PROVE  artifacts'[a].revision = artifacts[a].revision
<1>1. CASE SetReviewState(c)
  <2>1. PICK k, x : k = req[c].on /\ x = [artifacts[k] EXCEPT !.state = "approved"]
    OBVIOUS
  <2>2. k \in DOMAIN artifacts => x.revision = artifacts[k].revision
    BY <2>1, Typed DEF Artifact
  <2>3. artifacts' = [artifacts EXCEPT ![k] = x]
    BY <1>1, <2>1 DEF SetReviewState
  <2> QED
    BY <2>2, <2>3
<1>2. CASE ~SetReviewState(c)
  BY <1>2 DEF ClientStep, Give, CutOff, CreateThread, AddMessage, RouteChat, Reply,
     CreateSession, CreateTasks, AcquireSandbox, UpdateMessageRun, StartRunWorker,
     LookupFeedback, UpsertFeedback, LookProposal, SaveItem, SetStatus, SetItemStatus,
     LookArtifact, Reload, RecordRevision, OpenFile, FillFile, CreateUpload, fileVars
<1> QED
  BY <1>1, <1>2

LEMMA MoreRecorded ==
  ASSUME NEW c \in Clients, ClientStep(c)
  PROVE  revisions \subseteq revisions'
BY DEF ClientStep, Give, CutOff, CreateThread, AddMessage, RouteChat, Reply,
     CreateSession, CreateTasks, AcquireSandbox, UpdateMessageRun, StartRunWorker,
     LookupFeedback, UpsertFeedback, LookProposal, SaveItem, SetStatus, SetItemStatus,
     LookArtifact, Revise, Reload, RecordRevision, SetReviewState, OpenFile, FillFile,
     CreateUpload, fileVars

LEMMA ToldByClient ==
  ASSUME TypeInv, BuildInv, WorkInv, Solo, HistoryInv, NEW c \in Clients, ClientStep(c),
         ~Revise(c), calm'
  PROVE  AllTold'
<1>1. calm /\ \A d \in Clients : d # c => At(d, "idle")
  <2>1. CASE Give(c)
    BY <2>1, GivenPlace
  <2>2. CASE ~Give(c)
    BY <2>2, Calms DEF Solo
  <2> QED
    BY <2>1, <2>2
<1>2. ASSUME NEW a \in DOMAIN artifacts, NEW n \in Nat, NEW d \in Clients, Writing(d, a, n)
      PROVE  Writing(d, a, n)' \/ Recorded(a, n)'
  <2>1. d = c /\ req[c].on = a /\ req[c].pc \in {"reload", "record"}
    BY <1>1, <1>2 DEF Writing, At
  <2>2. Reload(c) \/ RecordRevision(c)
    <3>1. ~CutOff(c) /\ ~Give(c)
      BY <2>1, Calms DEF Give, At
    <3> QED
      BY <2>1, <3>1 DEF ClientStep, CreateThread, AddMessage, RouteChat, Reply,
         CreateSession, CreateTasks, AcquireSandbox, UpdateMessageRun, StartRunWorker,
         LookupFeedback, UpsertFeedback, LookProposal, SaveItem, SetStatus, SetItemStatus,
         LookArtifact, Revise, SetReviewState, OpenFile, FillFile, CreateUpload, At
  <2>3. CASE Reload(c)
    <3>1. n = artifacts[a].revision
      BY <1>2, <2>1, <2>3 DEF Writing, Reload, At
    <3>2. PICK r : r = [req[c] EXCEPT !.pc = "record", !.run = n, !.text = artifacts[a].preview]
      OBVIOUS
    <3>3. r.pc = "record" /\ r.run = n /\ r.on = a
      BY <2>1, <3>2, Mine DEF Req
    <3>4. req'[c] = r
      BY <2>1, <2>3, <3>1, <3>2, Stepped DEF Reload
    <3> QED
      BY <2>1, <3>3, <3>4 DEF Writing, At
  <2>4. CASE RecordRevision(c)
    <3>1. n = req[c].run
      BY <1>2, <2>1, <2>4 DEF Writing, RecordRevision, At
    <3>2. PICK v : v = [artifact |-> req[c].on, revision |-> req[c].run, preview |-> req[c].text]
      OBVIOUS
    <3>3. v \in revisions' /\ v.artifact = a /\ v.revision = n
      BY <2>1, <2>4, <3>1, <3>2 DEF RecordRevision
    <3> QED
      BY <3>3 DEF Recorded
  <2> QED
    BY <2>2, <2>3, <2>4
<1> QED
  BY <1>1, <1>2, ArtifactsStay, DueStays, SameNumber, MoreRecorded, ToldSame

LEMMA ToldByRevise ==
  ASSUME TypeInv, BuildInv, WorkInv, Solo, HistoryInv, NEW c \in Clients, Revise(c), calm'
  PROVE  AllTold'
<1>1. calm /\ (\A d \in Clients : d # c => At(d, "idle")) /\ req[c].pc = "revise"
  BY Calms DEF Solo, Revise, At, ClientStep, Give
<1>2. PICK k, x : /\ k = req[c].on /\ k \in DOMAIN artifacts
                  /\ artifacts' = [artifacts EXCEPT ![k] = x]
                  /\ x.run = artifacts[k].run /\ x.revision = artifacts[k].revision + 1
  BY Revised
<1>3. /\ req'[c].pc = "reload" /\ req'[c].on = k
  BY <1>2, Gone DEF Revise
<1>4. \A d \in Clients : \A a, n : ~Writing(d, a, n)
  BY <1>1 DEF Writing, At
<1>5. ASSUME NEW a \in DOMAIN artifacts', NEW n \in 1 .. artifacts'[a].revision
      PROVE  Told(a, n)'
  <2>1. a \in DOMAIN artifacts /\ artifacts[a].revision \in Nat
    BY <1>2, Typed DEF Artifact
  <2>2. CASE a = k /\ n = artifacts[k].revision + 1
    <3>1. Writing(c, a, n)'
      BY <1>2, <1>3, <2>2 DEF Writing, At
    <3> QED
      BY <3>1 DEF Told
  <2>3. CASE ~(a = k /\ n = artifacts[k].revision + 1)
    <3>1. n \in 1 .. artifacts[a].revision
      BY <1>2, <1>5, <2>1, <2>3
    <3>2. Recorded(a, n) \/ RowDue(a, n)
      BY <1>1, <1>4, <2>1, <3>1 DEF HistoryInv, Told
    <3>3. Recorded(a, n) => Recorded(a, n)'
      BY DEF Revise, Recorded
    <3>4. RowDue(a, n) => RowDue(a, n)'
      BY <2>1, DueStays DEF ClientStep
    <3> QED
      BY <3>2, <3>3, <3>4 DEF Told
  <2> QED
    BY <2>2, <2>3
<1> QED
  BY <1>5 DEF AllTold

LEMMA ToldByWorker ==
  ASSUME TypeInv, WorkInv, HistoryInv, NEW r \in DOMAIN runs, WorkerStep(r), calm'
  PROVE  AllTold'
<1>1. ~GiveUp(r) /\ calm /\ req' = req
  BY DEF WorkerStep, CreateArtifact, CreateRevision, SaveSnapshot, SelectSnapshot,
         CreateProposal, CompleteSession, GiveUp, boundVars
<1>2. /\ \A k \in DOMAIN runs : k # r => Left(k)' = Left(k)
      /\ Left(r)' = Left(r) - 1 /\ Left(r) \in Nat
  <2>1. /\ \A k \in DOMAIN runs : k # r => runs'[k] = runs[k]
        /\ Left(r) # 0 /\ runs'[r].todo = Tail(runs[r].todo)
    BY <1>1, WorkedOn
  <2> QED
    BY <2>1, Chores DEF Left
<1>3. \A a \in DOMAIN artifacts : artifacts[a].run \in DOMAIN runs
  BY DEF TypeInv, RowsOK, WellHeld
<1>4. CASE CreateArtifact(r)
  <2>1. PICK m \in Nat : m = Len(artifacts) + 1
    BY Typed
  <2>2. /\ DOMAIN artifacts' = DOMAIN artifacts \union {m} /\ artifacts'[m].run = r
        /\ artifacts'[m].revision = 1
        /\ \A a \in DOMAIN artifacts : artifacts'[a] = artifacts[a]
    BY <1>4, <2>1, ArtifactTyped
  <2>3. m \notin DOMAIN artifacts /\ \A a \in DOMAIN artifacts : a \in Nat /\ a < m
    BY <2>1, Typed
  <2>4. Left(r) \in {8, 4} /\ Left(r)' \in {7, 3}
    BY <1>2, <1>4, DoingAt DEF CreateArtifact
  <2>5. revisions' = revisions
    BY <1>4 DEF CreateArtifact
  <2>6. \A k : k # r => Own(k)' = Own(k)
    BY <2>2, <2>3 DEF Own
  <2>7. ASSUME NEW a \in DOMAIN artifacts', NEW n \in 1 .. artifacts'[a].revision
        PROVE  Told(a, n)'
    <3>1. CASE a = m
      <4>1. n = 1
        BY <2>2, <2>7, <3>1
      <4>2. \A b \in DOMAIN artifacts' : b <= m
        BY <2>1, <2>2, <2>3
      <4>3. RowDue(a, n)'
        BY <2>2, <2>4, <3>1, <4>1, <4>2 DEF RowDue, Own
      <4> QED
        BY <4>3 DEF Told
    <3>2. CASE a # m
      <4>1. a \in DOMAIN artifacts /\ artifacts'[a] = artifacts[a] /\ Told(a, n)
        BY <1>1, <2>2, <2>7, <3>2 DEF HistoryInv
      <4>2. Recorded(a, n) => Recorded(a, n)'
        BY <2>5 DEF Recorded
      <4>3. \A c \in Clients : Writing(c, a, n) => Writing(c, a, n)'
        BY <1>1, <4>1 DEF Writing, At
      <4>4. RowDue(a, n) => RowDue(a, n)'
        BY <1>2, <1>3, <2>4, <2>6, <4>1 DEF RowDue
      <4> QED
        BY <4>1, <4>2, <4>3, <4>4 DEF Told
    <3> QED
      BY <3>1, <3>2
  <2> QED
    BY <2>7 DEF AllTold
<1>5. CASE ~CreateArtifact(r)
  <2>1. artifacts' = artifacts /\ revisions \subseteq revisions'
    BY <1>1, <1>5 DEF WorkerStep, CreateRevision, SaveSnapshot, SelectSnapshot, CreateProposal,
                      CompleteSession, fileVars
  <2>2. \A c \in Clients : \A a, n : Writing(c, a, n) => Writing(c, a, n)'
    BY <1>1, <2>1 DEF Writing, At
  <2>3. ASSUME NEW a \in DOMAIN artifacts, NEW n \in Nat, RowDue(a, n)
        PROVE  RowDue(a, n)' \/ Recorded(a, n)'
    <3>1. CASE artifacts[a].run # r
      BY <1>2, <1>3, <2>1, <2>3, <3>1 DEF RowDue, Own
    <3>2. CASE artifacts[a].run = r
      <4>1. Left(r) \in {7, 3} /\ n = 1 /\ a \in Own(r) /\ \A b \in Own(r) : b <= a
        BY <2>3, <3>2 DEF RowDue, Own
      <4>2. CreateRevision(r)
        BY <1>1, <1>5, <4>1, DoingAt DEF WorkerStep, SaveSnapshot, SelectSnapshot,
                                         CreateProposal, CompleteSession
      <4>3. PICK b \in Own(r) :
              /\ \A d \in Own(r) : d <= b
              /\ revisions' = revisions \union {[artifact |-> b, revision |-> 1, preview |-> 0]}
        BY <4>2, RowOf
      <4>4. a = b
        BY <4>1, <4>3, Typed DEF Own
      <4>5. PICK v : v = [artifact |-> b, revision |-> 1, preview |-> 0]
        OBVIOUS
      <4>6. v \in revisions' /\ v.artifact = a /\ v.revision = n
        BY <4>1, <4>3, <4>4, <4>5
      <4> QED
        BY <4>6 DEF Recorded
    <3> QED
      BY <3>1, <3>2
  <2> QED
    BY <1>1, <2>1, <2>2, <2>3, ToldSame
<1> QED
  BY <1>4, <1>5

LEMMA HistoryStep ==
  ASSUME TypeInv, BuildInv, WorkInv, Solo, HistoryInv, [Next]_vars
  PROVE  HistoryInv'
<1>1. \A v \in revisions' : Tells(v)'
  BY TellsStep
<1>2. uploads' \subseteq DOMAIN disk'
  BY UploadsStep
<1>3. ASSUME calm' PROVE AllTold'
  <2>1. CASE UNCHANGED vars
    BY <1>3, <2>1 DEF vars, HistoryInv, AllTold, Told, Recorded, RowDue, Writing, Own, Left, At
  <2>2. ASSUME NEW c \in Clients, ClientStep(c) PROVE AllTold'
    BY <1>3, <2>2, ToldByClient, ToldByRevise
  <2>3. ASSUME NEW r \in DOMAIN runs, WorkerStep(r) PROVE AllTold'
    BY <1>3, <2>3, ToldByWorker
  <2> QED
    BY <2>1, <2>2, <2>3 DEF Next
<1> QED
  BY <1>1, <1>2, <1>3 DEF HistoryInv, AllTold

-----------------------------------------------------------------------------
(* All of it together is inductive.                                        *)
RecordsInv == TypeInv /\ CountInv /\ BuildInv /\ WorkInv /\ Solo /\ MemoryInv /\ HistoryInv

LEMMA TypeInit == ASSUME Init PROVE TypeInv
<1>1. RowsOK
  <2>1. /\ << >> \in Seq(Message) /\ << >> \in Seq(Run) /\ << >> \in Seq(Item)
        /\ << >> \in Seq(Artifact)
    OBVIOUS
  <2>2. /\ DOMAIN feedback = {} /\ DOMAIN proposals = {} /\ DOMAIN artifacts = {}
        /\ DOMAIN disk = {}
    BY DEF Init
  <2> QED
    BY <2>1, <2>2 DEF Init, RowsOK
<1>2. RequestsOK
  <2>1. \A c \in Clients : req[c] = Idle
    BY DEF Init
  <2>2. \A c \in Clients : OnPath(req[c]) /\ Held(req[c])
    BY <2>1, IdleReq
  <2>3. req \in [Clients -> Req]
    BY IdleReq DEF Init
  <2> QED
    BY <2>2, <2>3 DEF RequestsOK
<1>3. chats \in Nat /\ given \in 0 .. MaxRequests /\ calm \in BOOLEAN
  BY MaxAssumption DEF Init
<1> QED
  BY <1>1, <1>2, <1>3 DEF TypeInv

LEMMA RecordsInvHolds == Spec => []RecordsInv
<1>1. Init => RecordsInv
  BY TypeInit, CountInit, BuildInit, WorkInit, SoloInit, MemoryInit, HistoryInit DEF RecordsInv
<1>2. RecordsInv /\ [Next]_vars => RecordsInv'
  <2> SUFFICES ASSUME RecordsInv, [Next]_vars PROVE RecordsInv'
    OBVIOUS
  <2>1. /\ TypeInv /\ CountInv /\ BuildInv /\ WorkInv /\ Solo /\ MemoryInv /\ HistoryInv
    BY DEF RecordsInv
  <2>2. TypeInv'
    BY <2>1, FewRuns, TypeStep
  <2>3. CountInv' /\ BuildInv' /\ WorkInv'
    BY <2>1, <2>2, CountStep, BuildStep, WorkStep
  <2>4. Solo' /\ MemoryInv' /\ HistoryInv'
    BY <2>1, SoloStep, MemoryStep, HistoryStep
  <2> QED
    BY <2>2, <2>3, <2>4 DEF RecordsInv
<1> QED
  BY <1>1, <1>2, PTL DEF Spec

(* The tables hold what the stores may put there: no more chats than       *)
(* requests, feedback on a message or on the chat, a proposal of a run,    *)
(* and an artifact whose revision number counts the texts it has held,     *)
(* whichever handlers and workers overlap or are cut off.                  *)
THEOREM TypeCorrect == Spec => []TypeOK
<1>1. RecordsInv => TypeOK
  <2> SUFFICES ASSUME RecordsInv PROVE TypeOK
    OBVIOUS
  <2>1. TypeInv /\ CountInv
    BY DEF RecordsInv
  <2>2. chats \in 0 .. MaxRequests
    BY <2>1, FewRuns, MaxAssumption DEF TypeInv
  <2>3. \A a \in DOMAIN artifacts :
          /\ artifacts[a].revision = Len(artifacts[a].held)
          /\ artifacts[a].preview = artifacts[a].held[artifacts[a].revision]
    BY <2>1 DEF TypeInv, RowsOK, WellHeld
  <2> QED
    BY <2>1, <2>2, <2>3 DEF TypeInv, RowsOK, TypeOK
<1> QED
  BY <1>1, RecordsInvHolds, PTL

(* createRunLedger and StartChatRun: a worker runs and a message names a   *)
(* run only when session, tasks and sandbox are there, no two messages     *)
(* name the same run; and with requests one by one and no failure no run   *)
(* is left without its worker.                                             *)
THEOREM WorkedHolds == Spec => []Worked
<1>1. RecordsInv => Worked
  <2> SUFFICES ASSUME RecordsInv PROVE Worked
    OBVIOUS
  <2>1. BuildInv
    BY DEF RecordsInv
  <2>2. ASSUME Quiet, NEW r \in DOMAIN runs PROVE runs[r].started
    <3>1. Attended(r) /\ \A c \in Clients : ~Builds(c)
      BY <2>1, <2>2 DEF BuildInv, Quiet, At, Builds, Building
    <3> QED
      BY <3>1 DEF Attended
  <2> QED
    BY <2>1, <2>2 DEF BuildInv, Linked, Worked
<1> QED
  BY <1>1, RecordsInvHolds, PTL

(* memory.Service.Approve: every context item came from a proposal, an     *)
(* approved proposal names its item, and only approvals that overlap or    *)
(* are cut off make two items of one proposal.                             *)
THEOREM RememberedHolds == Spec => []Remembered
<1>1. RecordsInv => Remembered
  BY DEF RecordsInv, MemoryInv, Became, Remembered
<1> QED
  BY <1>1, RecordsInvHolds, PTL

(* artifacts.Service.Revise and Create, uploads: a recorded revision says  *)
(* what the artifact held at that number however revisions overlap, an     *)
(* upload's row comes after its file, and with requests one by one and no  *)
(* failure no revision goes unrecorded.                                    *)
THEOREM HistoryHolds == Spec => []History
<1>1. RecordsInv => History
  <2> SUFFICES ASSUME RecordsInv PROVE History
    OBVIOUS
  <2>1. TypeInv /\ WorkInv /\ HistoryInv
    BY DEF RecordsInv
  <2>2. ASSUME Quiet, \A r \in DOMAIN runs : ~Doing(r, "plan_row") /\ ~Doing(r, "report_row"),
               NEW a \in DOMAIN artifacts, NEW n \in 1 .. artifacts[a].revision
        PROVE  Recorded(a, n)
    <3>1. Told(a, n)
      BY <2>1, <2>2 DEF HistoryInv, Quiet
    <3>2. artifacts[a].run \in DOMAIN runs
      BY <2>1 DEF TypeInv, RowsOK, WellHeld
    <3>3. ~RowDue(a, n)
      BY <2>1, <2>2, <3>2, DoingAt DEF RowDue
    <3>4. \A c \in Clients : ~Writing(c, a, n)
      BY <2>2 DEF Quiet, Writing, At
    <3> QED
      BY <3>1, <3>3, <3>4 DEF Told
  <2> QED
    BY <2>1, <2>2 DEF HistoryInv, Tells, Recorded, History
<1> QED
  BY <1>1, RecordsInvHolds, PTL
=============================================================================
