------------------------- MODULE GatewayProcessProofs -------------------------
(***************************************************************************)
(* Theorems about GatewayProcess, for any commands, runtimes and bounds.   *)
(***************************************************************************)
EXTENDS GatewayProcess, SequenceTheorems, TLAPS

States == {"boot", "generate", "write", "open", "listen", "up", "closing", "dead"}

(* What may become of a process without leaving its type.                  *)
LEMMA ProcessChanged ==
  ASSUME NEW s \in Seq(Process), NEW p \in DOMAIN s
  PROVE  /\ p \in Nat
         /\ \A e \in Process : [s EXCEPT ![p] = e] \in Seq(Process)
         /\ \A x \in States : [s EXCEPT ![p].state = x] \in Seq(Process)
         /\ \A x \in States, t \in Secret :
              [s EXCEPT ![p].state = x, ![p].token = t] \in Seq(Process)
         /\ [s EXCEPT ![p].term = TRUE] \in Seq(Process)
<1>1. p \in 1 .. Len(s) /\ p \in Nat /\ s[p] \in Process
  OBVIOUS
<1>2. ASSUME NEW e \in Process
      PROVE  [s EXCEPT ![p] = e] \in Seq(Process)
  BY <1>1, <1>2, ExceptSeq
<1>3. ASSUME NEW x \in States
      PROVE  [s EXCEPT ![p].state = x] \in Seq(Process)
  <2>1. [s[p] EXCEPT !.state = x] \in Process
    BY <1>1 DEF Process, States
  <2> QED
    BY <1>2, <2>1
<1>4. ASSUME NEW x \in States, NEW t \in Secret
      PROVE  [s EXCEPT ![p].state = x, ![p].token = t] \in Seq(Process)
  <2>1. [[s[p] EXCEPT !.state = x] EXCEPT !.token = t] \in Process
    BY <1>1 DEF Process, States
  <2>2. [s EXCEPT ![p].state = x, ![p].token = t]
          = [s EXCEPT ![p] = [[s[p] EXCEPT !.state = x] EXCEPT !.token = t]]
    BY <1>1
  <2> QED
    BY <1>2, <2>1, <2>2
<1>5. [s EXCEPT ![p].term = TRUE] \in Seq(Process)
  <2>1. [s[p] EXCEPT !.term = TRUE] \in Process
    BY <1>1 DEF Process
  <2> QED
    BY <1>2, <2>1
<1> QED
  BY <1>1, <1>2, <1>3, <1>4, <1>5

(* A step of a process changes processes, port and token only.             *)
LEMMA ProcessType ==
  ASSUME TypeOK, NEW p \in DOMAIN proc, ProcessStep(p)
  PROVE  TypeOK'
<1> USE DEF restOfProc, pageVars
<1>1. proc \in Seq(Process) /\ p \in Nat /\ port \in Nat /\ token \in Secret
  BY ProcessChanged DEF TypeOK
<1>2. SUFFICES proc' \in Seq(Process) /\ port' \in Nat /\ token' \in Secret
  BY DEF TypeOK, ProcessStep, LoadToken, CreateToken, OpenStore, Listen, Shutdown, Crash,
         Reuse
<1>a. p \in DOMAIN proc /\ proc \in Seq(Process)
  BY DEF TypeOK
<1>b. ASSUME NEW x \in States, Become(p, x)
      PROVE  proc' \in Seq(Process)
  BY <1>a, <1>b, ProcessChanged DEF Become
<1>c. ASSUME Exit(p)
      PROVE  proc' \in Seq(Process) /\ port' \in Nat
  BY <1>1, <1>b, <1>c DEF Exit, States
<1>d. ASSUME NEW t \in Secret, proc' = [proc EXCEPT ![p].state = "open", ![p].token = t]
      PROVE  proc' \in Seq(Process)
  BY <1>a, <1>d, ProcessChanged DEF States
<1>3. CASE LoadToken(p)
  <2>1. CASE Become(p, "generate") \/ Become(p, "dead")
    BY <1>1, <1>3, <1>b, <2>1 DEF LoadToken, States
  <2>2. TokenEnv \in Secret
    BY DEF Secret
  <2>3. CASE Load(p, TokenEnv) \/ Load(p, token)
    BY <1>1, <1>3, <1>d, <2>2, <2>3 DEF LoadToken, Load
  <2> QED
    BY <1>3, <2>1, <2>3 DEF LoadToken
<1>4. CASE CreateToken(p)
  <2>1. [by |-> "gateway", n |-> p] \in Secret /\ Blank \in Secret
    BY <1>1 DEF Secret
  <2>2. CASE token' = Blank /\ Become(p, "write")
    BY <1>1, <1>4, <1>b, <2>1, <2>2 DEF CreateToken, States
  <2>3. CASE /\ token' = [by |-> "gateway", n |-> p]
             /\ proc' = [proc EXCEPT ![p].state = "open", ![p].token = token']
    BY <1>1, <1>4, <1>d, <2>1, <2>3 DEF CreateToken
  <2> QED
    BY <1>4, <2>2, <2>3 DEF CreateToken
<1>5. CASE OpenStore(p)
  BY <1>1, <1>5, <1>b DEF OpenStore, States
<1>6. CASE Listen(p)
  <2>1. CASE port = 0 /\ port' = p /\ Become(p, "up")
    BY <1>1, <1>6, <1>b, <2>1 DEF Listen, States
  <2> QED
    BY <1>1, <1>6, <1>c, <2>1 DEF Listen
<1>7. CASE Shutdown(p)
  <2>1. CASE Become(p, "closing") /\ port' = IF port = p THEN 0 ELSE port
    BY <1>1, <1>7, <1>b, <2>1 DEF Shutdown, States
  <2> QED
    BY <1>1, <1>7, <1>c, <2>1 DEF Shutdown
<1>8. CASE Crash(p)
  BY <1>1, <1>8, <1>c DEF Crash
<1>9. CASE Reuse(p)
  <2>1. [id |-> "other", token |-> NoSecret, term |-> FALSE, state |-> "up"] \in Process
    BY DEF Process, Secret
  <2>2. [proc EXCEPT ![p] = [id |-> "other", token |-> NoSecret, term |-> FALSE,
                             state |-> "up"]] \in Seq(Process)
    BY <1>a, <2>1, ProcessChanged
  <2> QED
    BY <1>1, <1>9, <2>2 DEF Reuse
<1> QED
  BY <1>3, <1>4, <1>5, <1>6, <1>7, <1>8, <1>9 DEF ProcessStep

Steps == {"idle", "next", "spawn", "truncate", "write", "health", "look", "signal",
          "await", "token", "rotate", "code", "link"}
Thens == {"idle", "next", "look", "health", "signal"}

(* What a command may become without leaving its type.                     *)
LEMMA CommandChanged ==
  ASSUME cmd \in [Commands -> Command], NEW c \in Commands
  PROVE  /\ \A k \in Command : Step(c, k) => cmd' \in [Commands -> Command]
         /\ End(c) => cmd' \in [Commands -> Command]
         /\ \A q \in Steps : Goto(c, q) => cmd' \in [Commands -> Command]
         /\ \A r \in Record, q \in Thens : Save(c, r, q) => cmd' \in [Commands -> Command]
<1>1. cmd[c] \in Command
  OBVIOUS
<1>2. ASSUME NEW k \in Command, Step(c, k)
      PROVE  cmd' \in [Commands -> Command]
  BY <1>2 DEF Step
<1>3. Idle \in Command
  BY DEF Idle, Command, Ids, Record
<1>4. \A q \in Steps : [cmd[c] EXCEPT !.pc = q] \in Command
  BY <1>1 DEF Command, Steps
<1>5. \A r \in Record, q \in Thens :
        [cmd[c] EXCEPT !.pc = "truncate", !.save = r, !.then = q] \in Command
  BY <1>1 DEF Command, Thens
<1> QED
  BY <1>2, <1>3, <1>4, <1>5 DEF End, Goto, Save

LEMMA GiveType ==
  ASSUME TypeOK, NEW c \in Commands, Give(c)
  PROVE  TypeOK'
<1>1. given' \in Nat /\ calm' \in BOOLEAN /\ cmd \in [Commands -> Command]
  BY DEF TypeOK, Give
<1>0. SUFFICES cmd' \in [Commands -> Command]
  BY <1>1 DEF TypeOK, Give, procVars, pageVars
<1>2. \A q \in Steps, ids \in SUBSET (Ids \union {"console"}) :
        [Idle EXCEPT !.pc = q, !.n = given', !.todo = ids] \in Command
  BY <1>1 DEF Idle, Command, Steps, Ids, Record
<1>3. CASE GiveStart(c)
  <2>1. PICK ids \in SUBSET (Ids \union {"console"}) : Begin(c, "next", ids)
    BY <1>3 DEF GiveStart, Ids
  <2>2. [Idle EXCEPT !.pc = "next", !.n = given', !.todo = ids] \in Command
    BY <1>2 DEF Steps
  <2> QED
    BY <1>1, <2>1, <2>2 DEF Begin, Step
<1>4. CASE GiveStop(c)
  <2>1. [Idle EXCEPT !.pc = "look", !.n = given', !.todo = {"gateway"}] \in Command
    BY <1>2 DEF Steps, Ids
  <2> QED
    BY <1>1, <1>4, <2>1 DEF GiveStop, Begin, Step
<1>5. CASE GiveDown(c)
  <2>1. [Idle EXCEPT !.pc = "look", !.n = given', !.todo = {i \in Ids : record[i] # NoRecord}]
          \in Command
    BY <1>2 DEF Steps
  <2> QED
    BY <1>1, <1>5, <2>1 DEF GiveDown, Begin, Step
<1>6. CASE GiveSecret(c)
  <2>1. PICK q \in {"token", "code"} : Begin(c, q, {})
    BY <1>6 DEF GiveSecret
  <2>2. [Idle EXCEPT !.pc = q, !.n = given', !.todo = {}] \in Command
    BY <1>2 DEF Steps
  <2> QED
    BY <1>1, <2>1, <2>2 DEF Begin, Step
<1> QED
  BY <1>3, <1>4, <1>5, <1>6 DEF Give

(* A start that makes a process.                                           *)
LEMMA NewProcessType ==
  ASSUME TypeOK, NEW c \in Commands, NEW i \in Ids, NEW x \in States, NewProcess(c, i, x)
  PROVE  proc' \in Seq(Process) /\ cmd' \in [Commands -> Command]
<1>1. [id |-> i, token |-> NoSecret, term |-> FALSE, state |-> x] \in Process
  BY DEF Process, Secret, States
<1>2. proc' \in Seq(Process)
  BY <1>1 DEF TypeOK, NewProcess
<1>3. Len(proc) + 1 \in Nat
  BY DEF TypeOK
<1>4. [status |-> "running", pid |-> Len(proc) + 1] \in Record
  BY <1>3 DEF Record
<1>5. cmd[c] \in Command /\ cmd \in [Commands -> Command]
  BY DEF TypeOK
<1>6. [cmd[c] EXCEPT !.pc = "truncate", !.pid = Len(proc) + 1,
                     !.save = [status |-> "running", pid |-> Len(proc) + 1],
                     !.then = IF i = "gateway" THEN "health" ELSE "next"] \in Command
  BY <1>3, <1>4, <1>5 DEF Command
<1>7. cmd' \in [Commands -> Command]
  BY <1>5, <1>6, CommandChanged DEF NewProcess
<1> QED
  BY <1>2, <1>7

(* A command that stops processes has processes only on its list: "console" *)
(* is something dev opens.                                                  *)
Stopping(c) ==
  \/ cmd[c].pc \in {"look", "signal", "await"}
  \/ cmd[c].pc \in {"truncate", "write"} /\ cmd[c].then \in {"look", "signal"}
Lists == \A c \in Commands : Stopping(c) => cmd[c].todo \subseteq Ids

LEMMA CommandType ==
  ASSUME TypeOK, Lists, NEW c \in Commands, CommandStep(c)
  PROVE  TypeOK'
<1>1. cmd[c] \in Command /\ cmd \in [Commands -> Command] /\ record \in [Ids -> Record]
  BY DEF TypeOK
<1>2. CASE StartNext(c)
  <2>1. ASSUME NEW i \in cmd[c].todo \ {"console"}
        PROVE  [cmd[c] EXCEPT !.todo = @ \ {i}, !.id = i,
                  !.pc = IF ProcessAlive(record[i].pid) THEN "next" ELSE "spawn"] \in Command
    BY <1>1 DEF Command
  <2>2. cmd' \in [Commands -> Command]
    <3>1. CASE End(c) \/ Goto(c, "code")
      BY <1>1, <3>1, CommandChanged DEF Steps
    <3>2. CASE ~(End(c) \/ Goto(c, "code"))
      BY <1>1, <1>2, <2>1, <3>2, CommandChanged DEF StartNext
    <3> QED
      BY <3>1, <3>2
  <2> QED
    BY <1>2, <2>2 DEF StartNext, TypeOK, procVars, restOfCmd, pageVars
<1>3. CASE StartGateway(c)
  <2>1. proc' \in Seq(Process) /\ cmd' \in [Commands -> Command]
    <3>1. CASE NewProcess(c, "gateway", "boot")
      BY <3>1, NewProcessType DEF States, Ids
    <3>2. CASE End(c) /\ UNCHANGED proc
      BY <1>1, <3>2, CommandChanged DEF TypeOK
    <3> QED
      BY <1>3, <3>1, <3>2 DEF StartGateway
  <2> QED
    BY <1>3, <2>1 DEF StartGateway, TypeOK, restOfCmd, pageVars
<1>4. CASE StartLocalProcess(c)
  <2>1. [status |-> "start_failed", pid |-> 0] \in Record /\ cmd[c].id \in Ids
    BY <1>1 DEF Record, Command
  <2>2. proc' \in Seq(Process) /\ cmd' \in [Commands -> Command]
    <3>1. CASE NewProcess(c, cmd[c].id, "up")
      BY <2>1, <3>1, NewProcessType DEF States
    <3>2. CASE (Save(c, [status |-> "start_failed", pid |-> 0], "idle") \/ End(c))
               /\ UNCHANGED proc
      BY <1>1, <2>1, <3>2, CommandChanged DEF TypeOK, Thens
    <3> QED
      BY <1>4, <3>1, <3>2 DEF StartLocalProcess
  <2> QED
    BY <1>4, <2>2 DEF StartLocalProcess, TypeOK, restOfCmd, pageVars
<1>5. CASE SaveState(c)
  <2>1. cmd[c].save \in Record /\ cmd[c].then \in Steps /\ Torn \in Record
    BY <1>1 DEF Command, Steps, Record
  <2>2. record' \in [Ids -> Record]
    BY <1>1, <1>5, <2>1 DEF SaveState
  <2>3. cmd' \in [Commands -> Command]
    BY <1>1, <1>5, <2>1, CommandChanged DEF SaveState, Steps
  <2> QED
    BY <1>5, <2>2, <2>3 DEF SaveState, TypeOK, procVars, restOfCmd, pageVars
<1>6. CASE Health(c)
  <2>1. [status |-> "start_failed", pid |-> cmd[c].pid] \in Record
    BY <1>1 DEF Record, Command
  <2>2. cmd' \in [Commands -> Command]
    BY <1>1, <1>6, <2>1, CommandChanged DEF Health, Steps, Thens
  <2> QED
    BY <1>6, <2>2 DEF Health, TypeOK, procVars, restOfCmd, pageVars
<1>7. CASE Stop(c)
  <2>1. ASSUME NEW i \in cmd[c].todo, NEW x \in Record, NEW t \in {"signal", "look"}
        PROVE  [[cmd[c] EXCEPT !.todo = @ \ {i}, !.id = i, !.pid = record[i].pid,
                               !.pc = "truncate"]
                  EXCEPT !.save = x, !.then = t] \in Command
    <3>1. i \in Ids
      BY <1>7 DEF Lists, Stopping, Stop
    <3>2. record[i].pid \in Nat
      BY <1>1, <3>1 DEF Record, Torn, NoRecord
    <3>3. [cmd[c] EXCEPT !.todo = @ \ {i}, !.id = i, !.pid = record[i].pid,
                         !.pc = "truncate"] \in Command
      BY <1>1, <3>1, <3>2 DEF Command
    <3> QED
      BY <3>3 DEF Command
  <2>2. cmd' \in [Commands -> Command]
    <3>1. CASE End(c)
      BY <1>1, <3>1, CommandChanged
    <3>2. ASSUME NEW i \in cmd[c].todo, record[i] \notin {Torn, NoRecord}
          PROVE  [record[i] EXCEPT !.status = "stop_requested"] \in Record
      <4>1. i \in Ids
        BY <1>7 DEF Lists, Stopping, Stop
      <4> QED
        BY <1>1, <3>2, <4>1 DEF Record
    <3>3. [status |-> "stopped", pid |-> 0] \in Record
      BY DEF Record
    <3> QED
      BY <1>1, <1>7, <2>1, <3>1, <3>2, <3>3, CommandChanged DEF Stop
  <2> QED
    BY <1>7, <2>2 DEF Stop, TypeOK, procVars, restOfCmd, pageVars
<1>8. CASE Signal(c)
  <2>1. cmd' \in [Commands -> Command]
    BY <1>1, <1>8, CommandChanged DEF Signal, Steps
  <2>2. proc' \in Seq(Process)
    BY <1>8, ProcessChanged DEF Signal, ProcessAlive, TypeOK
  <2> QED
    BY <1>8, <2>1, <2>2 DEF Signal, TypeOK, restOfCmd, pageVars
<1>9. CASE Await(c)
  <2>1. [status |-> "stopped", pid |-> 0] \in Record
    BY DEF Record
  <2>2. cmd' \in [Commands -> Command]
    BY <1>1, <1>9, <2>1, CommandChanged DEF Await, Stopped, Thens
  <2>3. proc' \in Seq(Process) /\ port' \in Nat
    <3>1. CASE ProcessAlive(cmd[c].pid)
      <4>1. cmd[c].pid \in DOMAIN proc /\ proc \in Seq(Process)
        BY <3>1 DEF ProcessAlive, TypeOK
      <4>2. [proc EXCEPT ![cmd[c].pid].state = "dead"] \in Seq(Process)
        BY <4>1, ProcessChanged DEF States
      <4>3. /\ proc' = [proc EXCEPT ![cmd[c].pid].state = "dead"]
            /\ port' = IF port = cmd[c].pid THEN 0 ELSE port
        BY <1>9, <3>1 DEF Await, Exit, Become
      <4> QED
        BY <4>2, <4>3 DEF TypeOK
    <3>2. CASE ~ ProcessAlive(cmd[c].pid)
      BY <1>9, <3>2 DEF Await, TypeOK
    <3> QED
      BY <3>1, <3>2
  <2> QED
    BY <1>9, <2>2, <2>3 DEF Await, TypeOK, restOfCmd, pageVars
<1>10. CASE Rotate(c)
  <2>1. [by |-> "command", n |-> cmd[c].n] \in Secret /\ Blank \in Secret
    BY <1>1 DEF Secret, Command
  <2>2. cmd' \in [Commands -> Command]
    BY <1>1, <1>10, CommandChanged DEF Rotate, Steps
  <2> QED
    BY <1>10, <2>1, <2>2 DEF Rotate, TypeOK, pageVars
<1>11. CASE CreateBootstrap(c)
  <2>1. [by |-> "command", n |-> cmd[c].n] \in Secret /\ Blank \in Secret
    BY <1>1 DEF Secret, Command
  <2>2. cmd' \in [Commands -> Command]
    BY <1>1, <1>11, CommandChanged DEF CreateBootstrap, Steps
  <2> QED
    BY <1>11, <2>1, <2>2 DEF CreateBootstrap, TypeOK, procVars, pageVars
<1> QED
  BY <1>2, <1>3, <1>4, <1>5, <1>6, <1>7, <1>8, <1>9, <1>10, <1>11 DEF CommandStep

LEMMA CutOffType ==
  ASSUME TypeOK, NEW c \in Commands, CutOff(c)
  PROVE  TypeOK'
<1>1. cmd' \in [Commands -> Command]
  BY CommandChanged DEF CutOff, TypeOK
<1> QED
  BY <1>1 DEF CutOff, TypeOK, procVars, restOfCmd, pageVars

(* Who listens is a process.                                               *)
Listening == port = 0 \/ port \in DOMAIN proc

(* A step of the handler of codes, whatever the request.                  *)
PageStep == ReadCode \/ \E r \in redeeming : Expire(r) \/ RemoveCode(r)

LEMMA PageRest ==
  ASSUME PageStep
  PROVE  UNCHANGED << procVars, record, cmd, given, calm >>
BY DEF PageStep, ReadCode, Expire, RemoveCode, restOfPages

LEMMA PageType ==
  ASSUME TypeOK, PageStep
  PROVE  TypeOK'
<1>1. NoSecret \in Secret /\ code \in Secret /\ port \in Nat
  BY DEF Secret, TypeOK
<1>2. /\ code' \in Secret
      /\ redeeming' \subseteq Request
      /\ entered' \subseteq Secret
  <2>1. CASE ReadCode
    BY <1>1, <2>1 DEF ReadCode, Request, TypeOK
  <2>2. ASSUME NEW r \in redeeming, Expire(r) \/ RemoveCode(r)
        PROVE  /\ code' = NoSecret /\ redeeming' \subseteq redeeming
               /\ entered' \subseteq entered \union {r.code} /\ r.code \in Secret
    BY <2>2 DEF Expire, RemoveCode, Answers, TypeOK, Request
  <2> QED
    BY <1>1, <2>1, <2>2 DEF PageStep, TypeOK
<1> QED
  BY <1>2, PageRest DEF TypeOK, procVars

(* Only a command that stops goes through look, signal and await; a token *)
(* or a code is made on the spot.                                          *)
LEMMA ListsStep ==
  ASSUME TypeOK, Lists, [Next]_vars
  PROVE  Lists'
<1>1. cmd \in [Commands -> Command]
  BY DEF TypeOK
<1>2. CASE UNCHANGED cmd
  BY <1>2 DEF Lists, Stopping
<1>3. ASSUME NEW c \in Commands, NEW k, Step(c, k),
             \/ k.pc \in {"look", "signal", "await"}
             \/ k.pc \in {"truncate", "write"} /\ k.then \in {"look", "signal"}
             => k.todo \subseteq Ids
      PROVE  Lists'
  BY <1>1, <1>3 DEF Lists, Stopping, Step
<1>4. ASSUME NEW c \in Commands, End(c)
      PROVE  Lists'
  BY <1>3, <1>4 DEF End, Idle
<1>5. ASSUME NEW c \in Commands, CommandStep(c)
      PROVE  Lists'
  <2>1. cmd[c] \in Command /\ (Stopping(c) => cmd[c].todo \subseteq Ids)
    BY <1>1 DEF Lists
  <2>3. CASE StartNext(c)
    BY <1>3, <1>4, <2>1, <2>3 DEF StartNext, Goto, Command
  <2>4. CASE StartGateway(c)
    BY <1>3, <1>4, <2>1, <2>4 DEF StartGateway, NewProcess, Command
  <2>5. CASE StartLocalProcess(c)
    BY <1>3, <1>4, <2>1, <2>5 DEF StartLocalProcess, NewProcess, Save, Command
  <2>6. CASE SaveState(c)
    BY <1>3, <1>4, <2>1, <2>6 DEF SaveState, Goto, Stopping, Command
  <2>7. CASE Health(c)
    BY <1>3, <2>1, <2>7 DEF Health, Goto, Save, Command
  <2>8. CASE Stop(c)
    BY <1>3, <1>4, <2>1, <2>8 DEF Stop, Stopping, Command
  <2>9. CASE Signal(c)
    BY <1>3, <1>4, <2>1, <2>9 DEF Signal, Goto, Stopping, Command
  <2>10. CASE Await(c)
    BY <1>3, <2>1, <2>10 DEF Await, Stopped, Save, Stopping, Command
  <2>11. CASE Rotate(c) \/ CreateBootstrap(c)
    BY <1>3, <1>4, <2>1, <2>11 DEF Rotate, CreateBootstrap, Goto, Command
  <2> QED
    BY <1>5, <2>3, <2>4, <2>5, <2>6, <2>7, <2>8, <2>9, <2>10, <2>11 DEF CommandStep
<1>6. ASSUME NEW c \in Commands, Give(c)
      PROVE  Lists'
  BY <1>3, <1>6 DEF Give, GiveStart, GiveStop, GiveDown, GiveSecret, Begin, Idle, Ids
<1>7. ASSUME NEW c \in Commands, CutOff(c)
      PROVE  Lists'
  BY <1>4, <1>7 DEF CutOff
<1>8. ASSUME NEW p \in DOMAIN proc, ProcessStep(p)
      PROVE  UNCHANGED cmd
  BY <1>8 DEF ProcessStep, LoadToken, CreateToken, OpenStore, Listen, Shutdown, Crash, Reuse,
              restOfProc
<1>9. PageStep => UNCHANGED cmd
  BY PageRest
<1> QED
  BY <1>2, <1>5, <1>6, <1>7, <1>8, <1>9 DEF Next, PageStep, vars

(* Processes are only added, and a process that listens is one of them.    *)
LEMMA ListeningStep ==
  ASSUME TypeOK, Listening, [Next]_vars
  PROVE  Listening'
<1>1. proc \in Seq(Process)
  BY DEF TypeOK
<1>2. ASSUME NEW c \in Commands, CommandStep(c)
      PROVE  DOMAIN proc \subseteq DOMAIN proc' /\ port' \in {port, 0}
  <2>1. CASE \/ StartNext(c) \/ SaveState(c) \/ Health(c) \/ Stop(c) \/ Rotate(c)
             \/ CreateBootstrap(c)
    BY <2>1 DEF StartNext, SaveState, Health, Stop, Rotate, CreateBootstrap, procVars
  <2>2. CASE StartGateway(c) \/ StartLocalProcess(c)
    <3>1. ASSUME NEW i, NEW x, NewProcess(c, i, x)
          PROVE  DOMAIN proc \subseteq DOMAIN proc'
      BY <1>1, <3>1 DEF NewProcess
    <3> QED
      BY <2>2, <3>1 DEF StartGateway, StartLocalProcess
  <2>3. CASE Signal(c)
    BY <1>1, <2>3 DEF Signal
  <2>4. CASE Await(c)
    BY <1>1, <2>4 DEF Await, Exit, Become
  <2> QED
    BY <1>2, <2>1, <2>2, <2>3, <2>4 DEF CommandStep
<1>3. ASSUME NEW p \in DOMAIN proc, ProcessStep(p)
      PROVE  DOMAIN proc \subseteq DOMAIN proc' /\ port' \in {port, 0, p}
  BY <1>1, <1>3
     DEF ProcessStep, LoadToken, Load, CreateToken, OpenStore, Listen, Shutdown, Crash, Reuse,
         Exit, Become
<1>4. ASSUME NEW c \in Commands, Give(c) \/ CutOff(c)
      PROVE  UNCHANGED << proc, port >>
  BY <1>4 DEF Give, CutOff, procVars
<1>5. PageStep => UNCHANGED << proc, port >>
  BY PageRest DEF procVars
<1> QED
  BY <1>2, <1>3, <1>4, <1>5 DEF Next, PageStep, vars, Listening

-----------------------------------------------------------------------------
(* The codes there are: in the file, found there by a request, or come in. *)
Codes == ({code} \ {NoSecret, Blank}) \union {r.code : r \in redeeming} \union entered

(* Every command that is at work has a number of its own, which is not the *)
(* number of any code: codes are told apart by who made them.              *)
Numbered ==
  /\ \A c \in Commands : /\ cmd[c].n <= given
                         /\ cmd[c].pc # "idle" => cmd[c].n > 0
  /\ \A c, d \in Commands : c # d /\ cmd[c].n > 0 => cmd[c].n # cmd[d].n
  /\ \A k \in Codes : /\ k.by = "command" /\ k.n > 0 /\ k.n <= given
                      /\ \A c \in Commands : cmd[c].n # k.n

(* What a step of a command does to its number.                            *)
LEMMA CommandNumber ==
  ASSUME TypeOK, NEW c \in Commands, CommandStep(c)
  PROVE  /\ cmd[c].pc # "idle"
         /\ cmd' = [cmd EXCEPT ![c] = cmd'[c]]
         /\ \/ cmd'[c].n = cmd[c].n
            \/ cmd'[c].n = 0 /\ cmd'[c].pc = "idle"
<1>1. /\ cmd \in [Commands -> Command]
      /\ DOMAIN cmd[c] = {"pc", "n", "todo", "id", "pid", "save", "then"}
  BY DEF TypeOK, Command
<1>2. cmd[c].pc # "idle"
  BY DEF CommandStep, StartNext, StartGateway, StartLocalProcess, SaveState, Health, Stop, Signal,
         Await, Rotate, CreateBootstrap
<1> DEFINE Kept == /\ cmd' = [cmd EXCEPT ![c] = cmd'[c]]
                   /\ \/ cmd'[c].n = cmd[c].n
                      \/ cmd'[c].n = 0 /\ cmd'[c].pc = "idle"
<1>3. ASSUME NEW k, Step(c, k),
             \/ k.n = cmd[c].n
             \/ k.n = 0 /\ k.pc = "idle"
      PROVE  Kept
  <2>1. cmd'[c] = k
    BY <1>1, <1>3 DEF Step
  <2> QED
    BY <1>3, <2>1 DEF Step
<1> HIDE DEF Kept
<1>4. End(c) => Kept
  BY <1>3 DEF End, Idle
<1>5. ASSUME NEW q, Goto(c, q)
      PROVE  Kept
  <2> DEFINE k == [cmd[c] EXCEPT !.pc = q]
  <2>1. Step(c, k) /\ k.n = cmd[c].n
    BY <1>1, <1>5 DEF Goto
  <2> HIDE DEF k
  <2> QED
    BY <1>3, <2>1
<1>6. ASSUME NEW r, NEW q, Save(c, r, q)
      PROVE  Kept
  <2> DEFINE k == [cmd[c] EXCEPT !.pc = "truncate", !.save = r, !.then = q]
  <2>1. Step(c, k) /\ k.n = cmd[c].n
    BY <1>1, <1>6 DEF Save
  <2> HIDE DEF k
  <2> QED
    BY <1>3, <2>1
<1>7. ASSUME NEW i, NEW x, NewProcess(c, i, x)
      PROVE  Kept
  <2> DEFINE k == [cmd[c] EXCEPT !.pc = "truncate", !.pid = Len(proc) + 1,
                     !.save = [status |-> "running", pid |-> Len(proc) + 1],
                     !.then = IF i = "gateway" THEN "health" ELSE "next"]
  <2>1. Step(c, k)
    BY <1>7 DEF NewProcess
  <2>2. k.n = cmd[c].n
    BY <1>1
  <2> HIDE DEF k
  <2> QED
    BY <1>3, <2>1, <2>2
<1>8. ASSUME StartNext(c)
      PROVE  Kept
  <2>1. ASSUME NEW i, NEW q,
               Step(c, [cmd[c] EXCEPT !.todo = @ \ {i}, !.id = i, !.pc = q])
        PROVE  Kept
    <3> DEFINE k == [cmd[c] EXCEPT !.todo = @ \ {i}, !.id = i, !.pc = q]
    <3>1. Step(c, k) /\ k.n = cmd[c].n
      BY <1>1, <2>1
    <3> HIDE DEF k
    <3> QED
      BY <1>3, <3>1
  <2> QED
    BY <1>4, <1>5, <1>8, <2>1 DEF StartNext
<1>9. ASSUME Stop(c)
      PROVE  Kept
  <2> DEFINE next(i) == [cmd[c] EXCEPT !.todo = @ \ {i}, !.id = i, !.pid = record[i].pid,
                                       !.pc = "truncate"]
  <2>1. ASSUME NEW i, NEW r, NEW q,
               Step(c, [next(i) EXCEPT !.save = r, !.then = q])
        PROVE  Kept
    <3>1. next(i).n = cmd[c].n /\ DOMAIN next(i) = DOMAIN cmd[c]
      BY <1>1
    <3> HIDE DEF next
    <3> DEFINE k == [next(i) EXCEPT !.save = r, !.then = q]
    <3>2. Step(c, k) /\ k.n = cmd[c].n
      BY <1>1, <2>1, <3>1
    <3> HIDE DEF k
    <3> QED
      BY <1>3, <3>2
  <2>2. \/ End(c)
        \/ \E i \in cmd[c].todo :
             \/ Step(c, [next(i) EXCEPT !.save = [record[i] EXCEPT !.status = "stop_requested"],
                                        !.then = "signal"])
             \/ Step(c, [next(i) EXCEPT !.save = [status |-> "stopped", pid |-> 0],
                                        !.then = "look"])
    BY <1>9 DEF Stop
  <2> HIDE DEF next
  <2> QED
    BY <1>4, <2>1, <2>2
<1>10. Kept
  BY <1>4, <1>5, <1>6, <1>7, <1>8, <1>9
     DEF CommandStep, StartGateway, StartLocalProcess, SaveState, Health, Signal, Await, Stopped,
         Rotate, CreateBootstrap
<1> QED
  BY <1>2, <1>10 DEF Kept

LEMMA NumberedStep ==
  ASSUME TypeOK, Numbered, Spent, [Next]_vars
  PROVE  Numbered' /\ Spent'
<1>1. /\ cmd \in [Commands -> Command] /\ given \in Nat
      /\ \A c \in Commands : cmd[c].n \in Nat
      /\ \A k \in Codes : k.n \in Nat
  <2>1. cmd \in [Commands -> Command] /\ given \in Nat
    BY DEF TypeOK
  <2>2. \A c \in Commands : cmd[c].n \in Nat
    BY <2>1 DEF Command
  <2>3. \A k \in Codes : k \in Secret
    BY DEF TypeOK, Request, Codes
  <2>4. \A k \in Secret : k.n \in Nat
    BY DEF Secret, Blank, NoSecret, TokenEnv
  <2> QED
    BY <2>1, <2>2, <2>3, <2>4
<1>0. NoSecret \notin Codes /\ Blank \notin Codes
  BY DEF Numbered, NoSecret, Blank
(* A command that goes on keeps its number, or ends.                       *)
<1>2. ASSUME NEW c \in Commands, cmd' = [cmd EXCEPT ![c] = cmd'[c]], given' = given,
             \/ cmd'[c].n = cmd[c].n /\ cmd[c].pc # "idle"
             \/ cmd'[c].n = 0 /\ cmd'[c].pc = "idle",
             \A k \in Codes' : \/ k \in Codes
                               \/ /\ k = [by |-> "command", n |-> cmd[c].n]
                                  /\ cmd[c].pc # "idle" /\ cmd'[c].n = 0
      PROVE  Numbered'
  <2>1. \A d \in Commands : d # c => cmd'[d] = cmd[d]
    BY <1>1, <1>2
  <2>2. cmd'[c].n \in {cmd[c].n, 0} /\ (cmd'[c].pc # "idle" => cmd'[c].n > 0)
    BY <1>1, <1>2 DEF Numbered
  <2>3. \A d \in Commands : cmd'[d].n \in {cmd[d].n, 0} /\ cmd'[d].n \in Nat
    BY <1>1, <2>1, <2>2
  <2>4. \A d \in Commands : cmd'[d].n <= given' /\ (cmd'[d].pc # "idle" => cmd'[d].n > 0)
    BY <1>1, <1>2, <2>1, <2>2, <2>3 DEF Numbered
  <2>5. \A d, e \in Commands : d # e /\ cmd'[d].n > 0 => cmd'[d].n # cmd'[e].n
    BY <1>1, <2>3 DEF Numbered
  <2>6. ASSUME NEW k \in Codes'
        PROVE  /\ k.by = "command" /\ k.n > 0 /\ k.n <= given'
               /\ \A d \in Commands : cmd'[d].n # k.n
    <3>1. CASE k \in Codes
      BY <1>1, <1>2, <2>3, <3>1 DEF Numbered
    <3>2. CASE k \notin Codes
      <4>1. k.by = "command" /\ k.n = cmd[c].n /\ cmd[c].n > 0 /\ cmd'[c].n = 0
        BY <1>2, <2>6, <3>2 DEF Numbered
      <4>2. \A d \in Commands : d # c => cmd'[d].n # k.n
        BY <2>1, <4>1 DEF Numbered
      <4> QED
        BY <1>1, <1>2, <4>1, <4>2 DEF Numbered
    <3> QED
      BY <3>1, <3>2
  <2> QED
    BY <2>4, <2>5, <2>6 DEF Numbered
<1>3. ASSUME NEW c \in Commands, CommandStep(c)
      PROVE  Numbered' /\ Spent'
  <2>1. CASE CreateBootstrap(c)
    <3> DEFINE k == [by |-> "command", n |-> cmd[c].n]
    <3>1. given' = given /\ UNCHANGED << redeeming, entered >>
      BY <2>1 DEF CreateBootstrap, pageVars
    <3>2. /\ cmd' = [cmd EXCEPT ![c] = cmd'[c]] /\ cmd[c].pc # "idle"
          /\ cmd'[c].n = cmd[c].n \/ (cmd'[c].n = 0 /\ cmd'[c].pc = "idle")
      BY <1>3, CommandNumber
    <3>3. CASE code' \in {Blank, NoSecret}
      <4>1. Codes' \subseteq Codes
        BY <3>1, <3>3 DEF Codes
      <4>2. Spent'
        BY <1>0, <3>1, <3>3 DEF Spent, Codes
      <4> QED
        BY <1>2, <3>1, <3>2, <4>1, <4>2
    <3>4. CASE code' \notin {Blank, NoSecret}
      <4>1. code' = k /\ cmd' = [cmd EXCEPT ![c] = Idle]
        BY <2>1, <3>4 DEF CreateBootstrap, End, Step
      <4>2. cmd'[c].n = 0 /\ cmd'[c].pc = "idle"
        BY <1>1, <4>1 DEF Idle
      <4>3. \A x \in Codes' : x \in Codes \/ x = k
        BY <3>1, <4>1 DEF Codes
      <4>4. k \notin Codes
        BY DEF Numbered
      <4>5. Spent'
        BY <3>1, <4>1, <4>4 DEF Spent, Codes
      <4> QED
        BY <1>2, <3>1, <3>2, <4>2, <4>3, <4>5
    <3> QED
      BY <3>3, <3>4
  <2>2. CASE ~ CreateBootstrap(c)
    <3>1. given' = given /\ UNCHANGED << code, redeeming, entered >>
      BY <1>3, <2>2
         DEF CommandStep, StartNext, StartGateway, StartLocalProcess, SaveState, Health, Stop,
             Signal, Await, Rotate, restOfCmd, pageVars
    <3>2. Codes' = Codes
      BY <3>1 DEF Codes
    <3> QED
      BY <1>2, <1>3, <3>1, <3>2, CommandNumber DEF Spent
  <2> QED
    BY <2>1, <2>2
<1>4. ASSUME NEW c \in Commands, CutOff(c)
      PROVE  Numbered' /\ Spent'
  <2>1. /\ cmd' = [cmd EXCEPT ![c] = Idle] /\ given' = given
        /\ UNCHANGED << code, redeeming, entered >>
    BY <1>4 DEF CutOff, End, Step, restOfCmd, pageVars
  <2>2. Codes' = Codes
    BY <2>1 DEF Codes
  <2>3. cmd'[c] = Idle /\ Idle.n = 0 /\ Idle.pc = "idle"
    BY <1>1, <2>1 DEF Idle
  <2>4. cmd' = [cmd EXCEPT ![c] = cmd'[c]]
    BY <2>1, <2>3
  <2>5. Numbered'
    BY <1>2, <2>1, <2>2, <2>3, <2>4
  <2> QED
    BY <2>1, <2>5 DEF Spent
<1>5. ASSUME NEW c \in Commands, Give(c)
      PROVE  Numbered' /\ Spent'
  <2>1. cmd' = [cmd EXCEPT ![c] = cmd'[c]] /\ cmd'[c].n = given'
    BY <1>1, <1>5 DEF Give, GiveStart, GiveStop, GiveDown, GiveSecret, Begin, Idle, Step
  <2>2. given' = given + 1 /\ UNCHANGED << code, redeeming, entered >>
    BY <1>5 DEF Give, pageVars
  <2>3. Codes' = Codes
    BY <2>2 DEF Codes
  <2> QED
    BY <1>1, <2>1, <2>2, <2>3 DEF Numbered, Spent
<1>6. ASSUME NEW p \in DOMAIN proc, ProcessStep(p)
      PROVE  UNCHANGED << cmd, given, code, redeeming, entered >>
  BY <1>6 DEF ProcessStep, LoadToken, CreateToken, OpenStore, Listen, Shutdown, Crash, Reuse,
              restOfProc, pageVars
<1>7. ASSUME PageStep
      PROVE  Numbered' /\ Spent'
  <2>1. UNCHANGED << cmd, given >>
    BY <1>7, PageRest
  <2>2. Codes' \subseteq Codes /\ Spent'
    <3>1. CASE ReadCode
      BY <3>1 DEF ReadCode, Codes, Spent
    <3>2. ASSUME NEW r \in redeeming, Expire(r) \/ RemoveCode(r)
          PROVE  Codes' \subseteq Codes /\ Spent'
      <4>1. /\ code' = NoSecret /\ redeeming' \subseteq redeeming
            /\ entered' \subseteq entered \union {r.code}
        BY <3>2 DEF Expire, RemoveCode, Answers
      <4>2. Codes' \subseteq Codes
        BY <4>1 DEF Codes
      <4>3. entered' \subseteq Codes'
        BY DEF Codes
      <4> QED
        BY <1>0, <4>1, <4>2, <4>3 DEF Spent
    <3> QED
      BY <1>7, <3>1, <3>2 DEF PageStep
  <2> QED
    BY <2>1, <2>2 DEF Numbered
<1>8. CASE UNCHANGED << cmd, given, code, redeeming, entered >>
  BY <1>8 DEF Numbered, Codes, Spent
<1> QED
  BY <1>3, <1>4, <1>5, <1>6, <1>7, <1>8 DEF Next, PageStep, vars

-----------------------------------------------------------------------------
(* The invariant the theorems rest on, and that every step keeps it.       *)
IInv == TypeOK /\ Lists /\ Listening /\ Numbered /\ Spent

LEMMA InitIInv ==
  ASSUME Init
  PROVE  IInv
<1>1. NoSecret \in Secret /\ NoRecord \in Record
  BY DEF Secret, Record
<1>2. Idle \in Command
  BY <1>1 DEF Idle, Command, Ids
<1>4. TypeOK
  BY <1>1, <1>2 DEF Init, TypeOK
<1>5. Lists /\ Listening
  BY DEF Init, Lists, Listening, Stopping, Idle
<1>6. Numbered /\ Spent
  BY DEF Init, Numbered, Codes, Spent, Idle
<1> QED
  BY <1>4, <1>5, <1>6 DEF IInv

LEMMA StepIInv ==
  ASSUME IInv, [Next]_vars
  PROVE  IInv'
<1> USE DEF IInv
<1>1. TypeOK'
  <2>1. CASE UNCHANGED vars
    BY <2>1 DEF vars, TypeOK
  <2>2. ASSUME NEW p \in DOMAIN proc, ProcessStep(p)
        PROVE  TypeOK'
    BY <2>2, ProcessType
  <2>3. ASSUME NEW c \in Commands, Give(c)
        PROVE  TypeOK'
    BY <2>3, GiveType
  <2>4. ASSUME NEW c \in Commands, CommandStep(c)
        PROVE  TypeOK'
    BY <2>4, CommandType
  <2>5. ASSUME NEW c \in Commands, CutOff(c)
        PROVE  TypeOK'
    BY <2>5, CutOffType
  <2>6. CASE PageStep
    BY <2>6, PageType
  <2> QED
    BY <2>1, <2>2, <2>3, <2>4, <2>5, <2>6 DEF Next, PageStep
<1>2. Lists'
  BY ListsStep
<1>3. Listening'
  BY ListeningStep
<1>4. Numbered' /\ Spent'
  BY NumberedStep
<1> QED
  BY <1>1, <1>2, <1>3, <1>4

(* The files, processes and commands are of their types: above all no      *)
(* record of a process says anything but what a command writes into it.    *)
THEOREM TypeCorrect == Spec => []TypeOK
<1>1. Init => IInv
  BY InitIInv
<1>2. IInv /\ [Next]_vars => IInv'
  BY StepIInv
<1>3. IInv => TypeOK
  BY DEF IInv
<1> QED
  BY <1>1, <1>2, <1>3, PTL DEF Spec

(* Whatever number of codes is made and of requests with them are at work  *)
(* at once: once a page has come in with a code, no request that asks from *)
(* then on finds this code in the file.  Requests that had found it by     *)
(* then, the removal of which is a step apart, all come in.                *)
THEOREM SpentHolds == Spec => []Spent
<1>1. Init => IInv
  BY InitIInv
<1>2. IInv /\ [Next]_vars => IInv'
  BY StepIInv
<1>3. IInv => Spent
  BY DEF IInv
<1> QED
  BY <1>1, <1>2, <1>3, PTL DEF Spec

-----------------------------------------------------------------------------
(***************************************************************************)
(* What holds of GatewayProcess as long as no command is cut off and no    *)
(* two are at work at once: every process is found again, one gateway is   *)
(* at work, and the token file is its token.                               *)
(***************************************************************************)

(* The processes of an id that have not ended.                             *)
Live(i) == {p \in DOMAIN proc : proc[p].state # "dead" /\ proc[p].id = i}

(* What a command k is about to do agrees with the processes there are.    *)
Saving(k) == k.pc \in {"truncate", "write"}
Known(k) ==
  /\ k.pc = "spawn" => Live(k.id) = {}
  /\ Saving(k) => Live(k.id) \subseteq {k.pid} \intersect {k.save.pid}
  /\ Saving(k) /\ k.then \in {"health", "signal"} => k.save.pid = k.pid
  /\ k.pc \in {"health", "signal", "await"} => record[k.id].pid = k.pid

(* An id whose record nobody is writing has the process its record names,  *)
(* or none.                                                                *)
Recorded(i) ==
  (\A c \in Commands : Saving(cmd[c]) => cmd[c].id # i) => Live(i) \subseteq {record[i].pid}

Alone == \A c, d \in Commands : cmd[c].pc # "idle" /\ cmd[d].pc # "idle" => c = d

Found ==
  calm => /\ Alone
          /\ \A c \in Commands : Known(cmd[c])
          /\ \A i \in Ids : Recorded(i)

LEMMA Names == "other" \notin Ids /\ "gateway" \notin Runtimes /\ "gateway" \in Ids
<1>1. \A x \in Runtimes : x \notin {"gateway", "other"}
  BY RuntimesAssumption
<1> QED
  BY <1>1 DEF Ids

(* A step of one process leaves the others alone; it brings none to life   *)
(* but the one of somebody else that gets the number.                      *)
LEMMA ProcessEffect ==
  ASSUME TypeOK, NEW p \in DOMAIN proc, ProcessStep(p)
  PROVE  /\ DOMAIN proc' = DOMAIN proc
         /\ \A q \in DOMAIN proc : q # p => proc'[q] = proc[q]
         /\ \/ proc[p].state # "dead" /\ proc'[p].id = proc[p].id
            \/ proc[p].state = "dead" /\ proc'[p].id = "other"
<1>1. DOMAIN proc[p] = {"id", "token", "term", "state"}
  <2>1. proc[p] \in Process
    BY DEF TypeOK
  <2> QED
    BY <2>1 DEF Process
<1>2. ASSUME NEW x, Become(p, x)
      PROVE  /\ DOMAIN proc' = DOMAIN proc
             /\ \A q \in DOMAIN proc : q # p => proc'[q] = proc[q]
             /\ proc'[p].id = proc[p].id
  BY <1>1, <1>2 DEF Become
<1>3. CASE LoadToken(p)
  BY <1>1, <1>2, <1>3 DEF LoadToken, Load
<1>4. CASE CreateToken(p)
  BY <1>1, <1>2, <1>4 DEF CreateToken
<1>5. CASE OpenStore(p) \/ Listen(p)
  BY <1>2, <1>5 DEF OpenStore, Listen, Exit
<1>6. CASE Shutdown(p)
  BY <1>2, <1>6 DEF Shutdown, Exit
<1>7. CASE Crash(p)
  BY <1>2, <1>7 DEF Crash, Exit, ProcessAlive
<1>8. CASE Reuse(p)
  BY <1>8 DEF Reuse, ProcessAlive
<1> QED
  BY <1>3, <1>4, <1>5, <1>6, <1>7, <1>8 DEF ProcessStep

LEMMA ProcessLive ==
  ASSUME TypeOK, NEW p \in DOMAIN proc, ProcessStep(p), NEW i \in Ids
  PROVE  Live(i)' \subseteq Live(i)
BY ProcessEffect, Names DEF Live

LEMMA FoundProcess ==
  ASSUME TypeOK, Found, NEW p \in DOMAIN proc, ProcessStep(p)
  PROVE  Found'
<1>1. UNCHANGED << record, cmd, calm >>
  BY DEF ProcessStep, LoadToken, CreateToken, OpenStore, Listen, Shutdown, Crash, Reuse,
         restOfProc
<1>2. \A i \in Ids : Live(i)' \subseteq Live(i)
  BY ProcessLive
<1>3. \A c \in Commands : cmd[c].id \in Ids
  BY DEF TypeOK, Command
<1>4. SUFFICES ASSUME calm
               PROVE  Alone' /\ (\A c \in Commands : Known(cmd[c])')
                      /\ \A i \in Ids : Recorded(i)'
  BY <1>1 DEF Found
<1>5. Alone'
  BY <1>1, <1>4 DEF Found, Alone
<1>6. ASSUME NEW c \in Commands
      PROVE  Known(cmd[c])'
  BY <1>1, <1>2, <1>3, <1>4 DEF Found, Known, Saving
<1>7. ASSUME NEW i \in Ids
      PROVE  Recorded(i)'
  BY <1>1, <1>2, <1>4 DEF Found, Recorded, Saving
<1> QED
  BY <1>5, <1>6, <1>7

-----------------------------------------------------------------------------
(* A step of the one command that is at work.                              *)
LEMMA FoundIf ==
  ASSUME TypeOK, Found, calm, NEW c \in Commands, cmd[c].pc # "idle",
         NEW k, Step(c, k), Known(k)',
         \A i \in Ids : (Saving(k) /\ k.id = i) \/ Live(i)' \subseteq {record'[i].pid}
  PROVE  Found'
<1>1. cmd'[c] = k /\ \A d \in Commands : d # c => cmd'[d] = cmd[d] /\ cmd'[d].pc = "idle"
  BY DEF TypeOK, Step, Found, Alone
<1>2. Alone'
  BY <1>1 DEF Alone
<1>3. \A d \in Commands : Known(cmd[d])'
  BY <1>1 DEF Known, Saving
<1>4. \A i \in Ids : Recorded(i)'
  BY <1>1 DEF Recorded
<1> QED
  BY <1>2, <1>3, <1>4 DEF Found

LEMMA NotSaving ==
  ASSUME TypeOK, Found, calm, NEW c \in Commands, cmd[c].pc # "idle", NEW i \in Ids,
         Saving(cmd[c]) => cmd[c].id # i
  PROVE  Live(i) \subseteq {record[i].pid}
BY DEF Found, Alone, Recorded, Saving

(* The steps that write no record and start no process.                    *)
LEMMA FoundQuiet ==
  ASSUME TypeOK, Found, calm, NEW c \in Commands, cmd[c].pc # "idle", ~ Saving(cmd[c]),
         NEW k, Step(c, k), Known(k)', record' = record,
         \A i \in Ids : Live(i)' \subseteq Live(i)
  PROVE  Found'
BY FoundIf, NotSaving

(* The steps that change neither record nor process.                       *)
LEMMA FoundStill ==
  ASSUME TypeOK, Found, calm, NEW c \in Commands, cmd[c].pc # "idle", ~ Saving(cmd[c]),
         NEW k, Step(c, k), Known(k), UNCHANGED << proc, record >>
  PROVE  Found'
<1>1. \A i : Live(i)' = Live(i)
  BY DEF Live
<1>2. Known(k)'
  BY <1>1 DEF Known
<1> QED
  BY <1>1, <1>2, FoundQuiet

LEMMA FoundEnd ==
  ASSUME TypeOK, Found, calm, NEW c \in Commands, cmd[c].pc # "idle", ~ Saving(cmd[c]),
         End(c), UNCHANGED << proc, record >>
  PROVE  Found'
<1>1. Known(Idle)
  BY DEF Known, Idle, Saving
<1> QED
  BY <1>1, FoundStill DEF End

(* To go on with something that is not about a process.                    *)
LEMMA FoundGoto ==
  ASSUME TypeOK, Found, calm, NEW c \in Commands, cmd[c].pc # "idle", ~ Saving(cmd[c]),
         NEW q \in {"idle", "next", "look", "token", "rotate", "code", "link"}, Goto(c, q),
         UNCHANGED << proc, record >>
  PROVE  Found'
<1> DEFINE k == [cmd[c] EXCEPT !.pc = q]
<1>1. Step(c, k)
  BY DEF Goto
<1>2. k.pc = q
  BY DEF TypeOK, Command
<1>3. Known(k)
  BY <1>2 DEF Known, Saving
<1> HIDE DEF k
<1> QED
  BY <1>1, <1>3, FoundStill

LEMMA FoundStart ==
  ASSUME TypeOK, Found, calm, NEW c \in Commands, StartNext(c)
  PROVE  Found'
<1>1. /\ cmd[c].pc = "next" /\ ~ Saving(cmd[c]) /\ UNCHANGED << proc, record >>
      /\ cmd[c].pc # "idle"
  BY DEF StartNext, Saving, procVars
<1>2. CASE End(c)
  BY <1>1, <1>2, FoundEnd
<1>3. CASE Goto(c, "code")
  BY <1>1, <1>3, FoundGoto
<1>4. ASSUME NEW i \in cmd[c].todo \ {"console"},
             Step(c, [cmd[c] EXCEPT !.todo = @ \ {i}, !.id = i,
                       !.pc = IF ProcessAlive(record[i].pid) THEN "next" ELSE "spawn"])
      PROVE  Found'
  <2> DEFINE k == [cmd[c] EXCEPT !.todo = @ \ {i}, !.id = i,
                     !.pc = IF ProcessAlive(record[i].pid) THEN "next" ELSE "spawn"]
  <2>1. cmd[c] \in Command /\ i \in Ids
    BY DEF TypeOK, Command
  <2>2. /\ k.id = i /\ k.pc \in {"next", "spawn"}
        /\ k.pc = "spawn" => ~ ProcessAlive(record[i].pid)
    BY <2>1 DEF Command
  <2>3. Step(c, k)
    BY <1>4
  <2> HIDE DEF k
  <2>4. Live(i) \subseteq {record[i].pid}
    BY <1>1, <2>1, NotSaving
  <2>5. Known(k)
    BY <2>2, <2>4 DEF Known, Saving, ProcessAlive, Live
  <2> QED
    BY <1>1, <2>3, <2>5, FoundStill
<1> QED
  BY <1>2, <1>3, <1>4 DEF StartNext

(* A new process is the only one of its id.                                *)
LEMMA FoundNew ==
  ASSUME TypeOK, Found, calm, NEW c \in Commands, cmd[c].pc = "spawn", NEW x,
         NewProcess(c, cmd[c].id, x), record' = record
  PROVE  Found'
<1>a. PICK i, n : i = cmd[c].id /\ n = Len(proc) + 1
  OBVIOUS
<1>b. PICK k : k = [cmd[c] EXCEPT !.pc = "truncate", !.pid = n,
                     !.save = [status |-> "running", pid |-> n],
                     !.then = IF i = "gateway" THEN "health" ELSE "next"]
  OBVIOUS
<1>1. /\ Step(c, k)
      /\ proc' = Append(proc, [id |-> i, token |-> NoSecret, term |-> FALSE, state |-> x])
  BY <1>a, <1>b DEF NewProcess
<1>2. cmd[c] \in Command /\ i \in Ids /\ proc \in Seq(Process) /\ n \in Nat
  BY <1>a DEF TypeOK, Command
<1>3. k.pc = "truncate" /\ k.id = i /\ k.pid = n /\ k.save.pid = n
  BY <1>a, <1>b, <1>2 DEF Command
<1>4. /\ DOMAIN proc' = DOMAIN proc \union {n} /\ proc'[n].id = i
      /\ \A p \in DOMAIN proc : proc'[p] = proc[p] /\ p # n
  BY <1>a, <1>1, <1>2
<1>5. Live(i) = {}
  BY <1>a DEF Found, Known
<1>6. Live(i)' \subseteq {n} /\ \A j : j # i => Live(j)' \subseteq Live(j)
  BY <1>4, <1>5 DEF Live
<1>7. Known(k)'
  BY <1>3, <1>6 DEF Known, Saving
<1>8. \A j \in Ids : Live(j) \subseteq {record[j].pid}
  BY NotSaving DEF Saving
<1> QED
  BY <1>1, <1>3, <1>6, <1>7, <1>8, FoundIf DEF Saving

(* To write a record that tells of the process there is, if there is one.  *)
LEMMA FoundSave ==
  ASSUME TypeOK, Found, calm, NEW c \in Commands, cmd[c].pc # "idle", ~ Saving(cmd[c]),
         NEW r, NEW q, Save(c, r, q), q \notin {"health", "signal"},
         NEW j, j = cmd[c].id, Live(j)' \subseteq {cmd[c].pid} \intersect {r.pid},
         \A i \in Ids : Live(i)' \subseteq Live(i), record' = record
  PROVE  Found'
<1>1. PICK k : k = [cmd[c] EXCEPT !.pc = "truncate", !.save = r, !.then = q]
  OBVIOUS
<1>2. Step(c, k)
  BY <1>1 DEF Save
<1>3. /\ k.pc = "truncate" /\ k.save = r /\ k.then = q
      /\ k.id = j /\ k.pid = cmd[c].pid
  <2>1. DOMAIN cmd[c] = {"pc", "n", "todo", "id", "pid", "save", "then"}
    BY DEF TypeOK, Command
  <2> QED
    BY <1>1, <2>1
<1>4. Known(k)'
  BY <1>3 DEF Known, Saving
<1> QED
  BY <1>2, <1>4, FoundQuiet

LEMMA FoundStartProcess ==
  ASSUME TypeOK, Found, calm, NEW c \in Commands, StartGateway(c) \/ StartLocalProcess(c)
  PROVE  Found'
<1>1. /\ cmd[c].pc = "spawn" /\ ~ Saving(cmd[c]) /\ record' = record
      /\ cmd[c].id \in Ids
  BY DEF StartGateway, StartLocalProcess, Saving, TypeOK, Command
<1>2. ASSUME NEW x, NewProcess(c, cmd[c].id, x)
      PROVE  Found'
  BY <1>1, <1>2, FoundNew
<1>3. ASSUME End(c), UNCHANGED proc
      PROVE  Found'
  BY <1>1, <1>3, FoundEnd
<1>4. ASSUME Save(c, [status |-> "start_failed", pid |-> 0], "idle"), UNCHANGED proc
      PROVE  Found'
  <2>1. PICK j : j = cmd[c].id
    OBVIOUS
  <2>2. \A i : Live(i)' = Live(i)
    BY <1>4 DEF Live
  <2>3. Live(j) = {}
    BY <1>1, <2>1 DEF Found, Known
  <2>4. Live(j)' = {}
    BY <2>2, <2>3
  <2> QED
    BY <1>1, <1>4, <2>1, <2>2, <2>4, FoundSave
<1> QED
  BY <1>1, <1>2, <1>3, <1>4 DEF StartGateway, StartLocalProcess

(* A record torn is one that is being written; a record written agrees.    *)
LEMMA FoundSaveState ==
  ASSUME TypeOK, Found, calm, NEW c \in Commands, SaveState(c)
  PROVE  Found'
<1>1. PICK j : j = cmd[c].id
  OBVIOUS
<1>2. /\ cmd[c] \in Command /\ j \in Ids /\ record \in [Ids -> Record]
      /\ DOMAIN cmd[c] = {"pc", "n", "todo", "id", "pid", "save", "then"}
  BY <1>1 DEF TypeOK, Command
<1>3. Saving(cmd[c]) /\ cmd[c].pc # "idle" /\ \A i : Live(i)' = Live(i)
  BY DEF SaveState, Saving, Live, procVars
<1>4. /\ Live(j) \subseteq {cmd[c].pid} \intersect {cmd[c].save.pid}
      /\ cmd[c].then \in {"health", "signal"} => cmd[c].save.pid = cmd[c].pid
  BY <1>1, <1>3 DEF Found, Known
<1>5. \A i \in Ids : i # j => Live(i) \subseteq {record[i].pid}
  BY <1>1, <1>3, NotSaving
<1>6. CASE cmd[c].pc = "truncate"
  <2>1. PICK k : k = [cmd[c] EXCEPT !.pc = "write"]
    OBVIOUS
  <2>2. Step(c, k) /\ record' = [record EXCEPT ![j] = Torn]
    BY <1>1, <1>6, <2>1 DEF SaveState, Goto
  <2>3. /\ k.pc = "write" /\ k.id = j /\ k.pid = cmd[c].pid /\ k.save = cmd[c].save
        /\ k.then = cmd[c].then
    BY <1>1, <1>2, <2>1
  <2>4. Known(k)'
    BY <1>3, <1>4, <2>3 DEF Known, Saving
  <2>5. \A i \in Ids : (Saving(k) /\ k.id = i) \/ Live(i)' \subseteq {record'[i].pid}
    BY <1>2, <1>3, <1>5, <2>2, <2>3 DEF Saving
  <2> QED
    BY <1>3, <2>2, <2>4, <2>5, FoundIf
<1>7. CASE cmd[c].pc = "write"
  <2>1. PICK k : k = IF cmd[c].then = "idle" THEN Idle ELSE [cmd[c] EXCEPT !.pc = cmd[c].then]
    OBVIOUS
  <2>2. Step(c, k) /\ record' = [record EXCEPT ![j] = cmd[c].save]
    BY <1>1, <1>7, <2>1 DEF SaveState, Goto, End
  <2>3. /\ k.pc = cmd[c].then
        /\ k.pc # "idle" => k.id = j /\ k.pid = cmd[c].pid
    BY <1>1, <1>2, <2>1 DEF Idle
  <2>4. k.pc \in {"idle", "next", "look", "health", "signal"}
    BY <1>2, <2>3 DEF Command
  <2>5. record'[j] = cmd[c].save /\ \A i \in Ids : i # j => record'[i] = record[i]
    BY <1>2, <2>2
  <2>6. Known(k)'
    BY <1>4, <2>3, <2>4, <2>5 DEF Known, Saving
  <2>7. \A i \in Ids : Live(i)' \subseteq {record'[i].pid}
    BY <1>3, <1>4, <1>5, <2>5
  <2> QED
    BY <1>3, <2>2, <2>6, <2>7, FoundIf
<1> QED
  BY <1>6, <1>7 DEF SaveState

LEMMA FoundHealth ==
  ASSUME TypeOK, Found, calm, NEW c \in Commands, Health(c)
  PROVE  Found'
<1>1. /\ cmd[c].pc = "health" /\ ~ Saving(cmd[c]) /\ cmd[c].id \in Ids
      /\ UNCHANGED << proc, record >>
  BY DEF Health, Saving, procVars, TypeOK, Command
<1>2. CASE Goto(c, "next")
  BY <1>1, <1>2, FoundGoto
<1>3. CASE Save(c, [status |-> "start_failed", pid |-> cmd[c].pid], "idle")
  <2>1. PICK j, r : j = cmd[c].id /\ r = [status |-> "start_failed", pid |-> cmd[c].pid]
    OBVIOUS
  <2>2. \A i : Live(i)' = Live(i)
    BY <1>1 DEF Live
  <2>3. Live(j) \subseteq {record[j].pid} /\ record[j].pid = cmd[c].pid
    BY <1>1, <2>1, NotSaving DEF Found, Known
  <2>4. Live(j)' \subseteq {cmd[c].pid} \intersect {r.pid}
    BY <2>1, <2>2, <2>3
  <2>5. Save(c, r, "idle")
    BY <1>3, <2>1
  <2> QED
    BY <1>1, <2>1, <2>2, <2>4, <2>5, FoundSave
<1> QED
  BY <1>2, <1>3 DEF Health

(* A stop takes over the number the record names; there is no other        *)
(* process of this id.                                                     *)
LEMMA FoundStop ==
  ASSUME TypeOK, Lists, Found, calm, NEW c \in Commands, Stop(c)
  PROVE  Found'
<1>1. /\ cmd[c].pc = "look" /\ cmd[c].pc # "idle" /\ ~ Saving(cmd[c])
      /\ UNCHANGED << proc, record >>
      /\ DOMAIN cmd[c] = {"pc", "n", "todo", "id", "pid", "save", "then"}
  BY DEF Stop, Saving, procVars, TypeOK, Command
<1>2. CASE End(c)
  BY <1>1, <1>2, FoundEnd
<1>3. ASSUME NEW i \in cmd[c].todo, record[i] \notin {Torn, NoRecord}, NEW sv, NEW q,
             LET next == [cmd[c] EXCEPT !.todo = @ \ {i}, !.id = i, !.pid = record[i].pid,
                                        !.pc = "truncate"]
             IN Step(c, [next EXCEPT !.save = sv, !.then = q]),
             i \in Ids, Live(i) \subseteq {sv.pid},
             q \in {"health", "signal"} => sv.pid = record[i].pid
      PROVE  Found'
  <2>1. PICK n : n = [cmd[c] EXCEPT !.todo = @ \ {i}, !.id = i, !.pid = record[i].pid,
                                    !.pc = "truncate"]
    OBVIOUS
  <2>2. PICK k : k = [n EXCEPT !.save = sv, !.then = q]
    OBVIOUS
  <2>3. Step(c, k)
    BY <1>3, <2>1, <2>2
  <2>4. n.id = i /\ n.pid = record[i].pid /\ n.pc = "truncate" /\ DOMAIN n = DOMAIN cmd[c]
    BY <1>1, <2>1
  <2>5. /\ k.id = i /\ k.pid = record[i].pid /\ k.pc = "truncate" /\ k.save = sv
        /\ k.then = q
    BY <1>1, <2>2, <2>4
  <2>6. Live(i) \subseteq {record[i].pid}
    BY <1>1, <1>3, NotSaving
  <2>7. Known(k)
    BY <1>3, <2>5, <2>6 DEF Known, Saving
  <2> QED
    BY <1>1, <2>3, <2>7, FoundStill
<1>4. ASSUME NEW i \in cmd[c].todo, record[i] \notin {Torn, NoRecord}
      PROVE  i \in Ids /\ Live(i) \subseteq {record[i].pid} /\ record[i] \in Record
  <2>1. i \in Ids
    BY <1>1 DEF Lists, Stopping
  <2> QED
    BY <1>1, <2>1, NotSaving DEF TypeOK
<1>5. ASSUME NEW i \in cmd[c].todo, record[i] \notin {Torn, NoRecord},
             Step(c, [[cmd[c] EXCEPT !.todo = @ \ {i}, !.id = i, !.pid = record[i].pid,
                                     !.pc = "truncate"]
                       EXCEPT !.save = [record[i] EXCEPT !.status = "stop_requested"],
                              !.then = "signal"])
      PROVE  Found'
  <2>1. PICK sv : sv = [record[i] EXCEPT !.status = "stop_requested"]
    OBVIOUS
  <2>2. sv.pid = record[i].pid
    BY <1>4, <1>5, <2>1 DEF Record
  <2>3. Step(c, [[cmd[c] EXCEPT !.todo = @ \ {i}, !.id = i, !.pid = record[i].pid,
                                !.pc = "truncate"]
                  EXCEPT !.save = sv, !.then = "signal"])
    BY <1>5, <2>1
  <2> QED
    BY <1>3, <1>4, <1>5, <2>2, <2>3
<1>6. ASSUME NEW i \in cmd[c].todo, record[i] \notin {Torn, NoRecord},
             ~ ProcessAlive(record[i].pid),
             Step(c, [[cmd[c] EXCEPT !.todo = @ \ {i}, !.id = i, !.pid = record[i].pid,
                                     !.pc = "truncate"]
                       EXCEPT !.save = [status |-> "stopped", pid |-> 0],
                              !.then = "look"])
      PROVE  Found'
  <2>1. PICK sv : sv = [status |-> "stopped", pid |-> 0]
    OBVIOUS
  <2>2. Live(i) = {}
    BY <1>4, <1>6 DEF Live, ProcessAlive
  <2>3. Step(c, [[cmd[c] EXCEPT !.todo = @ \ {i}, !.id = i, !.pid = record[i].pid,
                                !.pc = "truncate"]
                  EXCEPT !.save = sv, !.then = "look"])
    BY <1>6, <2>1
  <2>4. Live(i) \subseteq {sv.pid} /\ i \in Ids
    BY <1>4, <1>6, <2>2
  <2>5. "look" \notin {"health", "signal"}
    OBVIOUS
  <2> QED
    BY <1>3, <1>6, <2>3, <2>4, <2>5
<1> QED
  BY <1>2, <1>5, <1>6 DEF Stop

LEMMA FoundSignal ==
  ASSUME TypeOK, Found, calm, NEW c \in Commands, Signal(c)
  PROVE  Found'
<1>1. /\ cmd[c].pc = "signal" /\ ~ Saving(cmd[c]) /\ record' = record
      /\ cmd[c].pc # "idle"
      /\ DOMAIN cmd[c] = {"pc", "n", "todo", "id", "pid", "save", "then"}
  BY DEF Signal, Saving, TypeOK, Command
<1>2. CASE End(c) /\ UNCHANGED proc
  BY <1>1, <1>2, FoundEnd
<1>3. CASE /\ ProcessAlive(cmd[c].pid)
           /\ proc' = [proc EXCEPT ![cmd[c].pid].term = TRUE]
           /\ Goto(c, "await")
  <2>1. PICK k : k = [cmd[c] EXCEPT !.pc = "await"]
    OBVIOUS
  <2>2. Step(c, k)
    BY <1>3, <2>1 DEF Goto
  <2>3. k.pc = "await" /\ k.id = cmd[c].id /\ k.pid = cmd[c].pid
    BY <1>1, <2>1
  <2>4. record[k.id].pid = k.pid
    BY <1>1, <2>3 DEF Found, Known
  <2>5. \A p \in DOMAIN proc : proc'[p].state = proc[p].state /\ proc'[p].id = proc[p].id
    <3>1. \A p \in DOMAIN proc : DOMAIN proc[p] = {"id", "token", "term", "state"}
      <4>1. \A p \in DOMAIN proc : proc[p] \in Process
        BY DEF TypeOK
      <4> QED
        BY <4>1 DEF Process
    <3> QED
      BY <1>3, <3>1
  <2>6. \A i : Live(i)' \subseteq Live(i)
    BY <1>3, <2>5 DEF Live
  <2>7. Known(k)'
    BY <1>1, <2>3, <2>4 DEF Known, Saving
  <2> QED
    BY <1>1, <2>2, <2>6, <2>7, FoundQuiet
<1> QED
  BY <1>2, <1>3 DEF Signal

(* Only a process that has ended is recorded as stopped.                   *)
LEMMA FoundAwait ==
  ASSUME TypeOK, Found, calm, NEW c \in Commands, Await(c)
  PROVE  Found'
<1>1. PICK j, r : j = cmd[c].id /\ r = [status |-> "stopped", pid |-> 0]
  OBVIOUS
<1>2. /\ cmd[c].pc = "await" /\ ~ Saving(cmd[c]) /\ record' = record
      /\ cmd[c].pc # "idle" /\ j \in Ids
      /\ Save(c, r, "look")
  BY <1>1 DEF Await, Stopped, Saving, TypeOK, Command
<1>3. Live(j) \subseteq {cmd[c].pid}
  <2>1. record[j].pid = cmd[c].pid
    BY <1>1, <1>2 DEF Found, Known
  <2> QED
    BY <1>2, <2>1, NotSaving
<1>4. /\ \A i \in Ids : Live(i)' \subseteq Live(i)
      /\ Live(j)' = {}
  <2>1. CASE ProcessAlive(cmd[c].pid)
    <3>1. PICK p : p = cmd[c].pid
      OBVIOUS
    <3>2. p \in DOMAIN proc /\ proc' = [proc EXCEPT ![p].state = "dead"]
      BY <2>1, <3>1 DEF ProcessAlive, Await, Exit, Become
    <3>3. DOMAIN proc[p] = {"id", "token", "term", "state"}
      <4>1. proc[p] \in Process
        BY <3>2 DEF TypeOK
      <4> QED
        BY <4>1 DEF Process
    <3>4. /\ DOMAIN proc' = DOMAIN proc /\ proc'[p].state = "dead"
          /\ \A q \in DOMAIN proc : q # p => proc'[q] = proc[q]
      BY <3>2, <3>3
    <3> QED
      BY <1>3, <3>1, <3>4 DEF Live
  <2>2. CASE ~ ProcessAlive(cmd[c].pid)
    <3>1. proc' = proc
      BY <2>2 DEF Await
    <3>2. \A i : Live(i)' = Live(i)
      BY <3>1 DEF Live
    <3>3. Live(j) = {}
      BY <1>3, <2>2 DEF Live, ProcessAlive
    <3> QED
      BY <3>2, <3>3
  <2> QED
    BY <2>1, <2>2
<1> QED
  BY <1>1, <1>2, <1>4, FoundSave

LEMMA FoundCommand ==
  ASSUME TypeOK, Lists, Found, NEW c \in Commands, CommandStep(c)
  PROVE  Found'
<1>1. calm' = calm
  BY DEF CommandStep, StartNext, StartGateway, StartLocalProcess, SaveState, Health, Stop, Signal,
         Await, Rotate, CreateBootstrap
<1>2. CASE ~ calm
  BY <1>1, <1>2 DEF Found
<1>3. CASE calm
  <2>1. CASE Rotate(c) \/ CreateBootstrap(c)
    <3>1. /\ cmd[c].pc # "idle" /\ ~ Saving(cmd[c]) /\ UNCHANGED << proc, record >>
          /\ End(c) \/ Goto(c, "rotate") \/ Goto(c, "link")
      BY <2>1 DEF Rotate, CreateBootstrap, Saving, procVars
    <3> QED
      BY <1>3, <3>1, FoundEnd, FoundGoto
  <2> QED
    BY <1>3, <2>1, FoundStart, FoundStartProcess, FoundSaveState, FoundHealth, FoundStop,
       FoundSignal, FoundAwait
       DEF CommandStep
<1> QED
  BY <1>2, <1>3

(* A command is given while the others are done, or it is not calm.        *)
LEMMA FoundGive ==
  ASSUME TypeOK, Found, NEW c \in Commands, Give(c)
  PROVE  Found'
<1>1. SUFFICES ASSUME calm'
               PROVE  Alone' /\ (\A d \in Commands : Known(cmd[d])')
                      /\ \A i \in Ids : Recorded(i)'
  BY DEF Found
<1>2. calm /\ (\A d \in Commands : cmd[d].pc = "idle") /\ UNCHANGED << proc, record >>
  <2>1. calm' = (calm /\ \A d \in Commands : cmd[d] = Idle)
    BY DEF Give
  <2>2. calm /\ \A d \in Commands : cmd[d] = Idle
    BY <1>1, <2>1, Zenon
  <2>3. UNCHANGED << proc, record >>
    BY DEF Give, procVars
  <2> QED
    BY <2>2, <2>3 DEF Idle
<1>3. /\ \A d \in Commands : d # c => cmd'[d].pc = "idle"
      /\ cmd'[c].pc \in {"next", "look", "token", "code"}
  <2>1. ASSUME NEW q, NEW ids, Begin(c, q, ids)
        PROVE  cmd'[c].pc = q /\ \A d \in Commands : d # c => cmd'[d] = cmd[d]
    BY <2>1 DEF Begin, Step, Idle, TypeOK
  <2> QED
    BY <1>2, <2>1 DEF Give, GiveStart, GiveStop, GiveDown, GiveSecret
<1>4. Alone'
  BY <1>3 DEF Alone
<1>5. \A d \in Commands : Known(cmd[d])'
  BY <1>3 DEF Known, Saving
<1>6. \A i \in Ids : Live(i)' = Live(i) /\ Live(i) \subseteq {record[i].pid}
  BY <1>2 DEF Found, Recorded, Saving, Live
<1>7. \A i \in Ids : Recorded(i)'
  BY <1>2, <1>6 DEF Recorded
<1> QED
  BY <1>4, <1>5, <1>7

LEMMA FoundStep ==
  ASSUME TypeOK, Lists, Found, [Next]_vars
  PROVE  Found'
<1>1. CASE UNCHANGED << proc, record, cmd, calm >>
  BY <1>1 DEF Found, Alone, Known, Recorded, Saving, Live
<1>2. ASSUME NEW c \in Commands, CutOff(c)
      PROVE  Found'
  BY <1>2 DEF CutOff, Found
<1>3. PageStep => UNCHANGED << proc, record, cmd, calm >>
  BY PageRest DEF procVars
<1> QED
  BY <1>1, <1>2, <1>3, FoundProcess, FoundCommand, FoundGive DEF Next, PageStep, vars
-----------------------------------------------------------------------------
(* Only a gateway goes through the states before it listens, and who has   *)
(* the port is a gateway that is up.                                       *)
Starting == {"boot", "generate", "write", "open", "listen"}
Gateways ==
  /\ port # 0 => proc[port].state = "up" /\ proc[port].id = "gateway"
  /\ \A p \in DOMAIN proc : proc[p].state \in Starting => proc[p].id = "gateway"

(* From the moment it has its token until it ends, the file agrees, or the *)
(* token is that of its environment.                                       *)
Agrees(p) ==
  proc[p].token \in {token, TokenEnv} \/ token = Blank \/ token.by = "command"
Tokens ==
  calm => \A p \in DOMAIN proc :
            proc[p].id = "gateway" /\ proc[p].state \in {"open", "listen", "up"} => Agrees(p)

(* What a step of a process does to its own entry, the port and the token. *)
LEMMA ProcessMoves ==
  ASSUME TypeOK, Listening, NEW p \in DOMAIN proc, ProcessStep(p)
  PROVE  \/ /\ proc[p].state = "boot" /\ UNCHANGED << port, token >>
            /\ \/ proc'[p].state \in {"generate", "dead"}
               \/ proc'[p].state = "open" /\ proc'[p].token \in {token, TokenEnv}
         \/ /\ proc[p].state = "generate" /\ proc'[p].state = "write"
            /\ token' = Blank /\ port' = port
         \/ /\ proc[p].state = "write" /\ proc'[p].state = "open"
            /\ token' = proc'[p].token /\ port' = port
         \/ /\ proc[p].state = "open" /\ proc'[p].state \in {"listen", "dead"}
            /\ proc'[p].token = proc[p].token /\ UNCHANGED << port, token >>
         \/ /\ proc[p].state = "listen" /\ proc'[p].state = "up" /\ port' = p
            /\ proc'[p].token = proc[p].token /\ token' = token
         \/ /\ proc'[p].state \in {"closing", "dead"} /\ token' = token
            /\ port' = IF port = p THEN 0 ELSE port
         \/ /\ proc[p].state = "dead" /\ proc'[p].state = "up" /\ proc'[p].id = "other"
            /\ UNCHANGED << port, token >>
<1>1. DOMAIN proc[p] = {"id", "token", "term", "state"}
  <2>1. proc[p] \in Process
    BY DEF TypeOK
  <2> QED
    BY <2>1 DEF Process
<1>2. ASSUME NEW x, Become(p, x)
      PROVE  proc'[p].state = x /\ proc'[p].token = proc[p].token
  BY <1>1, <1>2 DEF Become
<1>a. ASSUME NEW x, NEW t, proc' = [proc EXCEPT ![p].state = x, ![p].token = t]
      PROVE  proc'[p].state = x /\ proc'[p].token = t
  BY <1>1, <1>a
<1>3. CASE LoadToken(p)
  <2>1. proc[p].state = "boot" /\ UNCHANGED << port, token >>
    BY <1>3 DEF LoadToken
  <2>2. ASSUME NEW t \in {token, TokenEnv}, Load(p, t)
        PROVE  proc'[p].state = "open" /\ proc'[p].token = t
    BY <1>a, <2>2 DEF Load
  <2> QED
    BY <1>2, <1>3, <2>1, <2>2 DEF LoadToken
<1>4. CASE CreateToken(p)
  <2>1. CASE proc[p].state = "generate"
    BY <1>2, <1>4, <2>1 DEF CreateToken
  <2>2. CASE proc[p].state = "write"
    <3>1. PICK t : t = token'
      OBVIOUS
    <3>2. proc' = [proc EXCEPT ![p].state = "open", ![p].token = t] /\ port' = port
      BY <1>4, <2>2, <3>1 DEF CreateToken
    <3> QED
      BY <1>a, <2>2, <3>1, <3>2
  <2> QED
    BY <1>4, <2>1, <2>2 DEF CreateToken
<1>5. CASE OpenStore(p)
  BY <1>2, <1>5 DEF OpenStore
<1>6. CASE Listen(p)
  <2>1. CASE port = 0
    BY <1>2, <1>6, <2>1 DEF Listen
  <2>2. CASE port # 0
    BY <1>2, <1>6, <2>2 DEF Listen, Exit
  <2> QED
    BY <2>1, <2>2
<1>7. CASE Shutdown(p) \/ Crash(p)
  BY <1>2, <1>7 DEF Shutdown, Crash, Exit
<1>8. CASE Reuse(p)
  BY <1>8 DEF Reuse, ProcessAlive
<1> QED
  BY <1>3, <1>4, <1>5, <1>6, <1>7, <1>8 DEF ProcessStep

LEMMA GatewaysProcess ==
  ASSUME TypeOK, Listening, Gateways, NEW p \in DOMAIN proc, ProcessStep(p)
  PROVE  Gateways'
<1>1. p # 0 /\ DOMAIN proc' = DOMAIN proc /\ \A q \in DOMAIN proc : q # p => proc'[q] = proc[q]
  BY ProcessEffect DEF TypeOK
<1>2. proc'[p].state \in Starting => proc'[p].id = "gateway"
  BY ProcessEffect, ProcessMoves DEF Starting, Gateways
<1>3. ASSUME port' # 0
      PROVE  proc'[port'].state = "up" /\ proc'[port'].id = "gateway"
  <2>1. CASE port' = p /\ proc[p].state = "listen"
    <3>1. proc[p].id = "gateway"
      BY <2>1 DEF Gateways, Starting
    <3> QED
      BY <1>1, <2>1, <3>1, ProcessEffect, ProcessMoves
  <2>2. CASE ~ (port' = p /\ proc[p].state = "listen")
    <3>1. port' = port
      BY <1>3, <2>2, ProcessMoves
    <3>2. port \in DOMAIN proc /\ proc[port].state = "up" /\ proc[port].id = "gateway"
      BY <1>3, <3>1 DEF Gateways, Listening
    <3>3. port # p
      BY <1>1, <1>3, <3>1, <3>2, ProcessMoves
    <3> QED
      BY <1>1, <3>1, <3>2, <3>3
  <2> QED
    BY <2>1, <2>2
<1> QED
  BY <1>1, <1>2, <1>3 DEF Gateways

(* A command stops processes and starts them; it takes no port.            *)
LEMMA CommandEffect ==
  ASSUME TypeOK, NEW c \in Commands, CommandStep(c)
  PROVE  /\ DOMAIN proc \subseteq DOMAIN proc'
         /\ \A p \in DOMAIN proc :
              /\ proc'[p].id = proc[p].id /\ proc'[p].token = proc[p].token
              /\ \/ proc'[p].state = proc[p].state
                 \/ proc'[p].state = "dead" /\ port' # p
         /\ \A p \in DOMAIN proc' \ DOMAIN proc :
              \/ proc'[p].id = "gateway" /\ proc'[p].state = "boot"
              \/ proc'[p].id \in Runtimes /\ proc'[p].state = "up"
         /\ port' \in {port, 0}
<1>1. \A p \in DOMAIN proc : DOMAIN proc[p] = {"id", "token", "term", "state"}
  <2>1. \A p \in DOMAIN proc : proc[p] \in Process
    BY DEF TypeOK
  <2> QED
    BY <2>1 DEF Process
<1>2. CASE UNCHANGED << proc, port >>
  BY <1>2
<1>3. ASSUME NEW i, NEW x, NewProcess(c, i, x), port' = port,
             \/ i = "gateway" /\ x = "boot"
             \/ i \in Runtimes /\ x = "up"
      PROVE  /\ DOMAIN proc \subseteq DOMAIN proc'
             /\ \A p \in DOMAIN proc : proc'[p] = proc[p]
             /\ \A p \in DOMAIN proc' \ DOMAIN proc : proc'[p].id = i /\ proc'[p].state = x
  <2>1. proc \in Seq(Process)
    BY DEF TypeOK
  <2> QED
    BY <1>3, <2>1 DEF NewProcess
<1>4. CASE Signal(c)
  BY <1>1, <1>4 DEF Signal
<1>5. CASE Await(c)
  <2>1. CASE ~ ProcessAlive(cmd[c].pid)
    BY <1>2, <1>5, <2>1 DEF Await
  <2>2. CASE ProcessAlive(cmd[c].pid)
    <3>1. PICK q : q = cmd[c].pid
      OBVIOUS
    <3>2. /\ q \in DOMAIN proc /\ proc' = [proc EXCEPT ![q].state = "dead"]
          /\ port' = IF port = q THEN 0 ELSE port
      BY <1>5, <2>2, <3>1 DEF Await, Exit, Become, ProcessAlive
    <3>3. q # 0
      BY <3>2 DEF TypeOK
    <3> QED
      BY <1>1, <3>2, <3>3
  <2> QED
    BY <2>1, <2>2
<1>6. CASE StartGateway(c) \/ StartLocalProcess(c)
  BY <1>2, <1>3, <1>6 DEF StartGateway, StartLocalProcess
<1>7. CASE ~ (Signal(c) \/ Await(c) \/ StartGateway(c) \/ StartLocalProcess(c))
  BY <1>2, <1>7 DEF CommandStep, StartNext, SaveState, Health, Stop, Rotate, CreateBootstrap,
                     procVars
<1> QED
  BY <1>4, <1>5, <1>6, <1>7

LEMMA GatewaysStep ==
  ASSUME TypeOK, Listening, Gateways, [Next]_vars
  PROVE  Gateways'
<1>1. ASSUME NEW c \in Commands, CommandStep(c)
      PROVE  Gateways'
  <2>1. \A p \in DOMAIN proc' : proc'[p].state \in Starting => proc'[p].id = "gateway"
    BY <1>1, CommandEffect DEF Gateways, Starting
  <2>2. port' # 0 => port' = port /\ port \in DOMAIN proc
    BY <1>1, CommandEffect DEF Listening
  <2>3. port' # 0 => proc'[port'].state = "up" /\ proc'[port'].id = "gateway"
    BY <1>1, <2>2, CommandEffect DEF Gateways
  <2> QED
    BY <2>1, <2>3 DEF Gateways
<1>2. ASSUME \/ \E c \in Commands : Give(c) \/ CutOff(c)
             \/ PageStep
             \/ UNCHANGED vars
      PROVE  UNCHANGED << proc, port >>
  BY <1>2, PageRest DEF Give, CutOff, vars, procVars
<1>3. CASE UNCHANGED << proc, port >>
  BY <1>3 DEF Gateways
<1> QED
  BY <1>1, <1>2, <1>3, GatewaysProcess DEF Next, PageStep

(* While it is calm there is one gateway, so no other one makes a token.   *)
LEMMA OneGateway ==
  ASSUME TypeOK, Found, calm, NEW p \in Live("gateway"), NEW q \in Live("gateway")
  PROVE  p = q
<1>1. CASE \E c \in Commands : Saving(cmd[c]) /\ cmd[c].id = "gateway"
  BY <1>1 DEF Found, Known
<1>2. CASE \A c \in Commands : Saving(cmd[c]) => cmd[c].id # "gateway"
  BY <1>2, Names DEF Found, Recorded
<1> QED
  BY <1>1, <1>2

LEMMA TokensProcess ==
  ASSUME TypeOK, Listening, Found, Gateways, Tokens, NEW p \in DOMAIN proc, ProcessStep(p)
  PROVE  Tokens'
<1>1. calm' = calm
  BY DEF ProcessStep, LoadToken, CreateToken, OpenStore, Listen, Shutdown, Crash, Reuse,
         restOfProc
<1>2. SUFFICES ASSUME calm, NEW q \in DOMAIN proc', proc'[q].id = "gateway",
                      proc'[q].state \in {"open", "listen", "up"}
               PROVE  Agrees(q)'
  BY <1>1 DEF Tokens
<1>3. q \in DOMAIN proc /\ (q # p => proc'[q] = proc[q])
  BY ProcessEffect
<1>4. CASE q = p
  <2>1. CASE proc[p].state \in {"open", "listen", "up"} /\ proc[p].id = "gateway"
    <3>1. Agrees(p)
      BY <1>2, <2>1 DEF Tokens
    <3> QED
      BY <1>2, <1>4, <2>1, <3>1, ProcessMoves DEF Agrees
  <2>2. CASE ~ (proc[p].state \in {"open", "listen", "up"} /\ proc[p].id = "gateway")
    <3>1. proc'[p].token \in {token', TokenEnv}
      BY <1>2, <1>4, <2>2, ProcessMoves, ProcessEffect DEF Gateways, Starting
    <3> QED
      BY <1>4, <3>1 DEF Agrees
  <2> QED
    BY <2>1, <2>2
<1>5. CASE q # p
  <2>1. Agrees(q) /\ q \in Live("gateway")
    BY <1>2, <1>3, <1>5 DEF Tokens, Live
  <2>2. proc[p].state \notin {"generate", "write"}
    BY <1>2, <1>5, <2>1, OneGateway DEF Gateways, Starting, Live
  <2>3. token' = token
    BY <2>2, ProcessMoves
  <2> QED
    BY <1>3, <1>5, <2>1, <2>3 DEF Agrees
<1> QED
  BY <1>4, <1>5

LEMMA TokensCommand ==
  ASSUME TypeOK, Tokens, NEW c \in Commands, CommandStep(c)
  PROVE  Tokens'
<1>1. /\ calm' = calm
      /\ token' = token \/ token' = Blank \/ token'.by = "command"
  <2>1. CASE Rotate(c)
    BY <2>1 DEF Rotate
  <2>2. CASE ~ Rotate(c)
    BY <2>2 DEF CommandStep, StartNext, StartGateway, StartLocalProcess, SaveState, Health, Stop,
                Signal, Await, CreateBootstrap, restOfCmd, procVars
  <2> QED
    BY <2>1, <2>2
<1>2. SUFFICES ASSUME calm, NEW q \in DOMAIN proc', proc'[q].id = "gateway",
                      proc'[q].state \in {"open", "listen", "up"}
               PROVE  Agrees(q)'
  BY <1>1 DEF Tokens
<1>3. q \in DOMAIN proc
  BY <1>2, CommandEffect, Names
<1>4. proc'[q].token = proc[q].token /\ Agrees(q)
  BY <1>2, <1>3, CommandEffect DEF Tokens
<1> QED
  BY <1>1, <1>4 DEF Agrees

LEMMA TokensStep ==
  ASSUME TypeOK, Listening, Found, Gateways, Tokens, [Next]_vars
  PROVE  Tokens'
<1>1. ASSUME \/ \E c \in Commands : Give(c) \/ CutOff(c)
             \/ PageStep
             \/ UNCHANGED vars
      PROVE  UNCHANGED << proc, token >> /\ (calm' => calm)
  <2>1. UNCHANGED << proc, token >>
    BY <1>1, PageRest DEF Give, CutOff, vars, procVars, restOfCmd
  <2>2. ASSUME NEW c \in Commands, Give(c)
        PROVE  calm' => calm
    <3>1. calm' = (calm /\ \A d \in Commands : cmd[d] = Idle)
      BY <2>2 DEF Give
    <3> QED
      BY <3>1, Zenon
  <2>3. ASSUME NEW c \in Commands, CutOff(c)
        PROVE  calm' => calm
    BY <2>3 DEF CutOff
  <2>4. CASE PageStep \/ UNCHANGED vars
    <3>1. calm' = calm
      BY <2>4, PageRest DEF vars
    <3> QED
      BY <2>1, <3>1, Zenon
  <2>5. CASE \E c \in Commands : Give(c) \/ CutOff(c)
    <3>1. PICK c \in Commands : Give(c) \/ CutOff(c)
      BY <2>5
    <3>2. calm' => calm
      BY <2>2, <2>3, <3>1, Zenon
    <3> QED
      BY <2>1, <3>2, Zenon
  <2> QED
    BY <1>1, <2>4, <2>5
<1>2. CASE UNCHANGED << proc, token >> /\ (calm' => calm)
  BY <1>2 DEF Tokens, Agrees
<1> QED
  BY <1>1, <1>2, TokensProcess, TokensCommand DEF Next, PageStep

-----------------------------------------------------------------------------
(* The invariant of the calm, and the theorems.                            *)
CalmInv == IInv /\ Found /\ Gateways /\ Tokens

LEMMA InitCalm ==
  ASSUME Init
  PROVE  CalmInv
<1>1. IInv
  BY InitIInv
<1>2. DOMAIN proc = {} /\ port = 0
  BY DEF Init
<1>3. Gateways /\ Tokens
  BY <1>2 DEF Gateways, Tokens
<1>4. \A i : Live(i) = {}
  BY <1>2 DEF Live
<1>5. Found
  BY <1>4 DEF Init, Found, Alone, Known, Recorded, Saving, Idle
<1> QED
  BY <1>1, <1>3, <1>5 DEF CalmInv

LEMMA StepCalm ==
  ASSUME CalmInv, [Next]_vars
  PROVE  CalmInv'
BY StepIInv, FoundStep, GatewaysStep, TokensStep DEF CalmInv, IInv

(* Every process that was started is found again by its record, or by the  *)
(* command that writes it.                                                 *)
THEOREM NoOrphanHolds == Spec => []NoOrphan
<1>1. Init => CalmInv
  BY InitCalm
<1>2. CalmInv /\ [Next]_vars => CalmInv'
  BY StepCalm
<1>3. ASSUME CalmInv
      PROVE  NoOrphan
  <2>1. SUFFICES ASSUME calm, NEW p \in DOMAIN proc, ProcessAlive(p), proc[p].id # "other"
                 PROVE  \/ record[proc[p].id].pid = p
                        \/ \E c \in Commands : /\ cmd[c].pc \in {"truncate", "write"}
                                              /\ cmd[c].id = proc[p].id
                                              /\ cmd[c].pid = p
    BY DEF NoOrphan
  <2>2. PICK i : i = proc[p].id
    OBVIOUS
  <2>3. i \in Ids /\ p \in Live(i)
    <3>1. proc[p] \in Process
      BY <1>3 DEF CalmInv, IInv, TypeOK
    <3> QED
      BY <2>1, <2>2, <3>1 DEF Process, Live, ProcessAlive
  <2>4. CASE \E c \in Commands : Saving(cmd[c]) /\ cmd[c].id = i
    BY <1>3, <2>1, <2>2, <2>3, <2>4 DEF CalmInv, Found, Known, Saving
  <2>5. CASE \A c \in Commands : Saving(cmd[c]) => cmd[c].id # i
    BY <1>3, <2>1, <2>2, <2>3, <2>5 DEF CalmInv, Found, Recorded
  <2> QED
    BY <2>4, <2>5
<1> QED
  BY <1>1, <1>2, <1>3, PTL DEF Spec

(* One gateway is at work, the one that still closes included.             *)
THEOREM OneAtWorkHolds == Spec => []OneAtWork
<1>1. Init => CalmInv
  BY InitCalm
<1>2. CalmInv /\ [Next]_vars => CalmInv'
  BY StepCalm
<1>3. ASSUME CalmInv
      PROVE  OneAtWork
  <2>1. SUFFICES ASSUME calm, NEW p \in DOMAIN proc, NEW q \in DOMAIN proc,
                        proc[p].id = "gateway", proc[q].id = "gateway",
                        {proc[p].state, proc[q].state} \subseteq {"up", "closing"}
                 PROVE  p = q
    BY DEF OneAtWork
  <2>2. p \in Live("gateway") /\ q \in Live("gateway")
    BY <2>1 DEF Live
  <2> QED
    BY <1>3, <2>1, <2>2, OneGateway DEF CalmInv, IInv
<1> QED
  BY <1>1, <1>2, <1>3, PTL DEF Spec

(* The file holds the token of the gateway that listens, unless it was     *)
(* rotated or the gateway was given its token by its environment.          *)
THEOREM TokenAgreesHolds == Spec => []TokenAgrees
<1>1. Init => CalmInv
  BY InitCalm
<1>2. CalmInv /\ [Next]_vars => CalmInv'
  BY StepCalm
<1>3. CalmInv => TokenAgrees
  BY DEF CalmInv, IInv, Listening, Gateways, Tokens, Agrees, TokenAgrees
<1> QED
  BY <1>1, <1>2, <1>3, PTL DEF Spec
=============================================================================
