---------------------------- MODULE GatewayProcess ----------------------------
(***************************************************************************)
(* The processes of a project: the gateway and the local runtimes, started *)
(* and stopped by commands that find them through one state file each      *)
(* (internal/lifecycle, internal/cli); the token the gateway is given in   *)
(* its environment, reads or makes when it starts                          *)
(* (internal/gatewayauth/token.go); and the codes by which                 *)
(* `nomici gateway open` hands it to the console (bootstrap.go).           *)
(*                                                                         *)
(* Commands and processes are processes of the operating system and share  *)
(* only files, the port and each other's numbers.  os.WriteFile truncates  *)
(* a file and then writes it: two steps, and a reader in between, or after *)
(* a command that was cut off in between, finds it empty.                  *)
(***************************************************************************)
EXTENDS Integers, Sequences

CONSTANTS
  Commands,     (* command lines that may be at work at the same time      *)
  Runtimes,     (* ids of runtimes of kind local_process                   *)
  MaxProcesses, (* bound: processes started                                *)
  MaxCommands   (* bound: commands given                                   *)

ASSUME RuntimesAssumption == Runtimes \intersect {"gateway", "other"} = {}
ASSUME MaxAssumption == MaxProcesses \in Nat /\ MaxCommands \in Nat

VARIABLES
  proc,      (* processes by number; a number is used again after the end  *)
  port,      (* the process that listens, or 0                             *)
  record,    (* the state file of each id                                  *)
  token,     (* gateway.token                                              *)
  code,      (* gateway.bootstrap.json                                     *)
  cmd,       (* what each command is about to do                           *)
  redeeming, (* requests that have found their code in the file            *)
  entered,   (* codes that a page of the console has come in with          *)
  given,     (* commands given                                             *)
  calm       (* no command was cut off, and no two were at work at once    *)

vars == << proc, port, record, token, code, cmd, redeeming, entered, given, calm >>

Ids == {"gateway"} \union Runtimes

Torn == [status |-> "torn", pid |-> 0]
NoRecord == [status |-> "none", pid |-> 0]
Record == {Torn, NoRecord} \union
  [status : {"running", "start_failed", "stop_requested", "stopped"}, pid : Nat]

(* What a file with a secret holds: who made it, a process or a command,   *)
(* and the number of that.  And the token of NOMICI_GATEWAY_TOKEN.         *)
NoSecret == [by |-> "none", n |-> 0]
Blank == [by |-> "torn", n |-> 0]
TokenEnv == [by |-> "environment", n |-> 0]
Secret == {NoSecret, Blank, TokenEnv} \union [by : {"gateway", "command"}, n : Nat]

Process == [id : Ids \union {"other"}, token : Secret, term : BOOLEAN,
            state : {"boot", "generate", "write", "open", "listen", "up", "closing",
                     "dead"}]
Idle == [pc |-> "idle", n |-> 0, todo |-> {}, id |-> "gateway", pid |-> 0,
         save |-> NoRecord, then |-> "idle"]
Command ==
  [pc : {"idle", "next", "spawn", "truncate", "write", "health", "look", "signal",
         "await", "token", "rotate", "code", "link"},
   n : Nat, todo : SUBSET (Ids \union {"console"}), id : Ids, pid : Nat, save : Record,
   then : {"idle", "next", "look", "health", "signal"}]
Request == [code : Secret, by : Nat]

Init ==
  /\ proc = << >>
  /\ port = 0
  /\ record = [i \in Ids |-> NoRecord]
  /\ token = NoSecret
  /\ code = NoSecret
  /\ cmd = [c \in Commands |-> Idle]
  /\ redeeming = {}
  /\ entered = {}
  /\ given = 0
  /\ calm = TRUE

-----------------------------------------------------------------------------
(* Processes.                                                              *)
procVars == << proc, port, token >>
pageVars == << redeeming, entered >>
restOfProc == << record, code, cmd, pageVars, given, calm >>

ProcessAlive(p) == p \in DOMAIN proc /\ proc[p].state # "dead"
Become(p, s) == proc' = [proc EXCEPT ![p].state = s]
Exit(p) == Become(p, "dead") /\ port' = IF port = p THEN 0 ELSE port

(* initialize: LoadOrCreate.  The environment, if it has a token, goes     *)
(* before the file.  An empty token file ends the process.                 *)
Load(p, secret) == proc' = [proc EXCEPT ![p].state = "open", ![p].token = secret]
LoadToken(p) ==
  /\ proc[p].state = "boot"
  /\ \/ Load(p, TokenEnv)
     \/ token = NoSecret /\ Become(p, "generate")
     \/ token = Blank /\ Become(p, "dead")
     \/ token \notin {NoSecret, Blank} /\ Load(p, token)
  /\ UNCHANGED << port, token, restOfProc >>

(* Mutant of CreateToken: the token is not saved. *)
CreateUnsaved(p) ==
  /\ proc[p].state = "generate"
  /\ proc' = [proc EXCEPT ![p].state = "open",
                          ![p].token = [by |-> "gateway", n |-> p]]
  /\ UNCHANGED << port, token, restOfProc >>

CreateToken(p) ==
  /\ \/ /\ proc[p].state = "generate"
        /\ token' = Blank
        /\ Become(p, "write")
     \/ /\ proc[p].state = "write"
        /\ token' = [by |-> "gateway", n |-> p]
        /\ proc' = [proc EXCEPT ![p].state = "open", ![p].token = token']
  /\ UNCHANGED << port, restOfProc >>

(* The database is opened and migrated in one transaction: it fails, or    *)
(* the next start finds it done.                                           *)
OpenStore(p) ==
  /\ proc[p].state = "open"
  /\ Become(p, "listen") \/ Become(p, "dead")
  /\ UNCHANGED << port, token, restOfProc >>

(* Run: another process may have the port.                                 *)
Listen(p) ==
  /\ proc[p].state = "listen"
  /\ \/ port = 0 /\ port' = p /\ Become(p, "up")
     \/ port # 0 /\ Exit(p)
  /\ UNCHANGED << token, restOfProc >>

(* After SIGTERM: the listener closes first, the process ends when the     *)
(* requests are done or after five seconds.                                *)
Shutdown(p) ==
  /\ proc[p].term
  /\ \/ proc[p].state = "up" /\ Become(p, "closing")
                             /\ port' = IF port = p THEN 0 ELSE port
     \/ proc[p].state = "closing" /\ Exit(p)
  /\ UNCHANGED << token, restOfProc >>

(* A process ends by itself, and another one of the user's gets its number.*)
Crash(p) ==
  /\ ProcessAlive(p)
  /\ Exit(p)
  /\ UNCHANGED << token, restOfProc >>

Reuse(p) ==
  /\ ~ ProcessAlive(p)
  /\ proc' = [proc EXCEPT ![p] = [id |-> "other", token |-> NoSecret, term |-> FALSE,
                                  state |-> "up"]]
  /\ UNCHANGED << port, token, restOfProc >>

ProcessStep(p) ==
  \/ LoadToken(p) \/ CreateToken(p) \/ OpenStore(p) \/ Listen(p)
  \/ Shutdown(p) \/ Crash(p) \/ Reuse(p)

-----------------------------------------------------------------------------
(* Commands.                                                               *)
restOfCmd == << code, pageVars, token, given >>

Step(c, k) == cmd' = [cmd EXCEPT ![c] = k]
Goto(c, p) == Step(c, [cmd[c] EXCEPT !.pc = p])
(* Write a record and go on.                                               *)
Save(c, r, p) == Step(c, [cmd[c] EXCEPT !.pc = "truncate", !.save = r, !.then = p])
End(c) == Step(c, Idle)

Begin(c, p, ids) == Step(c, [Idle EXCEPT !.pc = p, !.n = given', !.todo = ids])

(* gateway start; up, for the gateway and the runtimes; dev, which opens   *)
(* the console as well.                                                    *)
GiveStart(c) ==
  \E ids \in {{"gateway"}, Ids, Ids \union {"console"}} : Begin(c, "next", ids)

GiveStop(c) == Begin(c, "look", {"gateway"})

(* down is for all that have a record.  ListStates fails when it cannot    *)
(* read one of them.                                                       *)
GiveDown(c) ==
  /\ \A i \in Ids : record[i] # Torn
  /\ Begin(c, "look", {i \in Ids : record[i] # NoRecord})

(* gateway token rotate, gateway open.                                     *)
GiveSecret(c) == \E p \in {"token", "code"} : Begin(c, p, {})

Give(c) ==
  /\ cmd[c] = Idle
  /\ given < MaxCommands
  /\ given' = given + 1
  /\ calm' = (calm /\ \A d \in Commands : cmd[d] = Idle)
  /\ GiveStart(c) \/ GiveStop(c) \/ GiveDown(c) \/ GiveSecret(c)
  /\ UNCHANGED << procVars, record, code, pageVars >>

(* startLocalWorkspace: the gateway first, then the runtimes, unless the   *)
(* project file is not valid.  A process that is alive is left alone.      *)
StartNext(c) ==
  /\ cmd[c].pc = "next"
  /\ \/ "gateway" \notin cmd[c].todo /\ End(c)
     \/ cmd[c].todo = {"console"} /\ Goto(c, "code")
     \/ \E i \in cmd[c].todo \ {"console"} :
          /\ "gateway" \in cmd[c].todo => i = "gateway"
          /\ Step(c, [cmd[c] EXCEPT !.todo = @ \ {i}, !.id = i,
                       !.pc = IF ProcessAlive(record[i].pid) THEN "next" ELSE "spawn"])
  /\ UNCHANGED << procVars, record, restOfCmd, calm >>

NewProcess(c, i, s) ==
  /\ Len(proc) < MaxProcesses
  /\ proc' = Append(proc, [id |-> i, token |-> NoSecret, term |-> FALSE,
                           state |-> s])
  /\ Step(c, [cmd[c] EXCEPT !.pc = "truncate", !.pid = Len(proc) + 1,
               !.save = [status |-> "running", pid |-> Len(proc) + 1],
               !.then = IF i = "gateway" THEN "health" ELSE "next"])

StartGateway(c) ==
  /\ cmd[c].pc = "spawn" /\ cmd[c].id = "gateway"
  /\ \/ NewProcess(c, "gateway", "boot")
     \/ End(c) /\ UNCHANGED proc
  /\ UNCHANGED << port, record, restOfCmd, calm >>

(* A runtime that cannot be started leaves a record of this.               *)
StartLocalProcess(c) ==
  /\ cmd[c].pc = "spawn" /\ cmd[c].id \in Runtimes
  /\ \/ NewProcess(c, cmd[c].id, "up")
     \/ Save(c, [status |-> "start_failed", pid |-> 0], "idle") /\ UNCHANGED proc
     \/ End(c) /\ UNCHANGED proc
  /\ UNCHANGED << port, record, restOfCmd, calm >>

(* SaveState.                                                              *)
SaveState(c) ==
  /\ \/ /\ cmd[c].pc = "truncate"
        /\ record' = [record EXCEPT ![cmd[c].id] = Torn]
        /\ Goto(c, "write")
     \/ /\ cmd[c].pc = "write"
        /\ record' = [record EXCEPT ![cmd[c].id] = cmd[c].save]
        /\ IF cmd[c].then = "idle" THEN End(c) ELSE Goto(c, cmd[c].then)
  /\ UNCHANGED << procVars, restOfCmd, calm >>

(* Mutant of Health: a gateway that is not healthy has no process. *)
HealthForgets(c) ==
  /\ cmd[c].pc = "health"
  /\ \/ port # 0 /\ Goto(c, "next")
     \/ port = 0 /\ Save(c, [status |-> "start_failed", pid |-> 0], "idle")
  /\ UNCHANGED << procVars, record, restOfCmd, calm >>

(* Mutant of Health: a start waits as long as it takes. *)
HealthForEver(c) ==
  /\ cmd[c].pc = "health"
  /\ port # 0
  /\ Goto(c, "next")
  /\ UNCHANGED << procVars, record, restOfCmd, calm >>

(* waitForGatewayHealth asks the port, whoever listens there, and may give *)
(* up while the process is still on its way.                               *)
Health(c) ==
  /\ cmd[c].pc = "health"
  /\ \/ port # 0 /\ Goto(c, "next")
     \/ port = 0 /\ Save(c, [status |-> "start_failed", pid |-> cmd[c].pid], "idle")
  /\ UNCHANGED << procVars, record, restOfCmd, calm >>

(* Stop: the record of the next id.  Without a process there is only the   *)
(* record to correct.                                                      *)
Stop(c) ==
  /\ cmd[c].pc = "look"
  /\ IF cmd[c].todo = {} THEN End(c)
     ELSE \E i \in cmd[c].todo :
       LET r == record[i]
           next == [cmd[c] EXCEPT !.todo = @ \ {i}, !.id = i, !.pid = r.pid,
                                  !.pc = "truncate"]
       IN IF r \in {Torn, NoRecord} THEN End(c)
          ELSE IF ProcessAlive(r.pid)
               THEN Step(c, [next EXCEPT !.save = [r EXCEPT !.status = "stop_requested"],
                                         !.then = "signal"])
               ELSE Step(c, [next EXCEPT !.save = [status |-> "stopped", pid |-> 0],
                                         !.then = "look"])
  /\ UNCHANGED << procVars, record, restOfCmd, calm >>

(* Mutant of Stopped: what ListStates shows is what is written. *)
StoppedStale(c) == Save(c, [status |-> "stale", pid |-> 0], "look")

Stopped(c) == Save(c, [status |-> "stopped", pid |-> 0], "look")

(* SIGTERM, unless the process has ended meanwhile, which is an error.     *)
Signal(c) ==
  /\ cmd[c].pc = "signal"
  /\ IF ProcessAlive(cmd[c].pid)
     THEN proc' = [proc EXCEPT ![cmd[c].pid].term = TRUE] /\ Goto(c, "await")
     ELSE End(c) /\ UNCHANGED proc
  /\ UNCHANGED << port, record, restOfCmd, calm >>

(* Mutant of Await: after two seconds the process counts as stopped. *)
AwaitOnly(c) ==
  /\ cmd[c].pc = "await"
  /\ Stopped(c)
  /\ UNCHANGED << proc, port, record, restOfCmd, calm >>

(* The process has ended, or is killed after two seconds.                  *)
Await(c) ==
  /\ cmd[c].pc = "await"
  /\ Stopped(c)
  /\ IF ProcessAlive(cmd[c].pid) THEN Exit(cmd[c].pid) ELSE UNCHANGED << proc, port >>
  /\ UNCHANGED << record, restOfCmd, calm >>

(* gateway token rotate.                                                   *)
Rotate(c) ==
  /\ \/ cmd[c].pc = "token" /\ token' = Blank /\ Goto(c, "rotate")
     \/ /\ cmd[c].pc = "rotate"
        /\ token' = [by |-> "command", n |-> cmd[c].n]
        /\ End(c)
  /\ UNCHANGED << proc, port, record, code, pageVars, given, calm >>

(* gateway open: a new code replaces the one before, and a browser gets    *)
(* the link.  What is written into a file that was removed meanwhile is    *)
(* lost.                                                                   *)
CreateBootstrap(c) ==
  /\ \/ cmd[c].pc = "code" /\ code' = Blank /\ Goto(c, "link")
     \/ /\ cmd[c].pc = "link"
        /\ code' = IF code = NoSecret THEN NoSecret
                   ELSE [by |-> "command", n |-> cmd[c].n]
        /\ End(c)
  /\ UNCHANGED << procVars, record, pageVars, given, calm >>

(* A command ends wherever it is: it is interrupted, or a file could not   *)
(* be written.                                                             *)
CutOff(c) ==
  /\ cmd[c] # Idle
  /\ End(c)
  /\ calm' = FALSE
  /\ UNCHANGED << procVars, record, restOfCmd >>

CommandStep(c) ==
  \/ StartNext(c) \/ StartGateway(c) \/ StartLocalProcess(c) \/ SaveState(c)
  \/ Health(c) \/ Stop(c) \/ Signal(c) \/ Await(c) \/ Rotate(c) \/ CreateBootstrap(c)

-----------------------------------------------------------------------------
(* bootstrapAuthHandler.  A link may be followed in several pages, several *)
(* times, and the requests overlap: ConsumeBootstrap reads the file, and   *)
(* later removes what is there by then.  The answer is the gateway's own   *)
(* token.  A request whose code is not in the file changes nothing.        *)
restOfPages == << procVars, record, cmd, given, calm >>

ReadCode ==
  /\ port # 0 /\ code \notin {NoSecret, Blank}
  /\ redeeming' = redeeming \union {[code |-> code, by |-> port]}
  /\ UNCHANGED << code, entered, restOfPages >>

(* A gateway answers as long as it works, after SIGTERM too.  There may be *)
(* more requests like r.                                                   *)
Answers(r) ==
  /\ ProcessAlive(r.by) /\ proc[r.by].id = "gateway"
  /\ redeeming' \in {redeeming, redeeming \ {r}}

(* The code has expired: the file is removed, the request refused.         *)
Expire(r) ==
  /\ Answers(r)
  /\ code' = NoSecret
  /\ UNCHANGED << entered, restOfPages >>

(* Mutant of RemoveCode: the file stays. *)
KeepCode(r) ==
  /\ Answers(r)
  /\ entered' = entered \union {r.code}
  /\ UNCHANGED << code, restOfPages >>

(* It is no error if the file is gone.                                     *)
RemoveCode(r) ==
  /\ Answers(r)
  /\ code' = NoSecret
  /\ entered' = entered \union {r.code}
  /\ UNCHANGED restOfPages

Next ==
  \/ \E p \in DOMAIN proc : ProcessStep(p)
  \/ \E c \in Commands : Give(c) \/ CommandStep(c) \/ CutOff(c)
  \/ ReadCode \/ \E r \in redeeming : Expire(r) \/ RemoveCode(r)

Spec == Init /\ [][Next]_vars

(* A command is at work until it is done; processes may hang.              *)
FairSpec == Spec /\ \A c \in Commands : WF_vars(CommandStep(c))

-----------------------------------------------------------------------------
(* Types; a record never says "stale" or "configured": these are how ps    *)
(* shows what it does not find, not what a command writes.                 *)
TypeOK ==
  /\ proc \in Seq(Process)
  /\ port \in Nat
  /\ record \in [Ids -> Record]
  /\ token \in Secret
  /\ code \in Secret
  /\ cmd \in [Commands -> Command]
  /\ redeeming \subseteq Request
  /\ entered \subseteq Secret
  /\ given \in Nat
  /\ calm \in BOOLEAN

(* As long as no command was cut off or met another one: a process that    *)
(* was started is found again, by the record of its id or by the command   *)
(* that is about to write this record.  So a start never starts a second   *)
(* one, whether the first came up in time or not, and a stop that says     *)
(* "stopped" has left nothing behind.                                      *)
NoOrphan ==
  calm => \A p \in DOMAIN proc :
            ProcessAlive(p) /\ proc[p].id # "other"
            => \/ record[proc[p].id].pid = p
               \/ \E c \in Commands :
                    /\ cmd[c].pc \in {"truncate", "write"}
                    /\ cmd[c].id = proc[p].id
                    /\ cmd[c].pid = p

(* Under the same condition no two gateways work on the database at a time,*)
(* the time in which one that was told to stop still ends its work         *)
(* included.                                                               *)
OneAtWork ==
  calm => \A p, q \in DOMAIN proc :
            /\ proc[p].id = "gateway" /\ proc[q].id = "gateway"
            /\ {proc[p].state, proc[q].state} \subseteq {"up", "closing"}
            => p = q

(* And the token in the file, which the command line reads, is the one of  *)
(* the gateway that listens, unless it was rotated since, or the gateway   *)
(* was given its token in its environment, which the command line reads    *)
(* first as well.                                                          *)
TokenAgrees ==
  calm /\ port # 0 => \/ proc[port].token \in {token, TokenEnv}
                      \/ token = Blank \/ token.by = "command"

(* Once a page has come in with a code, the file never holds that code     *)
(* again, whatever requests still at work remove and commands write: who   *)
(* asks from then on is refused (TestBootstrapTokenIsConsumedOnce).        *)
(* Requests that had read the file by then all come in: nothing joins the  *)
(* read to the removal.                                                    *)
Spent == code \notin entered

(* Every command comes to an end, whatever the processes do.               *)
Ends == \A c \in Commands : cmd[c] # Idle ~> cmd[c] = Idle
=============================================================================
