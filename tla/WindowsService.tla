--------------------------- MODULE WindowsService ---------------------------
(***************************************************************************)
(* The Windows service: the process that run_service drives through its    *)
(* startup stages, the status file it leaves for `status`, and the         *)
(* commands install, uninstall, start and stop.                            *)
(*                                                                         *)
(* The Service Control Manager is external.  It runs one process at a time *)
(* for the service, believes what the process reports, notices a process   *)
(* that dies without reporting Stopped, passes a stop only to a service    *)
(* that reported Running (no other report accepts controls), and forgets a *)
(* service that is marked for deletion once it is stopped.                 *)
(*                                                                         *)
(* Checkpoints, wait hints, times, addresses and reasons are left out, and *)
(* so are the HTTP demo and the clients (Sessions).                        *)
(***************************************************************************)
EXTENDS Naturals

CONSTANTS
  Pids,   \* the processes the SCM may launch, each once
  NoPid   \* no process

ASSUME NoPidAssumption == NoPid \notin Pids

Stages == {"config", "provider", "bind", "serve"}

\* EXIT_CONFIG, EXIT_PROVIDER, EXIT_BIND, EXIT_SERVE.
ExitCode == [s \in Stages |->
  CASE s = "config" -> 1 [] s = "provider" -> 2 [] s = "bind" -> 3 [] s = "serve" -> 4]

NoError == 0
Aborted == 1067   \* the SCM's code for a process that died without a report

VARIABLES
  pc,       \* what each process does next
  writing,  \* the status it is about to write first
  stop,     \* the watch channel: a stop was sent to the process
  lost,     \* history: a write of its status failed
  failedAt, \* history: the stage in which its startup failed
  file,     \* service-state.json
  ws,       \* the process whose WebSocket listener is open
  scm,      \* the SCM's record: the state, the (last) process and its exit code
  reg,      \* the registration of the service
  adm       \* the command an administrator is running

procVars == <<pc, writing, stop, lost, failedAt>>
vars == <<procVars, file, ws, scm, reg, adm>>

Labels == {"none", "entry", "runtime", "config", "provider", "bind", "announce",
           "running", "serve", "ended", "failed", "closing", "gone"}

NoFile == [state |-> "absent", stage |-> "config", code |-> 0, by |-> NoPid]

\* ServiceStatusFile: by is the pid, which a stopped file leaves out.
Pending(s, p) == [state |-> "start_pending", stage |-> s, code |-> 0, by |-> p]
RunningFile(p) == [state |-> "running", stage |-> "serve", code |-> 0, by |-> p]
Failed(s, p) == [state |-> "failed", stage |-> s, code |-> ExitCode[s], by |-> p]
StoppedFile(p) == [state |-> "stopped", stage |-> "serve", code |-> 0, by |-> p]

Files ==
  {NoFile} \cup {Pending(s, p) : s \in Stages, p \in Pids} \cup {RunningFile(p) : p \in Pids}
    \cup {Failed(s, p) : s \in Stages, p \in Pids} \cup {StoppedFile(p) : p \in Pids}

Steps == {"idle", "query", "control", "delete", "wait", "create", "start"}

ServiceTypeOK ==
  /\ pc \in [Pids -> Labels]
  /\ writing \in [Pids -> Files]
  /\ stop \in [Pids -> BOOLEAN]
  /\ lost \in [Pids -> BOOLEAN]
  /\ failedAt \in [Pids -> Stages]
  /\ file \in Files
  /\ ws \in Pids \cup {NoPid}
  /\ scm \in [state : {"Stopped", "StartPending", "Running"},
              pid : Pids \cup {NoPid}, code : 0..4 \cup {Aborted}]
  /\ reg \in {"no", "yes", "marked"}
  /\ adm \in [cmd : {"none", "start", "stop", "uninstall", "install", "removed"}, step : Steps]

Idle == [cmd |-> "none", step |-> "idle"]

ServiceInit ==
  /\ pc = [p \in Pids |-> "none"]
  /\ writing = [p \in Pids |-> NoFile]
  /\ stop = [p \in Pids |-> FALSE]
  /\ lost = [p \in Pids |-> FALSE]
  /\ failedAt = [p \in Pids |-> "serve"]
  /\ file = NoFile
  /\ ws = NoPid
  /\ scm = [state |-> "Stopped", pid |-> NoPid, code |-> NoError]
  /\ reg = "no"
  /\ adm = Idle

-----------------------------------------------------------------------------
(* write_atomic.  Its errors are ignored by every caller. *)

\* The file beside it is renamed over the target.
Rename(p) ==
  /\ writing[p] # NoFile
  /\ file' = writing[p]
  /\ writing' = [writing EXCEPT ![p] = NoFile]
  /\ UNCHANGED <<pc, stop, lost, failedAt, ws, scm, reg, adm>>

\* The rename is refused, and the target is removed first.
RemoveTarget(p) ==
  /\ writing[p] # NoFile
  /\ file # NoFile
  /\ file' = NoFile
  /\ UNCHANGED <<procVars, ws, scm, reg, adm>>

\* The new file cannot be written, or the last rename is refused too.
WriteFails(p) ==
  /\ writing[p] # NoFile
  /\ writing' = [writing EXCEPT ![p] = NoFile]
  /\ lost' = [lost EXCEPT ![p] = TRUE]
  /\ UNCHANGED <<pc, stop, failedAt, file, ws, scm, reg, adm>>

-----------------------------------------------------------------------------
(* run_service. *)

\* Process p is at the label, with its status written.
At(p, label) == pc[p] = label /\ writing[p] = NoFile

\* The next label, and the status to be written before it.
Goto(p, label, status) ==
  /\ pc' = [pc EXCEPT ![p] = label]
  /\ writing' = [writing EXCEPT ![p] = status]

Report(p, state, code) == scm' = [state |-> state, pid |-> p, code |-> code]

\* The process ends without having reported Stopped.
Dies(p) ==
  /\ Goto(p, "gone", NoFile)
  /\ ws' = IF ws = p THEN NoPid ELSE ws
  /\ Report(p, "Stopped", Aborted)

\* The handler is registered and StartPending reported.
Entry(p) ==
  /\ At(p, "entry")
  /\ Goto(p, "runtime", Pending("config", p))
  /\ Report(p, "StartPending", NoError)
  /\ UNCHANGED <<stop, lost, failedAt, file, ws, reg, adm>>

\* register or Runtime::new fails: service_main only logs the error.
EntryFails(p) ==
  /\ At(p, "entry") \/ At(p, "runtime")
  /\ Dies(p)
  /\ UNCHANGED <<stop, lost, failedAt, file, reg, adm>>

NewRuntime(p) ==
  /\ At(p, "runtime")
  /\ Goto(p, "config", Pending("config", p))
  /\ UNCHANGED <<stop, lost, failedAt, file, ws, scm, reg, adm>>

\* StartupError: the stage of a failure is that of its kind, which is not always
\* the stage the startup had reached.
Fails(p, s) ==
  /\ Goto(p, "failed", Failed(s, p))
  /\ failedAt' = [failedAt EXCEPT ![p] = s]
  /\ UNCHANGED <<stop, lost, file, ws, scm, reg, adm>>

LoadConfig(p) ==
  /\ At(p, "config")
  /\ Goto(p, "provider", Pending("provider", p))
  /\ UNCHANGED <<stop, lost, failedAt, file, ws, scm, reg, adm>>

LoadConfigFails(p) == At(p, "config") /\ Fails(p, "config")

\* Mutant of Resolve: Running is reported as soon as the configuration is good.
ResolveAnnouncing(p) ==
  /\ At(p, "provider")
  /\ Goto(p, "bind", Pending("bind", p))
  /\ Report(p, "Running", NoError)
  /\ UNCHANGED <<stop, lost, failedAt, file, ws, reg, adm>>

\* The default provider has a path and the HTTP address is valid; a library that
\* does not load is replaced by UnavailableProvider.
Resolve(p) ==
  /\ At(p, "provider")
  /\ Goto(p, "bind", Pending("bind", p))
  /\ UNCHANGED <<stop, lost, failedAt, file, ws, scm, reg, adm>>

\* No path for this system, or a bad HTTP address, which is a Config error.
ResolveFails(p) == At(p, "provider") /\ \E s \in {"provider", "config"} : Fails(p, s)

Bind(p) ==
  /\ At(p, "bind")
  /\ ws = NoPid
  /\ ws' = p
  /\ Goto(p, "announce", RunningFile(p))
  /\ UNCHANGED <<stop, lost, failedAt, file, scm, reg, adm>>

\* A bad or refused address, or a port that somebody has.
BindFails(p) == At(p, "bind") /\ Fails(p, "bind")

ReportRunning(p) ==
  /\ At(p, "announce")
  /\ Goto(p, "running", NoFile)
  /\ Report(p, "Running", NoError)
  /\ UNCHANGED <<stop, lost, failedAt, file, ws, reg, adm>>

\* Mutant of EnterServe: the receiver starts from the channel's present value.
EnterServeFresh(p) ==
  /\ At(p, "running")
  /\ Goto(p, "serve", NoFile)
  /\ stop' = [stop EXCEPT ![p] = FALSE]
  /\ UNCHANGED <<lost, failedAt, file, ws, scm, reg, adm>>

\* The sessions are built and the accept loop begins.
EnterServe(p) ==
  /\ At(p, "running")
  /\ Goto(p, "serve", NoFile)
  /\ UNCHANGED <<stop, lost, failedAt, file, ws, scm, reg, adm>>

\* Mutant of ServeReturns: the listener lives as long as the runtime.
ServeReturnsListening(p) ==
  /\ Goto(p, "ended", StoppedFile(p))
  /\ UNCHANGED <<stop, lost, failedAt, file, ws, scm, reg, adm>>

\* serve drops the listener and returns Ok.
ServeReturns(p) ==
  /\ ws' = NoPid
  /\ Goto(p, "ended", StoppedFile(p))
  /\ UNCHANGED <<stop, lost, failedAt, file, scm, reg, adm>>

StopSeen(p) == At(p, "serve") /\ stop[p] /\ ServeReturns(p)

AcceptFails(p) == At(p, "serve") /\ ServeReturns(p)

ReportStopped(p) ==
  /\ At(p, "ended")
  /\ Goto(p, "closing", NoFile)
  /\ Report(p, "Stopped", NoError)
  /\ UNCHANGED <<stop, lost, failedAt, file, ws, reg, adm>>

\* Mutant of ReportFailed: the code of the stage that was reported last.
ReportFailedAsBind(p) ==
  /\ At(p, "failed")
  /\ Goto(p, "closing", NoFile)
  /\ Report(p, "Stopped", ExitCode["bind"])
  /\ UNCHANGED <<stop, lost, failedAt, file, ws, reg, adm>>

ReportFailed(p) ==
  /\ At(p, "failed")
  /\ Goto(p, "closing", NoFile)
  /\ Report(p, "Stopped", ExitCode[failedAt[p]])
  /\ UNCHANGED <<stop, lost, failedAt, file, ws, reg, adm>>

\* Mutant of Exit: a status that could not be written is tried again at the end.
ExitRetrying(p) ==
  /\ At(p, "closing")
  /\ Goto(p, "gone", IF lost[p] THEN StoppedFile(p) ELSE NoFile)
  /\ UNCHANGED <<stop, lost, failedAt, file, ws, scm, reg, adm>>

\* drop(rt) waits for the blocking tasks; then the process ends.
Exit(p) ==
  /\ At(p, "closing")
  /\ Goto(p, "gone", NoFile)
  /\ UNCHANGED <<stop, lost, failedAt, file, ws, scm, reg, adm>>

\* The process is killed, or dies in a vendor library.
Crash(p) ==
  /\ pc[p] \notin {"none", "closing", "gone"}
  /\ Dies(p)
  /\ UNCHANGED <<stop, lost, failedAt, file, reg, adm>>

-----------------------------------------------------------------------------
(* The commands, and the SCM. *)

\* The SCM starts a process: at boot, after a failure, or for a command.
Launches(p) ==
  /\ reg = "yes"
  /\ scm.state = "Stopped"
  /\ pc[p] = "none"
  /\ pc' = [pc EXCEPT ![p] = "entry"]
  /\ Report(p, "StartPending", NoError)
  /\ UNCHANGED <<writing, stop, lost, failedAt, file, ws, reg>>

Launch(p) == Launches(p) /\ UNCHANGED adm

\* The SCM forgets a stopped service that is marked for deletion.
Forget ==
  /\ reg = "marked"
  /\ scm.state = "Stopped"
  /\ reg' = "no"
  /\ UNCHANGED <<procVars, file, ws, scm, adm>>

\* The system shuts down: the handler takes it for a stop.
Shutdown ==
  /\ scm.state = "Running"
  /\ stop' = [stop EXCEPT ![scm.pid] = TRUE]
  /\ UNCHANGED <<pc, writing, lost, failedAt, file, ws, scm, reg, adm>>

AdmAt(step) == adm.step = step
Then(step) == adm' = [adm EXCEPT !.step = step]

\* open_service; install goes on when there is none.
Begin(cmd) ==
  /\ AdmAt("idle")
  /\ reg # "no" \/ cmd = "install"
  /\ adm' = [cmd |-> cmd, step |-> IF cmd = "start" THEN "start"
                                   ELSE IF reg = "no" THEN "create" ELSE "query"]
  /\ UNCHANGED <<procVars, file, ws, scm, reg>>

\* query_status: only a service that is not stopped is told to stop.
Query ==
  /\ AdmAt("query")
  /\ IF scm.state # "Stopped" THEN Then("control")
     ELSE IF adm.cmd = "stop" THEN adm' = Idle ELSE Then("delete")
  /\ UNCHANGED <<procVars, file, ws, scm, reg>>

\* svc.stop(): delivered, or refused; stop returns the error, the others ignore it.
Control ==
  /\ AdmAt("control")
  /\ stop' = IF scm.state = "Running" THEN [stop EXCEPT ![scm.pid] = TRUE] ELSE stop
  /\ IF adm.cmd = "stop" THEN adm' = Idle ELSE Then("delete")
  /\ UNCHANGED <<pc, writing, lost, failedAt, file, ws, scm, reg>>

Delete ==
  /\ AdmAt("delete")
  /\ reg' = IF reg = "yes" THEN "marked" ELSE reg
  /\ Then("wait")
  /\ UNCHANGED <<procVars, file, ws, scm>>

\* wait_until_removed: the service is gone, or eight seconds have passed; the
\* caller cannot tell.
WaitEnds ==
  /\ AdmAt("wait")
  /\ IF adm.cmd = "uninstall" THEN adm' = [cmd |-> "removed", step |-> "idle"] ELSE Then("create")
  /\ UNCHANGED <<procVars, file, ws, scm, reg>>

\* create_service, which a marked registration refuses.
Create ==
  /\ AdmAt("create")
  /\ IF reg = "no" THEN reg' = "yes" /\ Then("start") ELSE reg' = reg /\ adm' = Idle
  /\ UNCHANGED <<procVars, file, ws, scm>>

Start(p) ==
  /\ AdmAt("start")
  /\ Launches(p)
  /\ adm' = Idle

StartFails ==
  /\ AdmAt("start")
  /\ adm' = Idle
  /\ UNCHANGED <<procVars, file, ws, scm, reg>>

-----------------------------------------------------------------------------

ProcessStep(p) ==
  \/ Rename(p) \/ RemoveTarget(p) \/ WriteFails(p)
  \/ Entry(p) \/ EntryFails(p) \/ NewRuntime(p)
  \/ LoadConfig(p) \/ LoadConfigFails(p) \/ Resolve(p) \/ ResolveFails(p)
  \/ Bind(p) \/ BindFails(p) \/ ReportRunning(p) \/ EnterServe(p)
  \/ StopSeen(p) \/ ReportStopped(p) \/ ReportFailed(p)

AdminStep ==
  \/ \E cmd \in {"start", "stop", "uninstall", "install"} : Begin(cmd)
  \/ Query
  \/ Control
  \/ Delete
  \/ WaitEnds
  \/ Create
  \/ \E p \in Pids : Start(p)
  \/ StartFails

ServiceNext ==
  \/ \E p \in Pids : ProcessStep(p)
  \/ \E p \in Pids : AcceptFails(p)
  \/ \E p \in Pids : Exit(p)
  \/ \E p \in Pids : Crash(p)
  \/ \E p \in Pids : Launch(p)
  \/ Forget
  \/ Shutdown
  \/ AdminStep

ServiceSpec == ServiceInit /\ [][ServiceNext]_vars

\* The thread of run_service runs; drop(rt) may wait for ever for a vendor call.
FairService == ServiceSpec /\ \A p \in Pids : WF_vars(ProcessStep(p))

-----------------------------------------------------------------------------
(* Properties. *)

\* A service the SCM shows as Running listens, until it has begun to stop (SVC-01).
RunningListens ==
  scm.state = "Running" => ws = scm.pid \/ pc[scm.pid] = "ended"

\* When the SCM shows Stopped, for whatever reason, no process of the service has
\* the port any more: the next one can bind it at once, although the last one may
\* still be closing its runtime.
PortFreeForNext == scm.state = "Stopped" => ws = NoPid

\* Unless a write failed, what the file tells `status` is what the SCM was told by
\* the same process: running, stopped, or the stage whose exit code was reported.
FileAgreesWithScm ==
  scm.pid \in Pids /\ ~lost[scm.pid] =>
    /\ scm.state = "Running" /\ pc[scm.pid] # "ended" => file = RunningFile(scm.pid)
    /\ scm.state = "Stopped" /\ scm.code = NoError => file = StoppedFile(scm.pid)
    /\ scm.state = "Stopped" /\ scm.code \in 1..4 =>
         file = Failed(failedAt[scm.pid], scm.pid) /\ scm.code = ExitCode[failedAt[scm.pid]]

\* Only the process the SCM is running writes the file: one that is closing or was
\* abandoned by a crash never puts its status over that of its successor.
NewestProcessWrites ==
  [][file' # file => \E p \in Pids :
       writing[p] # NoFile /\ p = scm.pid /\ scm.state # "Stopped"]_vars

\* A stop the service was sent ends it, also if it came before the accept loop.
StopIsHeard ==
  \A p \in Pids : stop[p] ~> scm.pid # p \/ scm.state = "Stopped"

\* A service that ends although nobody stopped it reports a non-zero code, so that
\* the SCM restarts it.
UnaskedEndIsFailure ==
  scm.state = "Stopped" /\ scm.pid \in Pids /\ ~stop[scm.pid] => scm.code # NoError

=============================================================================
