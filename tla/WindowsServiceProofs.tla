------------------------ MODULE WindowsServiceProofs ------------------------
(***************************************************************************)
(* The safety properties of WindowsService, proved for any number of       *)
(* restarts.  They rest on one fact: the process the SCM shows as not      *)
(* stopped is the one that is between its entry and its last report, so a  *)
(* process that is still closing has nothing left to write and no port.    *)
(***************************************************************************)
EXTENDS WindowsService, TLAPS

\* Between the entry point and the last report.
Active(p) == pc[p] \notin {"none", "closing", "gone"}

Listening == {"announce", "running", "serve"}

ProcTypeOK ==
  /\ pc \in [Pids -> Labels]
  /\ writing \in [Pids -> Files]
  /\ lost \in [Pids -> BOOLEAN]
  /\ failedAt \in [Pids -> Stages]
  /\ ws \in Pids \cup {NoPid}
  /\ scm \in [state : {"Stopped", "StartPending", "Running"},
              pid : Pids \cup {NoPid}, code : 0..4 \cup {Aborted}]

\* The SCM's process is the active one.
OneActive ==
  /\ \A p \in Pids : Active(p) => scm.pid = p /\ scm.state # "Stopped"
  /\ scm.state # "Stopped" => scm.pid \in Pids /\ Active(scm.pid)

RunningExact ==
  \A p \in Pids : Active(p) =>
    (scm.state = "Running" <=> pc[p] \in {"running", "serve", "ended"})

PortExact == \A p \in Pids : ws = p <=> pc[p] \in Listening

\* What a process writes last before it goes on from a label.
LastStatus(p) ==
  CASE pc[p] \in Listening -> RunningFile(p)
    [] pc[p] = "ended" -> StoppedFile(p)
    [] pc[p] = "failed" -> Failed(failedAt[p], p)
    [] OTHER -> NoFile

WritesExact ==
  \A p \in Pids :
    /\ writing[p] # NoFile => Active(p)
    /\ pc[p] \in {"announce", "ended", "failed"} => writing[p] \in {NoFile, LastStatus(p)}
    /\ pc[p] \in {"running", "serve"} => writing[p] = NoFile

FileExact ==
  \A p \in Pids :
    (/\ pc[p] \in Listening \cup {"ended", "failed"}
     /\ writing[p] = NoFile /\ ~lost[p]) => file = LastStatus(p)

\* What is left when the service has stopped.
EndExact ==
  scm.state = "Stopped" /\ scm.pid \in Pids /\ ~lost[scm.pid] =>
    /\ scm.code = NoError => file = StoppedFile(scm.pid)
    /\ scm.code \in 1..4 =>
         file = Failed(failedAt[scm.pid], scm.pid) /\ scm.code = ExitCode[failedAt[scm.pid]]

SvcInv ==
  /\ ProcTypeOK
  /\ OneActive
  /\ RunningExact
  /\ PortExact
  /\ WritesExact
  /\ FileExact
  /\ EndExact

\* The status files a process writes, and that none of them is the missing file.
LEMMA StatusFiles ==
  ASSUME NEW p \in Pids, NEW s \in Stages
  PROVE  /\ NoFile \in Files
         /\ Pending(s, p) \in Files /\ Pending(s, p) # NoFile
         /\ RunningFile(p) \in Files /\ RunningFile(p) # NoFile
         /\ Failed(s, p) \in Files /\ Failed(s, p) # NoFile
         /\ StoppedFile(p) \in Files /\ StoppedFile(p) # NoFile
<1>1. /\ NoFile \in Files /\ Pending(s, p) \in Files /\ RunningFile(p) \in Files
      /\ Failed(s, p) \in Files /\ StoppedFile(p) \in Files
  BY DEF Files
<1>2. /\ Pending(s, p) # NoFile /\ RunningFile(p) # NoFile
      /\ Failed(s, p) # NoFile /\ StoppedFile(p) # NoFile
  BY DEF Pending, RunningFile, Failed, StoppedFile, NoFile
<1>3. QED BY <1>1, <1>2

\* The exit codes of the stages are 1 to 4.
LEMMA ExitCodes == \A s \in Stages : ExitCode[s] \in 1..4
  BY DEF Stages, ExitCode

\* SvcInv holds before the service is installed.
LEMMA SvcInit == ServiceInit => SvcInv
<1> SUFFICES ASSUME ServiceInit PROVE SvcInv
  OBVIOUS
<1>1. ProcTypeOK
  BY DEF ServiceInit, ProcTypeOK, Labels, Files, Stages, NoError
<1>2. OneActive /\ RunningExact
  BY DEF ServiceInit, OneActive, RunningExact, Active
<1>3. PortExact BY NoPidAssumption DEF ServiceInit, PortExact, Listening
<1>4. WritesExact /\ FileExact
  BY DEF ServiceInit, WritesExact, FileExact, Listening
<1>5. EndExact BY NoPidAssumption DEF ServiceInit, EndExact
<1>6. QED BY <1>1, <1>2, <1>3, <1>4, <1>5 DEF SvcInv

\* SvcInv is kept by every step of a process.
LEMMA SvcProcess ==
  ASSUME SvcInv, NEW p \in Pids,
         ProcessStep(p) \/ AcceptFails(p) \/ Exit(p) \/ Crash(p) \/ Launches(p)
  PROVE  SvcInv'
<1> USE NoPidAssumption, StatusFiles, ExitCodes
    DEF SvcInv, ProcTypeOK, OneActive, RunningExact, PortExact, WritesExact, FileExact,
        EndExact, Active, Listening, LastStatus, Labels, Stages, At, Goto, Report, NoError,
        Aborted, procVars
<1>0. NoFile \in Files BY DEF Files
<1>1. CASE Rename(p)
  BY <1>0, <1>1 DEF Rename
<1>2. CASE RemoveTarget(p)
  BY <1>0, <1>2 DEF RemoveTarget
<1>3. CASE WriteFails(p)
  BY <1>0, <1>3 DEF WriteFails
<1>4. CASE Entry(p)
  BY <1>0, <1>4 DEF Entry
<1>5. CASE EntryFails(p)
  BY <1>0, <1>5 DEF EntryFails, Dies
<1>6. CASE NewRuntime(p)
  BY <1>0, <1>6 DEF NewRuntime
<1>7. CASE LoadConfig(p)
  BY <1>0, <1>7 DEF LoadConfig
<1>8. CASE LoadConfigFails(p)
  BY <1>0, <1>8 DEF LoadConfigFails, Fails
<1>9. CASE Resolve(p)
  BY <1>0, <1>9 DEF Resolve
<1>10. CASE ResolveFails(p)
  BY <1>0, <1>10 DEF ResolveFails, Fails
<1>11. CASE Bind(p)
  BY <1>0, <1>11 DEF Bind
<1>12. CASE BindFails(p)
  BY <1>0, <1>12 DEF BindFails, Fails
<1>13. CASE ReportRunning(p)
  BY <1>0, <1>13 DEF ReportRunning
<1>14. CASE EnterServe(p)
  BY <1>0, <1>14 DEF EnterServe
<1>15. CASE StopSeen(p)
  BY <1>0, <1>15 DEF StopSeen, ServeReturns
<1>16. CASE AcceptFails(p)
  BY <1>0, <1>16 DEF AcceptFails, ServeReturns
<1>17. CASE ReportStopped(p)
  BY <1>0, <1>17 DEF ReportStopped
<1>18. CASE ReportFailed(p)
  BY <1>0, <1>18 DEF ReportFailed
<1>19. CASE Exit(p)
  BY <1>0, <1>19 DEF Exit
<1>20. CASE Crash(p)
  BY <1>0, <1>20 DEF Crash, Dies
<1>21. CASE Launches(p)
  BY <1>0, <1>21 DEF Launches
<1>22. QED
  BY <1>1, <1>2, <1>3, <1>4, <1>5, <1>6, <1>7, <1>8, <1>9, <1>10, <1>11, <1>12, <1>13, <1>14,
     <1>15, <1>16, <1>17, <1>18, <1>19, <1>20, <1>21 DEF ProcessStep

\* SvcInv is kept by the SCM and by the commands: all they do to a process is to
\* start one when none is active, or to send it a stop.
LEMMA SvcStep == SvcInv /\ [ServiceNext]_vars => SvcInv'
<1> SUFFICES ASSUME SvcInv, [ServiceNext]_vars PROVE SvcInv'
  OBVIOUS
<1>1. ASSUME NEW p \in Pids, ProcessStep(p) \/ AcceptFails(p) \/ Exit(p) \/ Crash(p) \/ Launches(p)
      PROVE  SvcInv'
  BY <1>1, SvcProcess
<1>2. ASSUME UNCHANGED <<pc, writing, lost, failedAt, file, ws, scm>> PROVE SvcInv'
  BY <1>2
  DEF SvcInv, ProcTypeOK, OneActive, RunningExact, PortExact, WritesExact, FileExact,
      EndExact, Active, LastStatus
<1>3. CASE AdminStep
  <2>1. ASSUME NEW p \in Pids, Start(p) PROVE SvcInv'
    BY <1>1, <2>1 DEF Start
  <2>2. ASSUME NEW cmd, Begin(cmd) PROVE SvcInv'
    BY <1>2, <2>2 DEF Begin, procVars
  <2>3. CASE Query \/ Control \/ Delete \/ WaitEnds \/ Create \/ StartFails
    BY <1>2, <2>3 DEF Query, Control, Delete, WaitEnds, Create, StartFails, procVars
  <2>4. QED BY <1>3, <2>1, <2>2, <2>3 DEF AdminStep
<1>4. CASE Forget \/ Shutdown
  BY <1>2, <1>4 DEF Forget, Shutdown, procVars
<1>5. CASE UNCHANGED vars
  BY <1>2, <1>5 DEF vars, procVars
<1>6. QED BY <1>1, <1>3, <1>4, <1>5 DEF ServiceNext, Launch

\* SvcInv is an invariant of the service.
LEMMA SvcInvariant == ServiceSpec => []SvcInv
  BY SvcInit, SvcStep, PTL DEF ServiceSpec

-----------------------------------------------------------------------------

\* Running is reported after the listener is bound and never outlives it but for
\* the moment in which the stop itself is reported, in any number of restarts.
THEOREM RunningAlwaysListens == ServiceSpec => []RunningListens
<1>1. SvcInv => RunningListens
  BY DEF SvcInv, RunningListens, OneActive, RunningExact, PortExact, Active, Listening
<1>2. QED BY SvcInvariant, <1>1, PTL

\* No process that the SCM takes for stopped keeps the port from its successor,
\* even one that is still closing its runtime.
THEOREM PortIsFree == ServiceSpec => []PortFreeForNext
<1>1. SvcInv => PortFreeForNext
  BY DEF SvcInv, ProcTypeOK, PortFreeForNext, OneActive, PortExact, Active, Listening
<1>2. QED BY SvcInvariant, <1>1, PTL

\* The status file and the SCM tell the same story of the last process, if its
\* writes succeeded: crashes, failed renames and restarts do not mix them up.
THEOREM FileAgrees == ServiceSpec => []FileAgreesWithScm
<1>1. SvcInv => FileAgreesWithScm
  BY DEF SvcInv, FileAgreesWithScm, OneActive, RunningExact, WritesExact, FileExact,
         EndExact, Active, Listening, LastStatus
<1>2. QED BY SvcInvariant, <1>1, PTL

\* Only the process the SCM is running ever changes the status file.
THEOREM OnlyNewestWrites == ServiceSpec => NewestProcessWrites
<1>1. SvcInv /\ [ServiceNext]_vars =>
        [file' # file => \E p \in Pids :
           writing[p] # NoFile /\ p = scm.pid /\ scm.state # "Stopped"]_vars
  <2> SUFFICES ASSUME SvcInv, [ServiceNext]_vars, file' # file
               PROVE  \E p \in Pids :
                        writing[p] # NoFile /\ p = scm.pid /\ scm.state # "Stopped"
    OBVIOUS
  <2>1. PICK p \in Pids : Rename(p) \/ RemoveTarget(p)
    BY DEF ServiceNext, ProcessStep, WriteFails, Entry, EntryFails, NewRuntime, LoadConfig,
           LoadConfigFails, Resolve, ResolveFails, Fails, Bind, BindFails, ReportRunning,
           EnterServe, StopSeen, AcceptFails, ServeReturns, ReportStopped, ReportFailed,
           Exit, Crash, Launch, Launches, Forget, Shutdown, AdminStep, Begin, Query,
           Control, Delete, WaitEnds, Create, Start, StartFails, vars
  <2>2. writing[p] # NoFile BY <2>1 DEF Rename, RemoveTarget
  <2>3. QED BY <2>2 DEF SvcInv, WritesExact, OneActive
<1>2. QED BY SvcInvariant, <1>1, PTL DEF ServiceSpec, NewestProcessWrites

\* What SvcInv leaves out of the types: the file, the stops and the commands.
CommandTypeOK ==
  /\ stop \in [Pids -> BOOLEAN]
  /\ file \in Files
  /\ reg \in {"no", "yes", "marked"}
  /\ adm \in [cmd : {"none", "start", "stop", "uninstall", "install", "removed"}, step : Steps]

\* Every step of a process, of the SCM and of the commands stays within the types.
THEOREM ServiceTypeCorrect == ServiceSpec => []ServiceTypeOK
<1>1. ServiceInit => CommandTypeOK
  BY DEF ServiceInit, CommandTypeOK, Files, Idle, Steps
<1>2. SvcInv /\ CommandTypeOK /\ [ServiceNext]_vars => CommandTypeOK'
  <2> SUFFICES ASSUME SvcInv, CommandTypeOK, [ServiceNext]_vars PROVE CommandTypeOK'
    OBVIOUS
  <2>1. ASSUME NEW p \in Pids, ProcessStep(p) \/ AcceptFails(p) \/ Exit(p) \/ Crash(p)
        PROVE  file' \in Files /\ UNCHANGED <<stop, reg, adm>>
    <3>1. NoFile \in Files /\ writing[p] \in Files BY DEF Files, SvcInv, ProcTypeOK
    <3>2. QED
      BY <2>1, <3>1
      DEF CommandTypeOK, ProcessStep, Rename, RemoveTarget, WriteFails, Entry, EntryFails,
          NewRuntime, LoadConfig, LoadConfigFails, Resolve, ResolveFails, Fails, Bind,
          BindFails, ReportRunning, EnterServe, StopSeen, AcceptFails, ServeReturns,
          ReportStopped, ReportFailed, Exit, Crash, procVars
  <2>2. ASSUME NEW p \in Pids, Launch(p) \/ Start(p) PROVE CommandTypeOK'
    BY <2>2 DEF Launch, Start, Launches, CommandTypeOK, Idle, Steps
  <2>3. CASE Forget \/ Shutdown
    BY <2>3 DEF Forget, Shutdown, CommandTypeOK, procVars
  <2>4. ASSUME NEW cmd \in {"start", "stop", "uninstall", "install"}, Begin(cmd) PROVE CommandTypeOK'
    BY <2>4 DEF Begin, CommandTypeOK, Steps, procVars
  <2>5. CASE Query \/ Control
    <3>1. adm' = Idle \/ \E x \in Steps : adm' = [adm EXCEPT !.step = x]
      BY <2>5 DEF Query, Control, Then, Steps
    <3>2. adm' \in [cmd : {"none", "start", "stop", "uninstall", "install", "removed"}, step : Steps]
      BY <3>1 DEF CommandTypeOK, Idle, Steps
    <3>3. stop' \in [Pids -> BOOLEAN] /\ UNCHANGED <<file, reg>>
      BY <2>5 DEF Query, Control, CommandTypeOK, procVars
    <3>4. QED BY <3>2, <3>3 DEF CommandTypeOK
  <2>6. CASE Delete \/ WaitEnds
    BY <2>6 DEF Delete, WaitEnds, Then, CommandTypeOK, Steps, procVars
  <2>7. CASE Create \/ StartFails
    BY <2>7 DEF Create, StartFails, Then, Idle, CommandTypeOK, Steps, procVars
  <2>8. CASE UNCHANGED vars
    BY <2>8 DEF vars, procVars, CommandTypeOK
  <2>9. QED
    BY <2>1, <2>2, <2>3, <2>4, <2>5, <2>6, <2>7, <2>8 DEF ServiceNext, AdminStep, CommandTypeOK
<1>3. SvcInv /\ CommandTypeOK => ServiceTypeOK
  BY DEF SvcInv, ProcTypeOK, CommandTypeOK, ServiceTypeOK
<1>4. QED BY <1>1, <1>2, <1>3, SvcInvariant, SvcInit, SvcStep, PTL DEF ServiceSpec

-----------------------------------------------------------------------------
(* Ends that nobody asked for. *)

\* No accept error ends the loop, unless a stop has been sent anyway.
AcceptsUntilStopped == \A p \in Pids : AcceptFails(p) => stop[p]

\* A process that has left its accept loop was told to.
AskedInv ==
  /\ stop \in [Pids -> BOOLEAN]
  /\ \A p \in Pids : pc[p] = "ended" => stop[p]
  /\ UnaskedEndIsFailure

\* A process reports an end without an error only after it has left its loop.
LEMMA AskedProcess ==
  ASSUME SvcInv, AskedInv, NEW p \in Pids,
         ProcessStep(p) \/ AcceptFails(p) \/ Exit(p) \/ Crash(p) \/ Launches(p),
         AcceptFails(p) => stop[p]
  PROVE  AskedInv'
<1> USE DEF AskedInv, UnaskedEndIsFailure, SvcInv, ProcTypeOK, At, Goto, Report, NoError,
            Aborted, procVars
<1>1. CASE Rename(p) \/ RemoveTarget(p) \/ WriteFails(p)
  BY <1>1 DEF Rename, RemoveTarget, WriteFails
<1>2. CASE Entry(p)
  BY <1>2 DEF Entry
<1>3. CASE EntryFails(p) \/ Crash(p)
  BY <1>3 DEF EntryFails, Crash, Dies
<1>4. CASE NewRuntime(p) \/ LoadConfig(p) \/ Resolve(p) \/ Bind(p) \/ EnterServe(p) \/ Exit(p)
  BY <1>4 DEF NewRuntime, LoadConfig, Resolve, Bind, EnterServe, Exit
<1>5. CASE LoadConfigFails(p) \/ ResolveFails(p) \/ BindFails(p)
  <2>1. PICK s \in Stages : Fails(p, s)
    BY <1>5 DEF LoadConfigFails, ResolveFails, BindFails, Stages
  <2>2. QED BY <2>1 DEF Fails
<1>6. CASE ReportRunning(p)
  BY <1>6 DEF ReportRunning
<1>7. CASE StopSeen(p) \/ AcceptFails(p)
  BY <1>7 DEF StopSeen, AcceptFails, ServeReturns
<1>8. CASE ReportStopped(p)
  BY <1>8 DEF ReportStopped
<1>9. CASE ReportFailed(p)
  <2>1. ExitCode[failedAt[p]] \in 1..4 BY ExitCodes
  <2>2. QED BY <1>9, <2>1 DEF ReportFailed
<1>10. CASE Launches(p)
  BY <1>10 DEF Launches
<1>11. QED
  BY <1>1, <1>2, <1>3, <1>4, <1>5, <1>6, <1>7, <1>8, <1>9, <1>10 DEF ProcessStep

\* The SCM and the commands can only add a stop.
LEMMA AskedStep ==
  ASSUME SvcInv, AskedInv, [ServiceNext /\ AcceptsUntilStopped]_vars
  PROVE  AskedInv'
<1>1. ASSUME NEW p \in Pids, ProcessStep(p) \/ AcceptFails(p) \/ Exit(p) \/ Crash(p) \/ Launches(p),
             AcceptsUntilStopped
      PROVE  AskedInv'
  BY <1>1, AskedProcess DEF AcceptsUntilStopped
<1>2. ASSUME UNCHANGED <<pc, scm>>,
             stop' = stop \/ \E p \in Pids : stop' = [stop EXCEPT ![p] = TRUE]
      PROVE  AskedInv'
  BY <1>2 DEF AskedInv, UnaskedEndIsFailure
<1>3. CASE AdminStep /\ AcceptsUntilStopped
  <2>1. ASSUME NEW p \in Pids, Start(p) PROVE AskedInv'
    BY <1>1, <1>3, <2>1 DEF Start
  <2>2. ASSUME NEW cmd, Begin(cmd) PROVE AskedInv'
    BY <1>2, <2>2 DEF Begin, procVars
  <2>3. CASE Query \/ Delete \/ WaitEnds \/ Create \/ StartFails
    BY <1>2, <2>3 DEF Query, Delete, WaitEnds, Create, StartFails, procVars
  <2>4. CASE Control
    BY <1>2, <2>4 DEF Control, SvcInv, OneActive
  <2>5. QED BY <1>3, <2>1, <2>2, <2>3, <2>4 DEF AdminStep
<1>4. CASE Forget \/ Shutdown
  BY <1>2, <1>4 DEF Forget, Shutdown, SvcInv, OneActive, procVars
<1>5. CASE UNCHANGED vars
  BY <1>2, <1>5 DEF vars, procVars
<1>6. QED BY <1>1, <1>3, <1>4, <1>5 DEF ServiceNext, Launch

\* An error of the accept loop is the only end of the service that nobody asked for
\* and that the SCM takes for a success (serve in server/mod.rs returns Ok for it):
\* as long as there is none, every other unasked end, in any stage and after any
\* number of restarts, is reported with a code that makes the SCM restart it.
THEOREM OnlyAcceptErrorsAreSilent ==
  ServiceSpec /\ [][AcceptsUntilStopped]_vars => []UnaskedEndIsFailure
<1>1. ServiceInit => AskedInv
  BY NoPidAssumption DEF ServiceInit, AskedInv, UnaskedEndIsFailure
<1>2. SvcInv /\ AskedInv /\ [ServiceNext]_vars /\ [AcceptsUntilStopped]_vars => AskedInv'
  BY AskedStep
<1>3. AskedInv => UnaskedEndIsFailure BY DEF AskedInv
<1>4. QED BY <1>1, <1>2, <1>3, SvcInvariant, PTL DEF ServiceSpec

=============================================================================
