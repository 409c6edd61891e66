------------------------------- MODULE Upgrade -------------------------------
(***************************************************************************)
(* The upgrades of one station (internal/simulator/station.go, from        *)
(* handleUpgradeIssue on, and simulateUpgrade of internal/api/station.go). *)
(* A command CMD108 of the platform, handled by the receive loop, or an    *)
(* HTTP request puts a new task into s.UpgradeTask and spawns              *)
(* ExecuteUpgrade, which reports its progress (CMD109), installs the       *)
(* version and clears s.UpgradeTask.  The execution does not hold on to    *)
(* its task: it dereferences s.UpgradeTask again at every use, so          *)
(* executions that overlap work on each other's tasks.                     *)
(*                                                                         *)
(* Tasks are numbered in the order they are created, and the execution     *)
(* spawned with task t is execution t.  The sleeps between the reports,    *)
(* which Stop cuts short, and the loss of a report on a closed connection  *)
(* change nothing here and are left out.                                   *)
(***************************************************************************)
EXTENDS Naturals

CONSTANTS
    MaxTasks,   \* bound: tasks created
    MaxRacing,  \* bound: those of them when dispatches race
    Requests    \* HTTP goroutines running simulateUpgrade

ASSUME UpgradeAssumption == MaxTasks \in Nat /\ MaxRacing \in 0..MaxTasks

Tasks == 1..MaxTasks

\* What a task installs: the station's own version, a virus library, or nothing
\* when its virusType is none of the station's libraries
Kinds == {"software", "virus", "unknownVirus"}
Components == {"software", "virus"}

VARIABLES
    task,       \* s.UpgradeTask, 0 for nil
    created,    \* tasks created so far
    kind,       \* UpgradeType and VirusType of each task
    running,    \* tasks with IsRunning
    completed,  \* tasks with Status "completed"
    installed,  \* the task whose version each component has, 0 for the initial version
    pc,         \* program counter of each execution
    id,         \* its taskId: the task it reports about
    software,   \* its isSoftware
    hpc,        \* program counter of each HTTP request
    shown,      \* the last status reported for each task id
    results,    \* completion reports: <<task id, task whose version they carry>>
    crashed,    \* an execution dereferenced nil: the process is gone
    calm        \* rigid: a dispatch arrives only when no other one is being taken up

taskVars == <<task, created, kind, running, completed>>
execVars == <<pc, id, software>>
sentVars == <<shown, results>>
vars == <<taskVars, installed, execVars, hpc, sentVars, crashed, calm>>

ExecPC == {"off", "check", "id", "mark", "kind", "download", "downloaded", "install",
           "finish", "report", "log", "version", "refresh", "clear"}

\* The statuses of CMD109 in the order of the flow
Downloading == 1
Downloaded  == 2
Running     == 3
Completed   == 4

\* An operator whose name begins with Faulty is the operation that follows it with a
\* mistake planted in it: no specification uses it, and the property that must catch
\* it is named beside it.

Init ==
    /\ task = 0 /\ created = 0 /\ kind = [t \in Tasks |-> "virus"]
    /\ running = {} /\ completed = {}
    /\ installed = [c \in Components |-> 0]
    /\ pc = [t \in Tasks |-> "off"] /\ id = [t \in Tasks |-> 0]
    /\ software = [t \in Tasks |-> FALSE]
    /\ hpc = [r \in Requests |-> "off"]
    /\ shown = [t \in Tasks |-> 0] /\ results = {}
    /\ crashed = FALSE /\ calm \in BOOLEAN

\* No dispatch is between its decision and the moment its execution sets IsRunning
Settled ==
    /\ \A t \in Tasks : pc[t] \notin {"check", "id", "mark"}
    /\ \A r \in Requests : hpc[r] = "off"

\* A dispatch may arrive, at any time or only when things have settled
MayDispatch == calm => Settled

\* Room for one more task
MayCreate == created < IF calm THEN MaxTasks ELSE MaxRacing

\* s.UpgradeTask = &UpgradeTask{...}; go s.ExecuteUpgrade()
NewTask(k) ==
    /\ MayCreate
    /\ created' = created + 1
    /\ task' = created + 1
    /\ kind' = [kind EXCEPT ![created + 1] = k]
    /\ pc' = [pc EXCEPT ![created + 1] = "check"]
    /\ UNCHANGED <<running, completed, id, software>>

-----------------------------------------------------------------------------
(* Dispatch.                                                               *)

\* A running task is not looked at (NoPanic)
FaultyCommandAccepted ==
    /\ MayDispatch
    /\ \E k \in Kinds : NewTask(k)
    /\ shown' = [shown EXCEPT ![created + 1] = Downloading]
    /\ UNCHANGED <<installed, hpc, results, crashed, calm>>

\* handleUpgradeIssue, in one critical section: accept, report "downloading"
CommandAccepted ==
    /\ MayDispatch
    /\ task \notin running
    /\ \E k \in Kinds : NewTask(k)
    /\ shown' = [shown EXCEPT ![created + 1] = Downloading]
    /\ UNCHANGED <<installed, hpc, results, crashed, calm>>

\* simulateUpgrade: GetUpgradeTask() != nil ...
SimulateCheck(r) ==
    /\ hpc[r] = "off"
    /\ MayDispatch
    /\ hpc' = [hpc EXCEPT ![r] = IF task = 0 THEN "set" ELSE "isRunning"]
    /\ UNCHANGED <<taskVars, installed, execVars, sentVars, crashed, calm>>

\* IsRunning is not looked at (CalmInv)
FaultySimulateIsRunning(r) ==
    /\ hpc[r] = "isRunning"
    /\ hpc' = [hpc EXCEPT ![r] = IF task = 0 THEN "off" ELSE "set"]
    /\ UNCHANGED <<taskVars, installed, execVars, sentVars, crashed, calm>>

\* ... && GetUpgradeTask().IsRunning, on the task that is current by now.  Refused if it is
\* running; if there is none any more the handler panics, and the recovery middleware answers
\* 500
SimulateIsRunning(r) ==
    /\ hpc[r] = "isRunning"
    /\ hpc' = [hpc EXCEPT ![r] = IF task \in running \cup {0} THEN "off" ELSE "set"]
    /\ UNCHANGED <<taskVars, installed, execVars, sentVars, crashed, calm>>

\* SetUpgradeTask, whatever is there by now.  The task has no UpgradeType and is
\* executed as a virus library
SimulateSet(r) ==
    /\ hpc[r] = "set"
    /\ \E k \in Kinds \ {"software"} : NewTask(k)
    /\ hpc' = [hpc EXCEPT ![r] = "off"]
    /\ UNCHANGED <<installed, sentVars, crashed, calm>>

-----------------------------------------------------------------------------
(* ExecuteUpgrade.                                                         *)

Goto(e, label) == pc' = [pc EXCEPT ![e] = label]

\* if s.UpgradeTask == nil { return }
ExecCheck(e) ==
    /\ pc[e] = "check"
    /\ Goto(e, IF task = 0 THEN "off" ELSE "id")
    /\ UNCHANGED <<taskVars, installed, id, software, hpc, sentVars, crashed, calm>>

\* taskId := s.UpgradeTask.TaskID
ExecId(e) ==
    /\ pc[e] = "id"
    /\ task # 0
    /\ id' = [id EXCEPT ![e] = task]
    /\ Goto(e, "mark")
    /\ UNCHANGED <<taskVars, installed, software, hpc, sentVars, crashed, calm>>

\* s.UpgradeTask.IsRunning = true
ExecMark(e) ==
    /\ pc[e] = "mark"
    /\ task # 0
    /\ running' = running \cup {task}
    /\ Goto(e, "kind")
    /\ UNCHANGED <<task, created, kind, completed, installed, id, software, hpc,
                   sentVars, crashed, calm>>

\* isSoftware := ..., and the operation log
ExecKind(e) ==
    /\ pc[e] = "kind"
    /\ task # 0
    /\ software' = [software EXCEPT ![e] = kind[task] = "software"]
    /\ Goto(e, "download")
    /\ UNCHANGED <<taskVars, installed, id, hpc, sentVars, crashed, calm>>

\* A report of the flow: the last one of its stage, or one that more will follow
ExecReport(e, label, status, next) ==
    /\ pc[e] = label
    /\ shown' = [shown EXCEPT ![id[e]] = status]
    /\ pc' \in {pc, [pc EXCEPT ![e] = next]}
    /\ UNCHANGED <<taskVars, installed, id, software, hpc, results, crashed, calm>>

ExecDownload(e) ==
    ExecReport(e, "download", Downloading, IF software[e] THEN "install" ELSE "downloaded")

ExecDownloaded(e) == ExecReport(e, "downloaded", Downloaded, "install")

ExecInstall(e) == ExecReport(e, "install", Running, "finish")

\* s.UpgradeTask.Status = "completed"
ExecFinish(e) ==
    /\ pc[e] = "finish"
    /\ task # 0
    /\ completed' = completed \cup {task}
    /\ Goto(e, "report")
    /\ UNCHANGED <<task, created, kind, running, installed, id, software, hpc,
                   sentVars, crashed, calm>>

\* The completion report: its own task id, the version of the current task if any
ExecCompleted(e) ==
    /\ pc[e] = "report"
    /\ shown' = [shown EXCEPT ![id[e]] = Completed]
    /\ results' = results \cup {<<id[e], task>>}
    /\ Goto(e, "log")
    /\ UNCHANGED <<taskVars, installed, id, software, hpc, crashed, calm>>

\* The operation logs before and after the installation read the current task
ExecLog(e, label, next) ==
    /\ pc[e] = label
    /\ task # 0
    /\ Goto(e, next)
    /\ UNCHANGED <<taskVars, installed, id, software, hpc, sentVars, crashed, calm>>

\* Only software updates are installed (ImplementsService)
FaultyExecVersion(e) ==
    /\ pc[e] = "version"
    /\ task # 0
    /\ installed' = IF kind[task] = "software"
                    THEN [installed EXCEPT ![kind[task]] = task] ELSE installed
    /\ Goto(e, "refresh")
    /\ UNCHANGED <<taskVars, id, software, hpc, sentVars, crashed, calm>>

\* s.Version or the matching entry of s.VirusLibs, in one critical section
ExecVersion(e) ==
    /\ pc[e] = "version"
    /\ task # 0
    /\ installed' = IF kind[task] \in Components
                    THEN [installed EXCEPT ![kind[task]] = task] ELSE installed
    /\ Goto(e, "refresh")
    /\ UNCHANGED <<taskVars, id, software, hpc, sentVars, crashed, calm>>

\* The task is not cleared (BusyHasExecution, Completes)
FaultyExecClear(e) ==
    /\ pc[e] = "clear"
    /\ task # 0
    /\ Goto(e, "off")
    /\ UNCHANGED <<taskVars, installed, id, software, hpc,
                   sentVars, crashed, calm>>

\* s.UpgradeTask.IsRunning = false; s.UpgradeTask = nil
ExecClear(e) ==
    /\ pc[e] = "clear"
    /\ task # 0
    /\ running' = running \ {task}
    /\ task' = 0
    /\ Goto(e, "off")
    /\ UNCHANGED <<created, kind, completed, installed, id, software, hpc,
                   sentVars, crashed, calm>>

\* Any of the dereferences above finds nil
ExecPanic(e) ==
    /\ pc[e] \in {"id", "mark", "kind", "finish", "log", "version", "refresh", "clear"}
    /\ task = 0
    /\ crashed' = TRUE
    /\ UNCHANGED <<taskVars, installed, execVars, hpc, sentVars, calm>>

-----------------------------------------------------------------------------
ExecStep(e) ==
    \/ ExecCheck(e) \/ ExecId(e) \/ ExecMark(e) \/ ExecKind(e)
    \/ ExecDownload(e) \/ ExecDownloaded(e) \/ ExecInstall(e)
    \/ ExecFinish(e) \/ ExecCompleted(e)
    \/ ExecLog(e, "log", "version") \/ ExecVersion(e) \/ ExecLog(e, "refresh", "clear")
    \/ ExecClear(e) \/ ExecPanic(e)

SimulateStep(r) == SimulateCheck(r) \/ SimulateIsRunning(r) \/ SimulateSet(r)

Next ==
    /\ ~crashed
    /\ \/ CommandAccepted
       \/ \E r \in Requests : SimulateStep(r)
       \/ \E e \in Tasks : ExecStep(e)

Spec == Init /\ [][Next]_vars

\* An execution never waits for anything but a timer and the lock
FairSpec == Spec /\ \A e \in Tasks : WF_vars(~crashed /\ ExecStep(e))

-----------------------------------------------------------------------------
(* Properties.                                                             *)

\* Every variable keeps its type
TypeOK ==
    /\ task \in 0..MaxTasks /\ created \in 0..MaxTasks /\ kind \in [Tasks -> Kinds]
    /\ running \subseteq Tasks /\ completed \subseteq Tasks
    /\ installed \in [Components -> 0..MaxTasks]
    /\ pc \in [Tasks -> ExecPC] /\ id \in [Tasks -> 0..MaxTasks]
    /\ software \in [Tasks -> BOOLEAN]
    /\ hpc \in [Requests -> {"off", "isRunning", "set"}]
    /\ shown \in [Tasks -> 0..4] /\ results \subseteq (0..MaxTasks) \X (0..MaxTasks)
    /\ crashed \in BOOLEAN /\ calm \in BOOLEAN

\* Executions that have set IsRunning and not yet cleared the task
AtWork == {e \in Tasks : pc[e] \notin {"off", "check", "id", "mark"}}

\* A task that keeps the station busy has an execution that will clear it: however
\* dispatches and executions overlap, the station does not refuse upgrades for ever
BusyHasExecution == task \in running => AtWork # {}

\* Dispatches and executions that race leave neither a broken task nor a station that is
\* busy for ever
BusyInv == TypeOK /\ BusyHasExecution

\* The execution of a task that was accepted is the only one, and the task is current
\* as long as it runs
OneTask ==
    /\ \A e \in Tasks : pc[e] # "off" => task = e
    /\ task # 0 => task <= created /\ pc[task] # "off"

\* It reports about its own task, which has IsRunning from its mark to its end
OwnTask ==
    /\ \A e \in Tasks : pc[e] \notin {"off", "check", "id"} => id[e] = e
    /\ running = AtWork

\* A request that is being decided is the only one, no execution is being taken up
\* beside it, and it sets a task only when there is none
RequestAlone ==
    \A r \in Requests : hpc[r] # "off" =>
        /\ \A q \in Requests : hpc[q] # "off" => q = r
        /\ \A e \in Tasks : pc[e] \notin {"check", "id", "mark"}
        /\ hpc[r] = "set" => task = 0

\* How far the reports of an execution have come at each label, and that the version
\* is installed before the end
InOrder ==
    \A e \in Tasks :
        /\ pc[e] \in {"check", "id", "mark", "kind", "download"} => shown[e] <= Downloading
        /\ pc[e] = "downloaded" => shown[e] <= Downloaded
        /\ pc[e] = "install" => shown[e] <= Running
        /\ pc[e] \in {"finish", "report"} => shown[e] = Running
        /\ pc[e] \in {"log", "version", "refresh", "clear"} => shown[e] = Completed
        /\ pc[e] \in {"refresh", "clear"} /\ kind[e] \in Components
               => installed[kind[e]] = e

\* A task that was not created has neither execution nor reports
Fresh == \A t \in Tasks : t > created => pc[t] = "off" /\ shown[t] = 0

OneAtATime == OneTask /\ OwnTask /\ RequestAlone /\ InOrder /\ Fresh

\* What holds between dispatches that do not fall into the same instant
CalmInv == calm => OneAtATime

\* When dispatches do not fall into the same instant, the upgrades are what
\* UpgradeService promises: one at a time, reported in order, completed under their
\* own task id and version, installed before the next is accepted
Service == INSTANCE UpgradeService WITH active <- task, accepted <- 1..created
ImplementsService == Service!Init /\ [][calm => Service!Next]_(Service!vars)

\* ... no execution meets a nil task
NoPanic == calm => ~crashed

\* ... and each task accepted is completed and the station becomes ready again
Completes == \A t \in Tasks : (calm /\ t \in 1..created) ~> (t \in completed /\ task # t)
=============================================================================
