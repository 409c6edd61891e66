---------------------------- MODULE UpgradeProofs ----------------------------
(***************************************************************************)
(* Proofs about Upgrade, for every number of tasks and requests.           *)
(***************************************************************************)
EXTENDS Upgrade, TLAPS

-----------------------------------------------------------------------------
(* For every timing of the dispatches.                                     *)

\* The statuses are numbers, and the tasks too
LEMMA Numbers ==
    /\ Tasks \subseteq Nat \ {0} /\ 0 \notin Tasks /\ Tasks \subseteq 0..MaxTasks
    /\ Downloading \in 0..4 /\ Downloaded \in 0..4 /\ Running \in 0..4 /\ Completed \in 0..4
  BY UpgradeAssumption DEF Tasks, Downloading, Downloaded, Running, Completed

\* There is room for what is created
LEMMA CreateBound == TypeOK /\ MayCreate => created < MaxTasks
BY UpgradeAssumption DEF TypeOK, MayCreate

\* The timing of the dispatches is chosen at the beginning
LEMMA CalmRigid == [Next]_vars => calm' = calm
BY DEF Next, vars, CommandAccepted, SimulateStep, SimulateCheck, SimulateIsRunning, SimulateSet,
   ExecStep, ExecCheck, ExecId, ExecMark, ExecKind, ExecDownload, ExecDownloaded, ExecInstall,
   ExecReport, ExecFinish, ExecCompleted, ExecLog, ExecVersion, ExecClear, ExecPanic

\* TypeOK is inductive
THEOREM TypeCorrect == Spec => []TypeOK
<1>1. Init => TypeOK
  <2> SUFFICES ASSUME Init PROVE TypeOK
    OBVIOUS
  <2>1. 0 \in 0..MaxTasks /\ 0 \in 0..4 /\ "off" \in ExecPC /\ "virus" \in Kinds
    BY UpgradeAssumption DEF ExecPC, Kinds
  <2> QED BY <2>1 DEF Init, TypeOK
<1>2. TypeOK /\ [Next]_vars => TypeOK'
  <2> SUFFICES ASSUME TypeOK, [Next]_vars PROVE TypeOK'
    OBVIOUS
  <2>0. MayCreate => created < MaxTasks
    BY CreateBound
  <2>1. ASSUME CommandAccepted PROVE TypeOK'
    BY <2>1, Numbers, <2>0, UpgradeAssumption DEF CommandAccepted, NewTask, TypeOK, Tasks,
       Kinds, Components, ExecPC, taskVars, execVars, sentVars
  <2>2. ASSUME NEW r \in Requests, SimulateCheck(r) PROVE TypeOK'
    BY <2>2, Numbers, UpgradeAssumption DEF SimulateCheck, TypeOK, Tasks, Kinds,
       Components, ExecPC, taskVars, execVars, sentVars
  <2>3. ASSUME NEW r \in Requests, SimulateIsRunning(r) PROVE TypeOK'
    BY <2>3, Numbers, UpgradeAssumption DEF SimulateIsRunning, TypeOK, Tasks, Kinds,
       Components, ExecPC, taskVars, execVars, sentVars
  <2>4. ASSUME NEW r \in Requests, SimulateSet(r) PROVE TypeOK'
    BY <2>4, Numbers, <2>0, UpgradeAssumption DEF SimulateSet, NewTask, TypeOK, Tasks,
       Kinds, Components, ExecPC, taskVars, execVars, sentVars
  <2>5. ASSUME NEW e \in Tasks, ExecCheck(e) PROVE TypeOK'
    BY <2>5, Numbers, UpgradeAssumption DEF ExecCheck, Goto, TypeOK, Tasks, Kinds,
       Components, ExecPC, taskVars, execVars, sentVars
  <2>6. ASSUME NEW e \in Tasks, ExecId(e) PROVE TypeOK'
    BY <2>6, Numbers, UpgradeAssumption DEF ExecId, Goto, TypeOK, Tasks, Kinds,
       Components, ExecPC, taskVars, execVars, sentVars
  <2>7. ASSUME NEW e \in Tasks, ExecMark(e) PROVE TypeOK'
    BY <2>7, Numbers, UpgradeAssumption DEF ExecMark, Goto, TypeOK, Tasks, Kinds,
       Components, ExecPC, taskVars, execVars, sentVars
  <2>8. ASSUME NEW e \in Tasks, ExecKind(e) PROVE TypeOK'
    BY <2>8, Numbers, UpgradeAssumption DEF ExecKind, Goto, TypeOK, Tasks, Kinds,
       Components, ExecPC, taskVars, execVars, sentVars
  <2>9. ASSUME NEW e \in Tasks, ExecDownload(e) PROVE TypeOK'
    BY <2>9, Numbers, UpgradeAssumption DEF ExecDownload, ExecReport, TypeOK, Tasks,
       Kinds, Components, ExecPC, taskVars, execVars, sentVars
  <2>10. ASSUME NEW e \in Tasks, ExecDownloaded(e) PROVE TypeOK'
    BY <2>10, Numbers, UpgradeAssumption DEF ExecDownloaded, ExecReport, TypeOK,
       Tasks, Kinds, Components, ExecPC, taskVars, execVars, sentVars
  <2>11. ASSUME NEW e \in Tasks, ExecInstall(e) PROVE TypeOK'
    BY <2>11, Numbers, UpgradeAssumption DEF ExecInstall, ExecReport, TypeOK, Tasks,
       Kinds, Components, ExecPC, taskVars, execVars, sentVars
  <2>12. ASSUME NEW e \in Tasks, ExecFinish(e) PROVE TypeOK'
    BY <2>12, Numbers, UpgradeAssumption DEF ExecFinish, Goto, TypeOK, Tasks, Kinds,
       Components, ExecPC, taskVars, execVars, sentVars
  <2>13. ASSUME NEW e \in Tasks, ExecCompleted(e) PROVE TypeOK'
    <3>1. results' \subseteq (0..MaxTasks) \X (0..MaxTasks)
      BY <2>13 DEF ExecCompleted, TypeOK
    <3>2. shown' \in [Tasks -> 0..4] /\ pc' \in [Tasks -> ExecPC]
      BY <2>13, Numbers DEF ExecCompleted, Goto, TypeOK, ExecPC
    <3> QED BY <2>13, <3>1, <3>2 DEF ExecCompleted, TypeOK, taskVars
  <2>14. ASSUME NEW e \in Tasks, ExecVersion(e) PROVE TypeOK'
    BY <2>14, Numbers, UpgradeAssumption DEF ExecVersion, Goto, TypeOK, Tasks,
       Kinds, Components, ExecPC, taskVars, execVars, sentVars
  <2>15. ASSUME NEW e \in Tasks, ExecClear(e) PROVE TypeOK'
    BY <2>15, Numbers, UpgradeAssumption DEF ExecClear, Goto, TypeOK, Tasks, Kinds,
       Components, ExecPC, taskVars, execVars, sentVars
  <2>16. ASSUME NEW e \in Tasks, ExecPanic(e) PROVE TypeOK'
    BY <2>16, Numbers, UpgradeAssumption DEF ExecPanic, TypeOK, Tasks, Kinds,
       Components, ExecPC, taskVars, execVars, sentVars
  <2>17. ASSUME NEW e \in Tasks, ExecLog(e, "log", "version")
         PROVE  TypeOK'
    BY <2>17, Numbers, UpgradeAssumption DEF ExecLog, Goto, TypeOK, Tasks, Kinds,
       Components, ExecPC, taskVars, execVars, sentVars
  <2>18. ASSUME NEW e \in Tasks, ExecLog(e, "refresh", "clear")
         PROVE  TypeOK'
    BY <2>18, Numbers, UpgradeAssumption DEF ExecLog, Goto, TypeOK, Tasks, Kinds,
       Components, ExecPC, taskVars, execVars, sentVars
  <2>19. CASE UNCHANGED vars
    BY <2>19, Numbers, UpgradeAssumption DEF vars, TypeOK, Tasks, Kinds, Components,
       ExecPC, taskVars, execVars, sentVars
  <2> QED BY <2>1, <2>2, <2>3, <2>4, <2>5, <2>6, <2>7, <2>8, <2>9, <2>10, <2>11, <2>12, <2>13,
    <2>14, <2>15, <2>16, <2>17, <2>18, <2>19
      DEF Next, SimulateStep, ExecStep
<1> QED BY <1>1, <1>2, PTL DEF Spec

\* A task that has IsRunning while it is current got it from an execution that is still
\* at work: the end of any execution clears the current task, and a new one is not running
THEOREM BusyCorrect == Spec => []BusyHasExecution
<1> DEFINE Created == task <= created /\ running \subseteq 0..created
<1>1. Init => BusyHasExecution /\ Created
  BY DEF Init, BusyHasExecution
<1>2. TypeOK /\ BusyHasExecution /\ Created /\ [Next]_vars => BusyHasExecution' /\ Created'
  <2> SUFFICES ASSUME TypeOK, BusyHasExecution, Created, [Next]_vars
               PROVE  BusyHasExecution' /\ Created'
    OBVIOUS
  <2>0. MayCreate => created < MaxTasks
    BY CreateBound
  <2>1. ASSUME CommandAccepted PROVE BusyHasExecution' /\ Created'
    BY <2>1, Numbers, <2>0 DEF CommandAccepted, NewTask, TypeOK, BusyHasExecution, AtWork,
       Tasks, taskVars, execVars, sentVars
  <2>2. ASSUME NEW r \in Requests, SimulateCheck(r) PROVE BusyHasExecution' /\ Created'
    BY <2>2, Numbers DEF SimulateCheck, TypeOK, BusyHasExecution, AtWork, Tasks,
       taskVars, execVars, sentVars
  <2>3. ASSUME NEW r \in Requests, SimulateIsRunning(r) PROVE BusyHasExecution' /\ Created'
    BY <2>3, Numbers DEF SimulateIsRunning, TypeOK, BusyHasExecution, AtWork, Tasks,
       taskVars, execVars, sentVars
  <2>4. ASSUME NEW r \in Requests, SimulateSet(r) PROVE BusyHasExecution' /\ Created'
    BY <2>4, Numbers, <2>0 DEF SimulateSet, NewTask, TypeOK, BusyHasExecution, AtWork,
       Tasks, taskVars, execVars, sentVars
  <2>5. ASSUME NEW e \in Tasks, ExecCheck(e) PROVE BusyHasExecution' /\ Created'
    BY <2>5, Numbers DEF ExecCheck, Goto, TypeOK, BusyHasExecution, AtWork, Tasks,
       taskVars, execVars, sentVars
  <2>6. ASSUME NEW e \in Tasks, ExecId(e) PROVE BusyHasExecution' /\ Created'
    BY <2>6, Numbers DEF ExecId, Goto, TypeOK, BusyHasExecution, AtWork, Tasks,
       taskVars, execVars, sentVars
  <2>7. ASSUME NEW e \in Tasks, ExecMark(e) PROVE BusyHasExecution' /\ Created'
    BY <2>7, Numbers DEF ExecMark, Goto, TypeOK, BusyHasExecution, AtWork, Tasks,
       taskVars, execVars, sentVars
  <2>8. ASSUME NEW e \in Tasks, ExecKind(e) PROVE BusyHasExecution' /\ Created'
    BY <2>8, Numbers DEF ExecKind, Goto, TypeOK, BusyHasExecution, AtWork, Tasks,
       taskVars, execVars, sentVars
  <2>9. ASSUME NEW e \in Tasks, ExecDownload(e) PROVE BusyHasExecution' /\ Created'
    BY <2>9, Numbers DEF ExecDownload, ExecReport, TypeOK, BusyHasExecution, AtWork,
       Tasks, taskVars, execVars, sentVars
  <2>10. ASSUME NEW e \in Tasks, ExecDownloaded(e) PROVE BusyHasExecution' /\ Created'
    BY <2>10, Numbers DEF ExecDownloaded, ExecReport, TypeOK, BusyHasExecution,
       AtWork, Tasks, taskVars, execVars, sentVars
  <2>11. ASSUME NEW e \in Tasks, ExecInstall(e) PROVE BusyHasExecution' /\ Created'
    BY <2>11, Numbers DEF ExecInstall, ExecReport, TypeOK, BusyHasExecution, AtWork,
       Tasks, taskVars, execVars, sentVars
  <2>12. ASSUME NEW e \in Tasks, ExecFinish(e) PROVE BusyHasExecution' /\ Created'
    BY <2>12, Numbers DEF ExecFinish, Goto, TypeOK, BusyHasExecution, AtWork, Tasks,
       taskVars, execVars, sentVars
  <2>13. ASSUME NEW e \in Tasks, ExecCompleted(e) PROVE BusyHasExecution' /\ Created'
    BY <2>13, Numbers DEF ExecCompleted, Goto, TypeOK, BusyHasExecution, AtWork,
       Tasks, taskVars, execVars, sentVars
  <2>14. ASSUME NEW e \in Tasks, ExecVersion(e) PROVE BusyHasExecution' /\ Created'
    BY <2>14, Numbers DEF ExecVersion, Goto, TypeOK, BusyHasExecution, AtWork,
       Tasks, taskVars, execVars, sentVars
  <2>15. ASSUME NEW e \in Tasks, ExecClear(e) PROVE BusyHasExecution' /\ Created'
    BY <2>15, Numbers DEF ExecClear, Goto, TypeOK, BusyHasExecution, AtWork, Tasks,
       taskVars, execVars, sentVars
  <2>16. ASSUME NEW e \in Tasks, ExecPanic(e) PROVE BusyHasExecution' /\ Created'
    BY <2>16, Numbers DEF ExecPanic, TypeOK, BusyHasExecution, AtWork, Tasks,
       taskVars, execVars, sentVars
  <2>17. ASSUME NEW e \in Tasks, ExecLog(e, "log", "version")
         PROVE  BusyHasExecution' /\ Created'
    BY <2>17, Numbers DEF ExecLog, Goto, TypeOK, BusyHasExecution, AtWork, Tasks,
       taskVars, execVars, sentVars
  <2>18. ASSUME NEW e \in Tasks, ExecLog(e, "refresh", "clear")
         PROVE  BusyHasExecution' /\ Created'
    BY <2>18, Numbers DEF ExecLog, Goto, TypeOK, BusyHasExecution, AtWork, Tasks,
       taskVars, execVars, sentVars
  <2>19. CASE UNCHANGED vars
    BY <2>19, Numbers DEF vars, TypeOK, BusyHasExecution, AtWork, Tasks, taskVars,
       execVars, sentVars
  <2> QED BY <2>1, <2>2, <2>3, <2>4, <2>5, <2>6, <2>7, <2>8, <2>9, <2>10, <2>11, <2>12, <2>13,
    <2>14, <2>15, <2>16, <2>17, <2>18, <2>19
      DEF Next, SimulateStep, ExecStep
<1> QED BY <1>1, <1>2, TypeCorrect, PTL DEF Spec

\* The same, with the types
THEOREM BusyInvCorrect == Spec => []BusyInv
BY TypeCorrect, BusyCorrect, PTL DEF BusyInv

-----------------------------------------------------------------------------
(* When dispatches do not fall into the same instant.                      *)

\* The execution of the current task is alone from its dispatch to its end, because
\* every other dispatch in between finds the task running
THEOREM CalmCorrect == Spec => []CalmInv
<1> USE UpgradeAssumption
<1>1. Init => OneAtATime
  BY DEF Init, OneAtATime, OneTask, OwnTask, RequestAlone, InOrder, Fresh, AtWork, Tasks
<1>2. TypeOK /\ CalmInv /\ [Next]_vars => CalmInv'
  <2> SUFFICES ASSUME TypeOK, OneAtATime, calm, [Next]_vars PROVE OneAtATime'
    BY CalmRigid DEF CalmInv
  <2>0. MayCreate => created < MaxTasks
    BY CreateBound
  <2>1. ASSUME CommandAccepted PROVE OneAtATime'
    BY <2>1, <2>0 DEF CommandAccepted, NewTask, TypeOK, OneAtATime, OneTask, OwnTask,
       RequestAlone, InOrder, Fresh, AtWork, Tasks, Settled, MayDispatch,
       Downloading, Downloaded, Running, Completed, taskVars, execVars, sentVars
  <2>2. ASSUME NEW r \in Requests, SimulateCheck(r) PROVE OneAtATime'
    BY <2>2 DEF SimulateCheck, TypeOK, OneAtATime, OneTask, OwnTask, RequestAlone,
       InOrder, Fresh, AtWork, Tasks, Settled, MayDispatch, Downloading, Downloaded,
       Running, Completed, taskVars, execVars, sentVars
  <2>3. ASSUME NEW r \in Requests, SimulateIsRunning(r) PROVE OneAtATime'
    BY <2>3 DEF SimulateIsRunning, TypeOK, OneAtATime, OneTask, OwnTask, RequestAlone,
       InOrder, Fresh, AtWork, Tasks, Settled, MayDispatch, Downloading, Downloaded,
       Running, Completed, taskVars, execVars, sentVars
  <2>4. ASSUME NEW r \in Requests, SimulateSet(r) PROVE OneAtATime'
    BY <2>4, <2>0 DEF SimulateSet, NewTask, TypeOK, OneAtATime, OneTask, OwnTask,
       RequestAlone, InOrder, Fresh, AtWork, Tasks, Settled, MayDispatch,
       Downloading, Downloaded, Running, Completed, taskVars, execVars, sentVars
  <2>5. ASSUME NEW e \in Tasks, ExecCheck(e) PROVE OneAtATime'
    BY <2>5 DEF ExecCheck, Goto, TypeOK, OneAtATime, OneTask, OwnTask, RequestAlone,
       InOrder, Fresh, AtWork, Tasks, Settled, MayDispatch, Downloading, Downloaded,
       Running, Completed, taskVars, execVars, sentVars
  <2>6. ASSUME NEW e \in Tasks, ExecId(e) PROVE OneAtATime'
    BY <2>6 DEF ExecId, Goto, TypeOK, OneAtATime, OneTask, OwnTask, RequestAlone,
       InOrder, Fresh, AtWork, Tasks, Settled, MayDispatch, Downloading, Downloaded,
       Running, Completed, taskVars, execVars, sentVars
  <2>7. ASSUME NEW e \in Tasks, ExecMark(e) PROVE OneAtATime'
    BY <2>7 DEF ExecMark, Goto, TypeOK, OneAtATime, OneTask, OwnTask, RequestAlone,
       InOrder, Fresh, AtWork, Tasks, Settled, MayDispatch, Downloading, Downloaded,
       Running, Completed, taskVars, execVars, sentVars
  <2>8. ASSUME NEW e \in Tasks, ExecKind(e) PROVE OneAtATime'
    BY <2>8 DEF ExecKind, Goto, TypeOK, OneAtATime, OneTask, OwnTask, RequestAlone,
       InOrder, Fresh, AtWork, Tasks, Settled, MayDispatch, Downloading, Downloaded,
       Running, Completed, taskVars, execVars, sentVars
  <2>9. ASSUME NEW e \in Tasks, ExecDownload(e) PROVE OneAtATime'
    <3>1. OneTask' /\ OwnTask' /\ RequestAlone'
      BY <2>9 DEF ExecDownload, ExecReport, TypeOK, OneAtATime, OneTask, OwnTask,
         RequestAlone, AtWork, Tasks, taskVars, execVars, sentVars
    <3>2. InOrder'
      BY <2>9 DEF ExecDownload, ExecReport, TypeOK, OneAtATime, OneTask, OwnTask, InOrder,
         Tasks, Downloading, Downloaded, Running, Completed, taskVars, execVars, sentVars
    <3>3. Fresh'
      BY <2>9 DEF ExecDownload, ExecReport, TypeOK, OneAtATime, OneTask, OwnTask, Fresh,
         Tasks, taskVars, execVars, sentVars
    <3> QED BY <3>1, <3>2, <3>3 DEF OneAtATime
  <2>10. ASSUME NEW e \in Tasks, ExecDownloaded(e) PROVE OneAtATime'
    <3>1. OneTask' /\ OwnTask' /\ RequestAlone'
      BY <2>10 DEF ExecDownloaded, ExecReport, TypeOK, OneAtATime, OneTask, OwnTask,
         RequestAlone, AtWork, Tasks, taskVars, execVars, sentVars
    <3>2. InOrder' /\ Fresh'
      BY <2>10 DEF ExecDownloaded, ExecReport, TypeOK, OneAtATime, OneTask, OwnTask, InOrder,
         Fresh, Tasks, Downloading, Downloaded, Running, Completed, taskVars, execVars, sentVars
    <3> QED BY <3>1, <3>2 DEF OneAtATime
  <2>11. ASSUME NEW e \in Tasks, ExecInstall(e) PROVE OneAtATime'
    BY <2>11 DEF ExecInstall, ExecReport, TypeOK, OneAtATime, OneTask, OwnTask,
       RequestAlone, InOrder, Fresh, AtWork, Tasks, Settled, MayDispatch,
       Downloading, Downloaded, Running, Completed, taskVars, execVars, sentVars
  <2>12. ASSUME NEW e \in Tasks, ExecFinish(e) PROVE OneAtATime'
    BY <2>12 DEF ExecFinish, Goto, TypeOK, OneAtATime, OneTask, OwnTask, RequestAlone,
       InOrder, Fresh, AtWork, Tasks, Settled, MayDispatch, Downloading, Downloaded,
       Running, Completed, taskVars, execVars, sentVars
  <2>13. ASSUME NEW e \in Tasks, ExecCompleted(e) PROVE OneAtATime'
    BY <2>13 DEF ExecCompleted, Goto, TypeOK, OneAtATime, OneTask, OwnTask,
       RequestAlone, InOrder, Fresh, AtWork, Tasks, Settled, MayDispatch,
       Downloading, Downloaded, Running, Completed, taskVars, execVars, sentVars
  <2>14. ASSUME NEW e \in Tasks, ExecVersion(e) PROVE OneAtATime'
    BY <2>14 DEF ExecVersion, Goto, TypeOK, OneAtATime, OneTask, OwnTask, RequestAlone,
       InOrder, Fresh, AtWork, Tasks, Settled, MayDispatch, Downloading, Downloaded,
       Running, Completed, taskVars, execVars, sentVars
  <2>15. ASSUME NEW e \in Tasks, ExecClear(e) PROVE OneAtATime'
    BY <2>15 DEF ExecClear, Goto, TypeOK, OneAtATime, OneTask, OwnTask, RequestAlone,
       InOrder, Fresh, AtWork, Tasks, Settled, MayDispatch, Downloading, Downloaded,
       Running, Completed, taskVars, execVars, sentVars
  <2>16. ASSUME NEW e \in Tasks, ExecPanic(e) PROVE OneAtATime'
    BY <2>16 DEF ExecPanic, TypeOK, OneAtATime, OneTask, OwnTask, RequestAlone,
       InOrder, Fresh, AtWork, Tasks, Settled, MayDispatch, Downloading, Downloaded,
       Running, Completed, taskVars, execVars, sentVars
  <2>17. ASSUME NEW e \in Tasks, ExecLog(e, "log", "version")
         PROVE  OneAtATime'
    BY <2>17 DEF ExecLog, Goto, TypeOK, OneAtATime, OneTask, OwnTask, RequestAlone,
       InOrder, Fresh, AtWork, Tasks, Settled, MayDispatch, Downloading, Downloaded,
       Running, Completed, taskVars, execVars, sentVars
  <2>18. ASSUME NEW e \in Tasks, ExecLog(e, "refresh", "clear")
         PROVE  OneAtATime'
    BY <2>18 DEF ExecLog, Goto, TypeOK, OneAtATime, OneTask, OwnTask, RequestAlone,
       InOrder, Fresh, AtWork, Tasks, Settled, MayDispatch, Downloading, Downloaded,
       Running, Completed, taskVars, execVars, sentVars
  <2>19. CASE UNCHANGED vars
    BY <2>19 DEF vars, TypeOK, OneAtATime, OneTask, OwnTask, RequestAlone, InOrder,
       Fresh, AtWork, Tasks, Settled, MayDispatch, Downloading, Downloaded, Running,
       Completed, taskVars, execVars, sentVars
  <2> QED BY <2>1, <2>2, <2>3, <2>4, <2>5, <2>6, <2>7, <2>8, <2>9, <2>10, <2>11,
      <2>12, <2>13, <2>14, <2>15, <2>16, <2>17, <2>18, <2>19 DEF Next, SimulateStep,
      ExecStep
<1>3. OneAtATime => CalmInv
  BY DEF CalmInv
<1> QED BY <1>1, <1>2, <1>3, TypeCorrect, PTL DEF Spec

\* Without overlap no execution meets a nil task
THEOREM NoPanicCorrect == Spec => []NoPanic
<1>1. Init => NoPanic
  BY DEF Init, NoPanic
<1>2. TypeOK /\ CalmInv /\ NoPanic /\ [Next]_vars => NoPanic'
  <2> SUFFICES ASSUME TypeOK, OneAtATime, ~crashed, [Next]_vars PROVE ~crashed'
    BY CalmRigid DEF CalmInv, NoPanic
  <2>1. ASSUME NEW e \in Tasks, ExecPanic(e) PROVE FALSE
    BY <2>1, Numbers DEF ExecPanic, OneAtATime, OneTask
  <2>2. ASSUME NEW e \in Tasks, ExecStep(e) PROVE ~crashed'
    BY <2>1, <2>2 DEF ExecStep, ExecCheck, ExecId, ExecMark, ExecKind, ExecDownload,
       ExecDownloaded, ExecInstall, ExecReport, ExecFinish, ExecCompleted, ExecLog,
       ExecVersion, ExecClear
  <2> QED BY <2>2 DEF Next, SimulateStep, CommandAccepted, SimulateCheck,
             SimulateIsRunning, SimulateSet, vars
<1> QED BY <1>1, <1>2, TypeCorrect, CalmCorrect, PTL DEF Spec

\* Every step of the upgrades is a step of UpgradeService or leaves its variables alone
THEOREM Implements == Spec => ImplementsService
<1> USE UpgradeAssumption
<1>1. Init => Service!Init
  BY DEF Init, Service!Init, Tasks, Kinds, Components
<1>2. TypeOK /\ CalmInv /\ [Next]_vars => [calm => Service!Next]_(Service!vars)
  <2> SUFFICES ASSUME TypeOK, OneAtATime, calm, [Next]_vars
               PROVE  Service!Next \/ UNCHANGED Service!vars
    BY DEF CalmInv
  <2>0. MayCreate => created < MaxTasks
    BY CreateBound
  <2>1. ASSUME CommandAccepted PROVE Service!Next \/ UNCHANGED Service!vars
    <3>1. created + 1 \in Tasks /\ task = 0 /\ task' = created + 1 /\ created' = created + 1
      BY <2>1, <2>0 DEF CommandAccepted, NewTask, TypeOK, OneAtATime, OneTask, OwnTask,
         RequestAlone, InOrder, Fresh, AtWork, Tasks, Settled, MayDispatch,
         Downloading, Downloaded, Running, Completed, taskVars, execVars, sentVars
    <3>2. 1..created' = (1..created) \cup {created + 1} /\ created + 1 \notin 1..created
      BY <3>1 DEF TypeOK
    <3>3. \E s \in {0, 1} : shown' = [shown EXCEPT ![created + 1] = s]
      BY <2>1, <3>1 DEF CommandAccepted, NewTask, TypeOK, OneAtATime, OneTask,
         OwnTask, RequestAlone, InOrder, Fresh, AtWork, Tasks, Settled,
         MayDispatch, Downloading, Downloaded, Running, Completed, taskVars,
         execVars, sentVars
    <3>4. Service!Accept(created + 1)
      BY <2>1, <3>1, <3>2, <3>3 DEF CommandAccepted, NewTask, Service!Accept,
         taskVars, execVars, sentVars
    <3> QED BY <3>1, <3>4 DEF Service!Next
  <2>2. ASSUME NEW r \in Requests, SimulateCheck(r) PROVE Service!Next \/ UNCHANGED Service!vars
    BY <2>2 DEF SimulateCheck, taskVars, execVars, sentVars, Service!vars
  <2>3. ASSUME NEW r \in Requests, SimulateIsRunning(r) PROVE Service!Next \/ UNCHANGED Service!vars
    BY <2>3 DEF SimulateIsRunning, taskVars, execVars, sentVars, Service!vars
  <2>4. ASSUME NEW r \in Requests, SimulateSet(r) PROVE Service!Next \/ UNCHANGED Service!vars
    <3>1. created + 1 \in Tasks /\ task = 0 /\ task' = created + 1 /\ created' = created + 1
      BY <2>4, <2>0 DEF SimulateSet, NewTask, TypeOK, OneAtATime, OneTask, OwnTask,
         RequestAlone, InOrder, Fresh, AtWork, Tasks, Settled, MayDispatch,
         Downloading, Downloaded, Running, Completed, taskVars, execVars, sentVars
    <3>2. 1..created' = (1..created) \cup {created + 1} /\ created + 1 \notin 1..created
      BY <3>1 DEF TypeOK
    <3>3. \E s \in {0, 1} : shown' = [shown EXCEPT ![created + 1] = s]
      BY <2>4, <3>1 DEF SimulateSet, NewTask, TypeOK, OneAtATime, OneTask, OwnTask,
         RequestAlone, InOrder, Fresh, AtWork, Tasks, Settled, MayDispatch,
         Downloading, Downloaded, Running, Completed, taskVars, execVars, sentVars
    <3>4. Service!Accept(created + 1)
      BY <2>4, <3>1, <3>2, <3>3 DEF SimulateSet, NewTask, Service!Accept,
         taskVars, execVars, sentVars
    <3> QED BY <3>1, <3>4 DEF Service!Next
  <2>5. ASSUME NEW e \in Tasks, ExecCheck(e) PROVE Service!Next \/ UNCHANGED Service!vars
    BY <2>5 DEF ExecCheck, Goto, taskVars, execVars, sentVars, Service!vars
  <2>6. ASSUME NEW e \in Tasks, ExecId(e) PROVE Service!Next \/ UNCHANGED Service!vars
    BY <2>6 DEF ExecId, Goto, taskVars, execVars, sentVars, Service!vars
  <2>7. ASSUME NEW e \in Tasks, ExecMark(e) PROVE Service!Next \/ UNCHANGED Service!vars
    BY <2>7 DEF ExecMark, Goto, taskVars, execVars, sentVars, Service!vars
  <2>8. ASSUME NEW e \in Tasks, ExecKind(e) PROVE Service!Next \/ UNCHANGED Service!vars
    BY <2>8 DEF ExecKind, Goto, taskVars, execVars, sentVars, Service!vars
  <2>9. ASSUME NEW e \in Tasks, ExecDownload(e) PROVE Service!Next \/ UNCHANGED Service!vars
    <3>1. pc[e] = "download" /\ task = e /\ id[e] = e /\ task # 0
      BY <2>9, Numbers DEF ExecDownload, ExecReport, OneAtATime, OneTask, OwnTask
    <3>2. Downloading \in 1..3 /\ Downloading >= shown[task]
      BY <3>1 DEF TypeOK, OneAtATime, InOrder, Downloading, Downloaded, Running
    <3>3. shown' = [shown EXCEPT ![task] = Downloading]
      BY <2>9, <3>1 DEF ExecDownload, ExecReport
    <3>4. Service!Report
      BY <2>9, <3>1, <3>2, <3>3 DEF ExecDownload, ExecReport, taskVars, execVars,
         sentVars, Service!Report
    <3> QED BY <3>4 DEF Service!Next
  <2>10. ASSUME NEW e \in Tasks, ExecDownloaded(e) PROVE Service!Next \/ UNCHANGED Service!vars
    <3>1. pc[e] = "downloaded" /\ task = e /\ id[e] = e /\ task # 0
      BY <2>10, Numbers DEF ExecDownloaded, ExecReport, OneAtATime, OneTask, OwnTask
    <3>2. Downloaded \in 1..3 /\ Downloaded >= shown[task]
      BY <3>1 DEF TypeOK, OneAtATime, InOrder, Downloading, Downloaded, Running
    <3>3. shown' = [shown EXCEPT ![task] = Downloaded]
      BY <2>10, <3>1 DEF ExecDownloaded, ExecReport
    <3>4. Service!Report
      BY <2>10, <3>1, <3>2, <3>3 DEF ExecDownloaded, ExecReport, taskVars,
         execVars, sentVars, Service!Report
    <3> QED BY <3>4 DEF Service!Next
  <2>11. ASSUME NEW e \in Tasks, ExecInstall(e) PROVE Service!Next \/ UNCHANGED Service!vars
    <3>1. pc[e] = "install" /\ task = e /\ id[e] = e /\ task # 0
      BY <2>11, Numbers DEF ExecInstall, ExecReport, OneAtATime, OneTask, OwnTask
    <3>2. Running \in 1..3 /\ Running >= shown[task]
      BY <3>1 DEF TypeOK, OneAtATime, InOrder, Downloading, Downloaded, Running
    <3>3. shown' = [shown EXCEPT ![task] = Running]
      BY <2>11, <3>1 DEF ExecInstall, ExecReport
    <3>4. Service!Report
      BY <2>11, <3>1, <3>2, <3>3 DEF ExecInstall, ExecReport, taskVars, execVars,
         sentVars, Service!Report
    <3> QED BY <3>4 DEF Service!Next
  <2>12. ASSUME NEW e \in Tasks, ExecFinish(e) PROVE Service!Next \/ UNCHANGED Service!vars
    BY <2>12 DEF ExecFinish, Goto, taskVars, execVars, sentVars, Service!vars
  <2>13. ASSUME NEW e \in Tasks, ExecCompleted(e) PROVE Service!Next \/ UNCHANGED Service!vars
    <3>1. pc[e] = "report" /\ task = e /\ id[e] = e /\ task # 0
      BY <2>13, Numbers DEF ExecCompleted, OneAtATime, OneTask, OwnTask
    <3>2. shown[task] = 3
      BY <3>1 DEF OneAtATime, InOrder, Running
    <3>3. shown' = [shown EXCEPT ![task] = 4] /\ results' = results \cup {<<task, task>>}
      BY <2>13, <3>1 DEF ExecCompleted, Completed
    <3>4. Service!Complete
      BY <2>13, <3>1, <3>2, <3>3 DEF ExecCompleted, taskVars, execVars, sentVars,
         Service!Complete
    <3> QED BY <3>4 DEF Service!Next
  <2>14. ASSUME NEW e \in Tasks, ExecVersion(e) PROVE Service!Next \/ UNCHANGED Service!vars
    <3>1. CASE kind[task] \in Components
      <4>1. Service!Install
        BY <2>14, <3>1, Numbers DEF ExecVersion, Goto, TypeOK, OneAtATime, OneTask,
           OwnTask, RequestAlone, InOrder, Fresh, AtWork, Tasks, Settled,
           MayDispatch, Downloading, Downloaded, Running, Completed, taskVars,
           execVars, sentVars, Service!Install
      <4> QED BY <4>1 DEF Service!Next
    <3>2. CASE kind[task] \notin Components
      BY <2>14, <3>2 DEF ExecVersion, Goto, taskVars, execVars, sentVars,
         Service!vars
    <3> QED BY <3>1, <3>2
  <2>15. ASSUME NEW e \in Tasks, ExecClear(e) PROVE Service!Next \/ UNCHANGED Service!vars
    <3>1. Service!Release
      BY <2>15, Numbers DEF ExecClear, Goto, TypeOK, OneAtATime, OneTask, OwnTask,
         RequestAlone, InOrder, Fresh, AtWork, Tasks, Settled, MayDispatch,
         Downloading, Downloaded, Running, Completed, taskVars, execVars,
         sentVars, Service!Release
    <3> QED BY <3>1 DEF Service!Next
  <2>16. ASSUME NEW e \in Tasks, ExecPanic(e) PROVE Service!Next \/ UNCHANGED Service!vars
    BY <2>16 DEF ExecPanic, taskVars, execVars, sentVars, Service!vars
  <2>17. ASSUME NEW e \in Tasks, ExecLog(e, "log", "version")
         PROVE  Service!Next \/ UNCHANGED Service!vars
    BY <2>17 DEF ExecLog, Goto, taskVars, execVars, sentVars, Service!vars
  <2>18. ASSUME NEW e \in Tasks, ExecLog(e, "refresh", "clear")
         PROVE  Service!Next \/ UNCHANGED Service!vars
    BY <2>18 DEF ExecLog, Goto, taskVars, execVars, sentVars, Service!vars
  <2>19. CASE UNCHANGED vars
    BY <2>19 DEF vars, taskVars, execVars, sentVars, Service!vars
  <2> QED BY <2>1, <2>2, <2>3, <2>4, <2>5, <2>6, <2>7, <2>8, <2>9, <2>10, <2>11,
      <2>12, <2>13, <2>14, <2>15, <2>16, <2>17, <2>18, <2>19 DEF Next, SimulateStep,
      ExecStep
<1> QED BY <1>1, <1>2, TypeCorrect, CalmCorrect, PTL DEF Spec, ImplementsService
=============================================================================
