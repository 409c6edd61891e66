----------------------------- MODULE Generators -----------------------------
(***************************************************************************)
(* The generators of load: audit data in local and in platform mode        *)
(* (internal/api/auditgen.go) and the pressure test                        *)
(* (internal/api/pressure.go).  A start request sets a run going in a      *)
(* goroutine of its own, a stop request closes the channel the run listens *)
(* to.                                                                     *)
(*                                                                         *)
(* What a run and the requests share is a cell: the flag running, the      *)
(* field stopCh and the counters.  Each audit run has a cell of its own,   *)
(* an auditGenTask; all pressure runs share one, the pressureManager.      *)
(* A run reads the field stopCh again before every select, a stop closes   *)
(* the channel and sets the field to nil: a run that was busy at that      *)
(* moment waits on a nil channel from then on, and has missed the stop.    *)
(***************************************************************************)
EXTENDS Integers, FiniteSets

CONSTANTS
    KindSets,       \* the sets of kinds the users of one behaviour start
    Totals,         \* totals they ask for, a number below 1 meaning the default
    Rates,          \* and rates per second
    DefaultTotal,   \* 1000000
    DefaultRate,    \* 1000
    MaxRate,        \* 10000
    TicksPerSecond, \* 10
    PressureSends,  \* what a pressure test sends per tick, over all its stations
    Frequencies,    \* how often per second a pressure test shall tick, 1 for what is below
    Second,         \* 1000000000, in the nanoseconds a ticker counts
    MaxRuns,        \* bound: runs started
    MaxTicks,       \* bound: ticks of a pressure run
    MaxErrors       \* bound: sends of a run that fail

AuditModes == {"local", "platform"}
Kinds == AuditModes \cup {"pressure"}

ASSUME GeneratorsAssumption ==
    /\ KindSets \subseteq SUBSET Kinds
    /\ Totals \subseteq Int /\ Rates \subseteq Int /\ Frequencies \subseteq Int
    /\ {DefaultTotal, DefaultRate, MaxRate, TicksPerSecond} \subseteq Nat \ {0}
    /\ {PressureSends, Second} \subseteq Nat \ {0}
    /\ {MaxRuns, MaxTicks, MaxErrors} \subseteq Nat

Runs == 1..MaxRuns
None == 0

\* The cell of the pressure manager; the cell of an audit run is its own number.  So is the
\* channel a run is started with
Pressure == 0
Cells == 0..MaxRuns
Channels == 0..MaxRuns
Nil == 0

VARIABLES
    cell,     \* what runs and requests share
    tasks,    \* auditGenManager.tasks: the cell of the last run of each mode
    closed,   \* channels that are closed
    started,  \* how many runs were started
    run,      \* each run: where its goroutine is, and what it knows
    stopper,  \* the stop request that holds the lock of the audit manager
    crashed,  \* a goroutine panicked, and the process with it
    kinds,    \* rigid: the kinds of runs that are started
    prompt    \* rigid: TRUE if a stop finds the run waiting and takes no time, and no pressure
              \* test shall tick more often than a ticker can

vars == <<cell, tasks, closed, started, run, stopper, crashed, kinds, prompt>>

NoCell == [running |-> FALSE, stopCh |-> Nil, total |-> 0, sent |-> 0,
           claimSent |-> 0, returnSent |-> 0, errs |-> 0]
NoRun == [pc |-> "off", kind |-> "local", ch |-> Nil, perTick |-> 0, left |-> 0,
          step |-> "first", timed |-> FALSE, ticks |-> 0, mine |-> 0]
NoStop == [pc |-> "idle", todo |-> {}, cell |-> None, seen |-> Nil]

Init ==
    /\ cell = [x \in Cells |-> NoCell]
    /\ tasks = [m \in AuditModes |-> None]
    /\ closed = {} /\ started = 0
    /\ run = [r \in Runs |-> NoRun]
    /\ stopper = NoStop
    /\ crashed = FALSE
    /\ kinds \in KindSets /\ prompt \in BOOLEAN

-----------------------------------------------------------------------------
(* Cells, channels and runs                                                *)

CellOf(r) == IF run[r].kind = "pressure" THEN Pressure ELSE r

Exhausted(r) == run[r].kind \in AuditModes /\ cell[r].sent >= cell[r].total

\* Run r once it has returned
Gone(r) == [NoRun EXCEPT !.kind = run[r].kind]

\* Fault: a run that is stopped finishes its task as well
FaultyClose(ch) ==
    /\ closed' = closed \cup {ch}
    /\ run' = [r \in Runs |-> IF run[r].pc = "parked" /\ run[r].ch = ch
                              THEN [run[r] EXCEPT !.pc = "finish"] ELSE run[r]]

\* close(ch): the runs that wait in a select on it return
Close(ch) ==
    /\ closed' = closed \cup {ch}
    /\ run' = [r \in Runs |-> IF run[r].pc = "parked" /\ run[r].ch = ch
                              THEN Gone(r) ELSE run[r]]

\* The same when the goroutine of run r, which returns, closes it
CloseAndReturn(r, ch) ==
    /\ closed' = closed \cup {ch}
    /\ run' = [s \in Runs |-> IF s = r \/ (run[s].pc = "parked" /\ run[s].ch = ch)
                              THEN Gone(s) ELSE run[s]]

\* Closing nil, or what is closed already
Panics(ch) == ch = Nil \/ ch \in closed

\* Bound, in the behaviours where stops are prompt: the runs of cell x wait
Waiting(x) == prompt => \A r \in Runs : CellOf(r) = x => run[r].pc \in {"off", "parked"}
NotStopping(r) == prompt => stopper.cell # r

-----------------------------------------------------------------------------
(* Starting: startAuditGen, startPressure                                  *)

\* Fault: a negative total is taken as it is
FaultyNormalTotal(n) == IF n = 0 THEN DefaultTotal ELSE n

\* Whatever number is asked for, what counts is within these bounds
NormalTotal(n) == IF n <= 0 THEN DefaultTotal ELSE n

\* The same for the rate, which has a maximum
NormalRate(n) ==
    LET rate == IF n <= 0 THEN DefaultRate ELSE n IN
    IF rate > MaxRate THEN MaxRate ELSE rate

PerTick(rate) ==
    LET n == rate \div TicksPerSecond IN
    IF n < 1 THEN 1 ELSE n

\* A run of the mode is refused while another one runs; it gets a task of its own.  (The
\* host of the platform is not on the list of protected hosts and some station is online,
\* otherwise nothing happens)
StartAuditGen(mode, total, rate) ==
    /\ stopper.pc = "idle" /\ started < MaxRuns /\ mode \in kinds
    /\ ~(tasks[mode] # None /\ cell[tasks[mode]].running)
    /\ LET r == started + 1 IN
          /\ started' = r
          /\ tasks' = [tasks EXCEPT ![mode] = r]
          /\ cell' = [cell EXCEPT ![r] = [NoCell EXCEPT !.running = TRUE, !.stopCh = r,
                                                        !.total = NormalTotal(total)]]
          /\ run' = [run EXCEPT ![r] = [NoRun EXCEPT
                !.pc = IF mode = "platform" THEN "prepare" ELSE "loop",
                !.kind = mode, !.perTick = PerTick(NormalRate(rate))]]
    /\ UNCHANGED <<closed, stopper>>

\* The time between two ticks of a pressure test
Interval(frequency) == Second \div (IF frequency <= 0 THEN 1 ELSE frequency)

\* Fault: the errors of the last test stay
FaultyStartPressure(timed, frequency) ==
    /\ started < MaxRuns /\ "pressure" \in kinds
    /\ prompt => Interval(frequency) > 0
    /\ ~cell[Pressure].running
    /\ started' = started + 1
    /\ cell' = [cell EXCEPT ![Pressure] = [NoCell EXCEPT !.running = TRUE,
                                               !.stopCh = started + 1,
                                               !.errs = cell[Pressure].errs]]
    /\ run' = [run EXCEPT ![started + 1] = [NoRun EXCEPT
                  !.pc = IF Interval(frequency) > 0 THEN "loop" ELSE "ticker",
                  !.kind = "pressure", !.perTick = PressureSends, !.timed = timed]]
    /\ UNCHANGED <<tasks, closed, stopper>>

\* A test, with a duration or without one, takes the manager over and resets its counters
StartPressure(timed, frequency) ==
    /\ started < MaxRuns /\ "pressure" \in kinds
    /\ prompt => Interval(frequency) > 0
    /\ ~cell[Pressure].running
    /\ started' = started + 1
    /\ cell' = [cell EXCEPT ![Pressure] = [NoCell EXCEPT !.running = TRUE,
                                               !.stopCh = started + 1]]
    /\ run' = [run EXCEPT ![started + 1] = [NoRun EXCEPT
                  !.pc = IF Interval(frequency) > 0 THEN "loop" ELSE "ticker",
                  !.kind = "pressure", !.perTick = PressureSends, !.timed = timed]]
    /\ UNCHANGED <<tasks, closed, stopper>>

\* NewTicker panics if there is no time between the ticks, and ends the process
NewTicker(r) ==
    /\ ~crashed /\ run[r].kind = "pressure" /\ run[r].pc = "ticker"
    /\ crashed' = TRUE
    /\ UNCHANGED <<cell, tasks, closed, started, run, stopper, kinds, prompt>>

-----------------------------------------------------------------------------
(* Stopping: stopAuditGen, stopTask, stopPressure                          *)

\* The request names a mode that runs, or none and takes all modes in turn
StopAuditGen ==
    /\ stopper.pc = "idle"
    /\ \/ \E mode \in AuditModes :
             /\ tasks[mode] # None /\ cell[tasks[mode]].running
             /\ stopper' = [NoStop EXCEPT !.pc = "next", !.todo = {tasks[mode]}]
       \/ stopper' = [NoStop EXCEPT !.pc = "next",
                          !.todo = {tasks[mode] : mode \in AuditModes} \ {None}]
    /\ UNCHANGED <<cell, tasks, closed, started, run>>

\* The next task, if it runs still, is marked as stopped, and its field is looked at ...
StopFlag ==
    /\ stopper.pc = "next" /\ stopper.todo # {}
    /\ \E x \in stopper.todo :
          LET stops == cell[x].running /\ cell[x].stopCh # Nil IN
          /\ Waiting(x)
          /\ cell' = [cell EXCEPT ![x].running = FALSE]
          /\ stopper' = [pc |-> IF stops THEN "close" ELSE "next", todo |-> stopper.todo \ {x},
                         cell |-> IF stops THEN x ELSE None,
                         seen |-> IF stops THEN cell[x].stopCh ELSE Nil]
    /\ UNCHANGED <<tasks, closed, started, run>>

\* Fault: the channel is dropped, but not closed
FaultyStopClose ==
    /\ stopper.pc = "close"
    /\ stopper' = [stopper EXCEPT !.pc = "nil"]
    /\ UNCHANGED <<cell, tasks, closed, started, run>>

\* ... and the channel closed: the one seen, or the one the field has by now, as the
\* program happens to be compiled.  A panic ends this request only, without the lock
StopClose ==
    /\ stopper.pc = "close"
    /\ \E ch \in {stopper.seen, cell[stopper.cell].stopCh} :
          IF Panics(ch) THEN stopper' = NoStop /\ UNCHANGED <<closed, run>>
          ELSE Close(ch) /\ stopper' = [stopper EXCEPT !.pc = "nil"]
    /\ UNCHANGED <<cell, tasks, started>>

StopNil ==
    /\ stopper.pc = "nil"
    /\ cell' = [cell EXCEPT ![stopper.cell].stopCh = Nil]
    /\ stopper' = [stopper EXCEPT !.pc = "next", !.cell = None, !.seen = Nil]
    /\ UNCHANGED <<tasks, closed, started, run>>

StopDone ==
    /\ stopper.pc = "next" /\ stopper.todo = {}
    /\ stopper' = NoStop
    /\ UNCHANGED <<cell, tasks, closed, started, run>>

\* Everything about a pressure test happens under the lock of its manager
StopPressure ==
    /\ cell[Pressure].running /\ Waiting(Pressure)
    /\ cell' = [cell EXCEPT ![Pressure].running = FALSE, ![Pressure].stopCh = Nil]
    /\ IF cell[Pressure].stopCh # Nil THEN Close(cell[Pressure].stopCh)
       ELSE UNCHANGED <<closed, run>>
    /\ UNCHANGED <<tasks, started, stopper>>

-----------------------------------------------------------------------------
(* A run: runLocalAuditGen, runPlatformAuditGen, runPressure               *)

Goto(r, label) == run' = [run EXCEPT ![r].pc = label]
Return(r) == run' = [run EXCEPT ![r] = Gone(r)]

\* The platform's database is opened and asked for devices.  If it cannot be reached or has
\* none, the whole total counts as failed
PlatformPrepare(r) ==
    /\ run[r].pc = "prepare"
    /\ \/ Goto(r, "loop") /\ UNCHANGED cell
       \/ /\ cell' = [cell EXCEPT ![r].errs = @ + cell[r].total]
          /\ Goto(r, "finish")
    /\ UNCHANGED <<tasks, closed, started, stopper>>

\* Fault: only the batch looks at the total
FaultyLoop(r) ==
    /\ run[r].pc = "loop"
    /\ run' = [run EXCEPT ![r].pc = "select", ![r].ch = cell[CellOf(r)].stopCh]
    /\ UNCHANGED <<cell, tasks, closed, started, stopper>>

\* An audit run that has sent its total finishes; the others evaluate the channel of the
\* select: the field as it is now
Loop(r) ==
    /\ run[r].pc = "loop"
    /\ IF Exhausted(r) THEN Goto(r, "finish")
       ELSE run' = [run EXCEPT ![r].pc = "select", ![r].ch = cell[CellOf(r)].stopCh]
    /\ UNCHANGED <<cell, tasks, closed, started, stopper>>

\* The select finds the channel closed and the run returns ...
StopSeen(r) ==
    /\ run[r].pc = "select" /\ run[r].ch # Nil /\ run[r].ch \in closed
    /\ Return(r)
    /\ UNCHANGED <<cell, tasks, closed, started, stopper>>

\* ... or finds nothing to do and waits
Park(r) ==
    /\ run[r].pc = "select" /\ (run[r].ch = Nil \/ run[r].ch \notin closed)
    /\ Goto(r, "parked")
    /\ UNCHANGED <<cell, tasks, closed, started, stopper>>

\* Or the ticker is ready, with the channel closed or not
Tick(r) ==
    /\ run[r].pc \in {"select", "parked"} /\ NotStopping(r)
    /\ run[r].kind = "pressure" => run[r].ticks < MaxTicks
    /\ run' = [run EXCEPT ![r].pc = "batch", ![r].left = run[r].perTick, ![r].step = "first",
                          ![r].ticks = IF run[r].kind = "pressure" THEN @ + 1 ELSE @]
    /\ UNCHANGED <<cell, tasks, closed, started, stopper>>

\* A batch ends early when the total is reached
BatchEnd(r) ==
    /\ run[r].pc = "batch" /\ run[r].step = "first"
    /\ run[r].left = 0 \/ Exhausted(r)
    /\ Goto(r, "loop")
    /\ UNCHANGED <<cell, tasks, closed, started, stopper>>

\* Fault: a batch goes on to its end
FaultySending(r) ==
    /\ run[r].pc = "batch"
    /\ run[r].step = "first" => run[r].left > 0

\* One more is to be sent
Sending(r) ==
    /\ run[r].pc = "batch"
    /\ run[r].step = "first" => run[r].left > 0 /\ ~Exhausted(r)

\* It goes on with the step, or with the next message of the batch
StepTo(r, step, count) ==
    run' = [run EXCEPT ![r].step = step,
                       ![r].mine = IF run[r].kind = "pressure" THEN @ + count ELSE @,
                       ![r].left = IF step = "first" THEN @ - 1 ELSE @]

\* The turn of a station that is not online is lost
SkipOffline(r) ==
    /\ Sending(r) /\ run[r].step = "first"
    /\ StepTo(r, "first", 0)
    /\ UNCHANGED <<cell, tasks, closed, started, stopper>>

\* Fault: the failure to return the device is not counted
FaultySendFails(r) ==
    /\ Sending(r) /\ cell[CellOf(r)].errs < MaxErrors
    /\ cell' = [cell EXCEPT ![CellOf(r)].errs = IF run[r].step = "return" THEN @ ELSE @ + 1]
    /\ StepTo(r, "first", 1)
    /\ UNCHANGED <<tasks, closed, started, stopper>>

\* A message, or a step of a platform cycle, fails: it is counted and the next one begins,
\* whatever has been sent of this one
SendFails(r) ==
    /\ Sending(r) /\ cell[CellOf(r)].errs < MaxErrors
    /\ cell' = [cell EXCEPT ![CellOf(r)].errs = @ + 1]
    /\ StepTo(r, "first", 1)
    /\ UNCHANGED <<tasks, closed, started, stopper>>

\* A message of a local run or of a pressure test is sent
SendOne(r) ==
    /\ Sending(r) /\ run[r].kind # "platform"
    /\ cell' = [cell EXCEPT ![CellOf(r)].sent = @ + 1]
    /\ StepTo(r, "first", 1)
    /\ UNCHANGED <<tasks, closed, started, stopper>>

\* A platform cycle inserts an application record and has it verified (CMD103), claims the
\* device (CMD104) and returns it (CMD105)
SendStep(r) ==
    /\ Sending(r) /\ run[r].kind = "platform"
    /\ \/ run[r].step = "first" /\ StepTo(r, "claim", 0) /\ UNCHANGED cell
       \/ /\ run[r].step = "claim" /\ StepTo(r, "return", 0)
          /\ cell' = [cell EXCEPT ![r].claimSent = @ + 1]
       \/ /\ run[r].step = "return" /\ StepTo(r, "first", 1)
          /\ cell' = [cell EXCEPT ![r].returnSent = @ + 1, ![r].sent = @ + 1]
    /\ UNCHANGED <<tasks, closed, started, stopper>>

\* The time of a pressure test is up: it goes for the lock ...
Deadline(r) ==
    /\ run[r].pc \in {"select", "parked"} /\ run[r].timed
    /\ Goto(r, "expire")
    /\ UNCHANGED <<cell, tasks, closed, started, stopper>>

\* ... and ends the test the manager has by then
Expire(r) ==
    /\ run[r].pc = "expire"
    /\ cell' = [cell EXCEPT ![Pressure].running = FALSE, ![Pressure].stopCh = Nil]
    /\ IF cell[Pressure].stopCh # Nil THEN CloseAndReturn(r, cell[Pressure].stopCh)
       ELSE Return(r) /\ UNCHANGED closed
    /\ UNCHANGED <<tasks, started, stopper>>

-----------------------------------------------------------------------------
(* finishTask: as stopTask, but without the lock                           *)

FinishFlag(r) ==
    /\ run[r].pc = "finish"
    /\ cell' = [cell EXCEPT ![r].running = FALSE]
    /\ IF cell[r].stopCh = Nil THEN Return(r)
       ELSE run' = [run EXCEPT ![r].ch = cell[r].stopCh, ![r].pc = "close"]
    /\ UNCHANGED <<tasks, closed, started, stopper>>

\* A panic here ends the process
FinishClose(r) ==
    /\ ~crashed /\ run[r].pc = "close"
    /\ \E ch \in {run[r].ch, cell[r].stopCh} :
          IF Panics(ch) THEN crashed' = TRUE /\ UNCHANGED <<closed, run>>
          ELSE closed' = closed \cup {ch} /\ Goto(r, "nil") /\ UNCHANGED crashed
    /\ UNCHANGED <<cell, tasks, started, stopper, kinds, prompt>>

FinishNil(r) ==
    /\ run[r].pc = "nil"
    /\ cell' = [cell EXCEPT ![r].stopCh = Nil]
    /\ Return(r)
    /\ UNCHANGED <<tasks, closed, started, stopper>>

-----------------------------------------------------------------------------
Requests ==
    \/ \E mode \in AuditModes, total \in Totals, rate \in Rates :
          StartAuditGen(mode, total, rate)
    \/ \E timed \in BOOLEAN, frequency \in Frequencies : StartPressure(timed, frequency)
    \/ StopAuditGen \/ StopPressure

Stopping == StopFlag \/ StopClose \/ StopNil \/ StopDone

\* What run r does on its own, apart from sending
Proceed(r) ==
    \/ PlatformPrepare(r) \/ Loop(r) \/ StopSeen(r) \/ Park(r) \/ Tick(r) \/ BatchEnd(r)
    \/ FinishFlag(r) \/ FinishNil(r)
    \/ Expire(r)

\* Sending goes well
Send(r) == SendOne(r) \/ SendStep(r)

\* The process lives on
Alive == ~crashed /\ UNCHANGED <<crashed, kinds, prompt>>

Next ==
    \/ Alive /\ (Requests \/ Stopping)
    \/ \E r \in Runs :
          \/ Alive /\ (Proceed(r) \/ Send(r) \/ SendFails(r) \/ SkipOffline(r) \/ Deadline(r))
          \/ FinishClose(r) \/ NewTicker(r)

Spec == Init /\ [][Next]_vars

\* One message, or step of a cycle, more is behind the run
Attempt(r) == Send(r) \/ SendFails(r) \/ SkipOffline(r)

\* Goroutines and requests go on, timers fire, and what a run tries to send again and again
\* is sent in the end
Fairness ==
    /\ WF_vars(Alive /\ Stopping)
    /\ \A r \in Runs :
          /\ WF_vars((Alive /\ (Proceed(r) \/ Attempt(r))) \/ FinishClose(r) \/ NewTicker(r))
          /\ SF_vars(Alive /\ Send(r))
          /\ WF_vars(Alive /\ Deadline(r))

FairSpec == Spec /\ Fairness
-----------------------------------------------------------------------------
(* Properties                                                              *)

Cell == [running : BOOLEAN, stopCh : Channels, total : Nat, sent : Nat,
         claimSent : Nat, returnSent : Nat, errs : Nat]
RunPC == {"off", "prepare", "ticker", "loop", "select", "parked", "batch", "expire",
          "finish", "close", "nil"}
Run == [pc : RunPC, kind : Kinds, ch : Channels, perTick : Nat, left : Nat,
        step : {"first", "claim", "return"}, timed : BOOLEAN,
        ticks : Nat, mine : Nat]

\* Types of the variables
TypeOK ==
    /\ cell \in [Cells -> Cell]
    /\ tasks \in [AuditModes -> Cells]
    /\ closed \subseteq Channels \ {Nil}
    /\ started \in 0..MaxRuns
    /\ run \in [Runs -> Run]
    /\ stopper \in [pc : {"idle", "next", "close", "nil"}, todo : SUBSET Cells,
                    cell : Cells, seen : Channels]
    /\ crashed \in BOOLEAN /\ prompt \in BOOLEAN /\ kinds \in SUBSET Kinds

\* Runs that go on sending
Active(r) == run[r].pc \in {"prepare", "loop", "select", "parked", "batch", "expire"}

\* When stops find the run waiting, no kind has two runs that send: the one that was
\* stopped has returned before the next one may start
OneRun ==
    prompt => \A r, s \in Runs :
        Active(r) /\ Active(s) /\ run[r].kind = run[s].kind => r = s

\* And no channel is closed twice, although finishTask does not take the lock
NoPanic == prompt => ~crashed

\* And the counters of the pressure test are those of the test that runs: an earlier test
\* that still sends would count there too
OwnCounters ==
    prompt => \A r \in Runs :
        Active(r) /\ run[r].kind = "pressure" =>
            cell[Pressure].sent + cell[Pressure].errs = run[r].mine

\* A stop that finds the run waiting really ends it: neither its messages nor its counts get
\* mixed up with those of the next run
RunsApart == OneRun /\ OwnCounters

\* However stops, ticks and batches fall, a run never sends more than it was asked for,
\* whether it missed its stop or not
WithinTotal == \A r \in Runs : run[r].kind \in AuditModes => cell[r].sent <= cell[r].total

\* Every device that a platform run claimed and did not return shows up in its errors,
\* apart from the one of the cycle it is in
ClaimsAccounted ==
    \A r \in Runs :
        run[r].kind = "platform" =>
            cell[r].claimSent <= cell[r].returnSent + cell[r].errs
                                 + (IF run[r].step = "return" THEN 1 ELSE 0)

\* The counters of a run are true whether it was stopped, missed its stop or failed half-way
CountInv == TypeOK /\ WithinTotal /\ ClaimsAccounted

\* An audit run, and a pressure test with a duration, return in the end: if not because of
\* a stop, which they may miss, then because the total is sent or the time is up
Ends ==
    \A r \in Runs :
        run[r].pc # "off" /\ (run[r].kind \in AuditModes \/ run[r].timed)
            ~> run[r].pc = "off" \/ crashed
=============================================================================
