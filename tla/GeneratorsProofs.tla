--------------------------- MODULE GeneratorsProofs ---------------------------
(* Theorems about Generators, for every number of runs, totals and rates: the *)
(* counters of the runs, and, where stops find the runs waiting, that runs of *)
(* a kind follow one another and no channel is closed twice.                  *)
EXTENDS Generators, TLAPS

\* What the types need of the constants
LEMMA Numbers ==
    /\ MaxRuns \in Nat /\ MaxTicks \in Nat /\ MaxErrors \in Nat
    /\ DefaultTotal \in Nat /\ DefaultRate \in Nat \ {0} /\ MaxRate \in Nat \ {0}
    /\ TicksPerSecond \in Nat \ {0} /\ PressureSends \in Nat
    /\ Nil = 0 /\ None = 0 /\ Pressure = 0
    /\ Runs \subseteq Cells /\ Runs \subseteq Channels /\ Runs \subseteq Nat
    /\ 0 \in Cells /\ 0 \in Channels /\ 0 \notin Runs
    /\ \A n \in Nat : n < MaxRuns => n + 1 \in Runs
BY GeneratorsAssumption
   DEF GeneratorsAssumption, Runs, Cells, Channels, Nil, None, Pressure

\* Whatever is asked for, a total and a number of messages per tick are natural numbers
LEMMA NormalTotalTyped ==
    ASSUME NEW n \in Int
    PROVE  NormalTotal(n) \in Nat
BY Numbers DEF NormalTotal

LEMMA NormalRateTyped ==
    ASSUME NEW n \in Int
    PROVE  NormalRate(n) \in 1..MaxRate
BY Numbers DEF NormalRate

LEMMA PerTickTyped ==
    ASSUME NEW rate \in Nat
    PROVE  PerTick(rate) \in Nat \ {0}
<1>1. rate \div TicksPerSecond \in Int
  BY Numbers
<1> QED BY <1>1 DEF PerTick

LEMMA RecordsTyped == NoCell \in Cell /\ NoRun \in Run
BY Numbers DEF NoCell, NoRun, Cell, Run, RunPC, Kinds, AuditModes

-----------------------------------------------------------------------------
(* The counters                                                            *)

\* What holds of a run k and the cell c of its number.  A cycle that is under way belongs to
\* the last of the messages that are left, and there was room for it when it began
Counted(k, c) ==
    /\ k.step # "first" => /\ k.pc = "batch" /\ k.left > 0
                           /\ k.kind = "platform" /\ c.sent < c.total
    /\ k.kind \in AuditModes => c.sent <= c.total
    /\ k.kind = "platform" => c.claimSent <= c.returnSent + c.errs
                                             + (IF k.step = "return" THEN 1 ELSE 0)

Counting == TypeOK /\ \A r \in Runs : Counted(run[r], cell[r])

LEMMA CellOfTyped ==
    ASSUME NEW r \in Runs
    PROVE  CellOf(r) \in Cells
BY Numbers DEF CellOf

\* A run that has returned counts nothing any more; none returns in the middle of a cycle
LEMMA GoneCounted ==
    ASSUME Counting, NEW r \in Runs, run[r].pc # "batch"
    PROVE  Gone(r) \in Run /\ Counted(Gone(r), cell[r])
BY RecordsTyped, Numbers DEF Counting, TypeOK, Gone, Counted, NoRun, Run, RunPC, AuditModes

\* A step of run r that makes it k, and c of its cell or of the cell of its number
LEMMA RunCounted ==
    ASSUME Counting, NEW r \in Runs, NEW k \in Run, NEW c \in Cell, NEW x \in {r, CellOf(r)},
           run' = [run EXCEPT ![r] = k], cell' = [cell EXCEPT ![x] = c],
           k.kind = run[r].kind, Counted(k, c), UNCHANGED <<tasks, closed, started, stopper>>, Alive
    PROVE  Counting'
<1>1. run' \in [Runs -> Run] /\ cell' \in [Cells -> Cell]
  BY CellOfTyped, Numbers DEF Counting, TypeOK
<1>2. TypeOK'
  BY <1>1 DEF Counting, TypeOK, Alive
<1>3. ASSUME NEW s \in Runs PROVE Counted(run'[s], cell'[s])
  <2>1. CASE s # r
    <3>1. run'[s] = run[s] /\ cell'[s] = cell[s]
      BY <2>1, Numbers DEF Counting, TypeOK, CellOf
    <3> QED BY <3>1 DEF Counting
  <2>2. CASE s = r /\ run[r].kind # "pressure"
    <3>1. run'[s] = k /\ cell'[s] = c
      BY <2>2, Numbers DEF Counting, TypeOK, CellOf
    <3> QED BY <3>1
  <2>3. CASE s = r /\ run[r].kind = "pressure"
    <3>1. run'[s] = k /\ cell'[s] \in {c, cell[s]}
      BY <2>3, Numbers DEF Counting, TypeOK, CellOf
    <3> QED BY <2>3, <3>1 DEF Counted, AuditModes
  <2> QED BY <2>1, <2>2, <2>3
<1> QED BY <1>2, <1>3 DEF Counting

\* The same when the cell stays as it is
LEMMA MoveCounted ==
    ASSUME Counting, NEW r \in Runs, NEW k \in Run,
           run' = [run EXCEPT ![r] = k], k.kind = run[r].kind, Counted(k, cell[r]),
           UNCHANGED <<cell, tasks, closed, started, stopper>>, Alive
    PROVE  Counting'
BY DEF Counting, TypeOK, Alive

\* Steps between two batches
LEMMA BetweenCounted ==
    ASSUME Counting, Alive, NEW r \in Runs,
           \/ PlatformPrepare(r) \/ Loop(r) \/ StopSeen(r) \/ Park(r) \/ Tick(r) \/ BatchEnd(r)
           \/ Deadline(r)
    PROVE  Counting'
<1>0. run[r] \in Run /\ cell[r] \in Cell /\ Counted(run[r], cell[r])
      /\ cell[CellOf(r)] \in Cell
  BY CellOfTyped, Numbers DEF Counting, TypeOK
<1>r. run \in [Runs -> Run] /\ cell \in [Cells -> Cell]
  BY DEF Counting, TypeOK
<1>1. CASE PlatformPrepare(r)
  <2>1. CASE Goto(r, "loop") /\ UNCHANGED cell
    <3> DEFINE k == [run[r] EXCEPT !.pc = "loop"]
    <3>1. k \in Run /\ k.kind = run[r].kind /\ Counted(k, cell[r])
      BY <1>0, <1>1 DEF PlatformPrepare, Run, RunPC, Counted
    <3>2. run' = [run EXCEPT ![r] = k]
      BY <2>1 DEF Goto
    <3> QED BY <1>1, <2>1, <3>1, <3>2, MoveCounted DEF PlatformPrepare
  <2>2. CASE /\ cell' = [cell EXCEPT ![r].errs = @ + cell[r].total]
             /\ Goto(r, "finish")
    <3> DEFINE k == [run[r] EXCEPT !.pc = "finish"]
               c == [cell[r] EXCEPT !.errs = @ + cell[r].total]
    <3>1. k \in Run /\ k.kind = run[r].kind
      BY <1>0 DEF Run, RunPC
    <3>2. c \in Cell
      BY <1>0 DEF Cell
    <3>3. Counted(k, c)
      BY <1>0, <1>1 DEF PlatformPrepare, Run, Cell, Counted, AuditModes
    <3>4. run' = [run EXCEPT ![r] = k] /\ cell' = [cell EXCEPT ![r] = c]
      BY <2>2 DEF Goto
    <3> QED BY <1>1, <3>1, <3>2, <3>3, <3>4, RunCounted DEF PlatformPrepare
  <2> QED BY <1>1, <2>1, <2>2 DEF PlatformPrepare
<1>2. CASE Loop(r)
  <2> DEFINE k == IF Exhausted(r) THEN [run[r] EXCEPT !.pc = "finish"]
                  ELSE [run[r] EXCEPT !.pc = "select", !.ch = cell[CellOf(r)].stopCh]
  <2>1. k \in Run /\ k.kind = run[r].kind /\ Counted(k, cell[r])
    BY <1>0, <1>2 DEF Loop, Run, RunPC, Cell, Counted
  <2>2. run' = [run EXCEPT ![r] = k]
    BY <1>2 DEF Loop, Goto
  <2> QED BY <1>2, <2>1, <2>2, MoveCounted DEF Loop
<1>3. CASE StopSeen(r)
  <2>1. Gone(r) \in Run /\ Counted(Gone(r), cell[r]) /\ Gone(r).kind = run[r].kind
    BY <1>0, <1>3, GoneCounted, RecordsTyped DEF StopSeen, Gone, Run, NoRun
  <2> QED BY <1>3, <2>1, MoveCounted DEF StopSeen, Return
<1>4. CASE Park(r)
  <2> DEFINE k == [run[r] EXCEPT !.pc = "parked"]
  <2>1. k \in Run /\ k.kind = run[r].kind /\ Counted(k, cell[r])
    BY <1>0, <1>4 DEF Park, Run, RunPC, Counted
  <2>2. run' = [run EXCEPT ![r] = k]
    BY <1>4 DEF Park, Goto
  <2> QED BY <1>4, <2>1, <2>2, MoveCounted DEF Park
<1>5. CASE Tick(r)
  <2> DEFINE n == IF run[r].kind = "pressure" THEN run[r].ticks + 1 ELSE run[r].ticks
             k == [run[r] EXCEPT !.pc = "batch", !.left = run[r].perTick, !.step = "first",
                       !.ticks = n]
  <2>0. n \in Nat
    BY <1>0 DEF Run
  <2>3. run' = [run EXCEPT ![r] = k]
    BY <1>5 DEF Tick
  <2> HIDE DEF n
  <2>1. k \in Run /\ k.kind = run[r].kind
    BY <1>0, <2>0 DEF Run, RunPC
  <2>2. Counted(k, cell[r])
    BY <1>0, <1>5 DEF Tick, Run, Counted
  <2> QED BY <1>5, <2>1, <2>2, <2>3, MoveCounted DEF Tick
<1>6. CASE BatchEnd(r)
  <2> DEFINE k == [run[r] EXCEPT !.pc = "loop"]
  <2>1. k \in Run /\ k.kind = run[r].kind /\ Counted(k, cell[r])
    BY <1>0, <1>6 DEF BatchEnd, Run, RunPC, Counted
  <2>2. run' = [run EXCEPT ![r] = k]
    BY <1>6 DEF BatchEnd, Goto
  <2> QED BY <1>6, <2>1, <2>2, MoveCounted DEF BatchEnd
<1>7. CASE Deadline(r)
  <2> DEFINE k == [run[r] EXCEPT !.pc = "expire"]
  <2>1. k \in Run /\ k.kind = run[r].kind /\ Counted(k, cell[r])
    BY <1>0, <1>7 DEF Deadline, Run, RunPC, Counted
  <2>2. run' = [run EXCEPT ![r] = k]
    BY <1>7 DEF Deadline, Goto
  <2> QED BY <1>7, <2>1, <2>2, MoveCounted DEF Deadline
<1> QED BY <1>1, <1>2, <1>3, <1>4, <1>5, <1>6, <1>7

\* A message, or a step of a cycle: it succeeds, it fails, or its turn is lost
LEMMA AttemptCounted ==
    ASSUME Counting, Alive, NEW r \in Runs, Attempt(r)
    PROVE  Counting'
<1>0. run[r] \in Run /\ cell[r] \in Cell /\ Counted(run[r], cell[r])
      /\ cell[CellOf(r)] \in Cell
  BY CellOfTyped, Numbers DEF Counting, TypeOK
<1> DEFINE mine(n) == IF run[r].kind = "pressure" THEN run[r].mine + n ELSE run[r].mine
           left(step) == IF step = "first" THEN run[r].left - 1 ELSE run[r].left
           next(step, n) == [run[r] EXCEPT !.step = step, !.mine = mine(n), !.left = left(step)]
<1>1. ASSUME Sending(r), NEW step \in {"first", "claim", "return"}, NEW n \in {0, 1}
      PROVE  /\ next(step, n) \in Run /\ next(step, n).kind = run[r].kind
             /\ next(step, n).step = step /\ next(step, n).pc = "batch"
             /\ step # "first" => next(step, n).left = run[r].left
  <2>1. run[r].left > 0 /\ run[r].pc = "batch"
    BY <1>0, <1>1 DEF Sending, Counted, Run
  <2>2. mine(n) \in Nat /\ left(step) \in Nat /\ (step # "first" => left(step) = run[r].left)
    BY <1>0, <2>1 DEF Run
  <2> HIDE DEF mine, left
  <2> QED BY <1>0, <2>1, <2>2 DEF Run
<1>2. ASSUME NEW step, NEW n, StepTo(r, step, n)
      PROVE  run' = [run EXCEPT ![r] = next(step, n)]
  BY <1>2 DEF StepTo
<1> HIDE DEF mine, left, next
<1>3. CASE SkipOffline(r)
  <2>1. Sending(r) /\ run[r].step = "first" /\ StepTo(r, "first", 0)
    BY <1>3 DEF SkipOffline
  <2> DEFINE k == next("first", 0)
  <2>2. k \in Run /\ k.kind = run[r].kind /\ k.step = "first"
    BY <1>1, <2>1
  <2>3. run' = [run EXCEPT ![r] = k]
    BY <1>2, <2>1
  <2> HIDE DEF k
  <2>4. Counted(k, cell[r])
    BY <1>0, <2>1, <2>2 DEF Counted
  <2> QED BY <1>3, <2>2, <2>3, <2>4, MoveCounted DEF SkipOffline
<1>4. CASE SendFails(r)
  <2>1. Sending(r) /\ StepTo(r, "first", 1)
    BY <1>4 DEF SendFails
  <2> DEFINE k == next("first", 1)
             c == [cell[CellOf(r)] EXCEPT !.errs = @ + 1]
  <2>2. k \in Run /\ k.kind = run[r].kind /\ k.step = "first"
    BY <1>1, <2>1
  <2>3. run' = [run EXCEPT ![r] = k] /\ cell' = [cell EXCEPT ![CellOf(r)] = c]
    BY <1>2, <1>4, <2>1 DEF SendFails
  <2>4. c \in Cell
    BY <1>0 DEF Cell
  <2> HIDE DEF k
  <2>5. Counted(k, c)
    BY <1>0, <2>2 DEF Counted, Cell, Run, CellOf, AuditModes
  <2> QED BY <1>4, <2>2, <2>3, <2>4, <2>5, RunCounted DEF SendFails
<1>5. CASE SendOne(r)
  <2>1. Sending(r) /\ StepTo(r, "first", 1) /\ run[r].kind # "platform"
    BY <1>5 DEF SendOne
  <2> DEFINE k == next("first", 1)
             c == [cell[CellOf(r)] EXCEPT !.sent = @ + 1]
  <2>2. k \in Run /\ k.kind = run[r].kind /\ k.step = "first"
    BY <1>1, <2>1
  <2>3. run' = [run EXCEPT ![r] = k] /\ cell' = [cell EXCEPT ![CellOf(r)] = c]
    BY <1>2, <1>5, <2>1 DEF SendOne
  <2>4. c \in Cell
    BY <1>0 DEF Cell
  <2>5. run[r].kind = "local" => c.sent = cell[r].sent + 1 /\ c.total = cell[r].total
                                 /\ cell[r].sent < cell[r].total
    <3>1. run[r].step = "first"
      BY <1>0, <2>1 DEF Counted
    <3> QED BY <1>0, <2>1, <3>1 DEF Sending, Exhausted, CellOf, AuditModes, Cell
  <2> HIDE DEF k, c
  <2>6. Counted(k, c)
    BY <1>0, <2>1, <2>2, <2>4, <2>5 DEF Counted, Cell, AuditModes
  <2> QED BY <1>5, <2>2, <2>3, <2>4, <2>6, RunCounted DEF SendOne
<1>6. CASE SendStep(r)
  <2>0. Sending(r) /\ run[r].kind = "platform" /\ CellOf(r) = r
    BY <1>6 DEF SendStep, CellOf
  <2>1. CASE run[r].step = "first" /\ StepTo(r, "claim", 0) /\ UNCHANGED cell
    <3> DEFINE k == next("claim", 0)
    <3>1. /\ k \in Run /\ k.kind = run[r].kind /\ k.step = "claim" /\ k.pc = "batch"
          /\ k.left = run[r].left /\ run' = [run EXCEPT ![r] = k]
      BY <1>1, <1>2, <2>0, <2>1
    <3>2. run[r].left > 0 /\ cell[r].sent < cell[r].total
      BY <1>0, <2>0, <2>1 DEF Sending, Exhausted, AuditModes, Cell
    <3> HIDE DEF k
    <3>3. Counted(k, cell[r])
      BY <1>0, <2>0, <2>1, <3>1, <3>2 DEF Counted
    <3> QED BY <1>6, <2>1, <3>1, <3>3, MoveCounted DEF SendStep
  <2>2. CASE /\ run[r].step = "claim" /\ StepTo(r, "return", 0)
             /\ cell' = [cell EXCEPT ![r].claimSent = @ + 1]
    <3> DEFINE k == next("return", 0)
               c == [cell[r] EXCEPT !.claimSent = @ + 1]
    <3>1. /\ k \in Run /\ k.kind = run[r].kind /\ k.step = "return" /\ k.pc = "batch"
          /\ k.left = run[r].left /\ run' = [run EXCEPT ![r] = k]
      BY <1>1, <1>2, <2>0, <2>2
    <3>2. c \in Cell /\ cell' = [cell EXCEPT ![CellOf(r)] = c]
      BY <1>0, <2>0, <2>2 DEF Cell
    <3> HIDE DEF k
    <3>3. Counted(k, c)
      BY <1>0, <2>0, <2>2, <3>1 DEF Counted, Cell
    <3> QED BY <1>6, <3>1, <3>2, <3>3, RunCounted DEF SendStep
  <2>3. CASE /\ run[r].step = "return" /\ StepTo(r, "first", 1)
             /\ cell' = [cell EXCEPT ![r].returnSent = @ + 1, ![r].sent = @ + 1]
    <3> DEFINE k == next("first", 1)
               c == [cell[r] EXCEPT !.returnSent = @ + 1, !.sent = @ + 1]
    <3>1. /\ k \in Run /\ k.kind = run[r].kind /\ k.step = "first"
          /\ run' = [run EXCEPT ![r] = k]
      BY <1>1, <1>2, <2>0, <2>3
    <3>2. c \in Cell /\ cell' = [cell EXCEPT ![CellOf(r)] = c]
      BY <1>0, <2>0, <2>3, Numbers DEF Cell, Counting, TypeOK
    <3> HIDE DEF k
    <3>3. Counted(k, c)
      BY <1>0, <2>0, <2>3, <3>1 DEF Counted, Cell, AuditModes
    <3> QED BY <1>6, <3>1, <3>2, <3>3, RunCounted DEF SendStep
  <2> QED BY <1>6, <2>1, <2>2, <2>3 DEF SendStep
<1> QED BY <1>3, <1>4, <1>5, <1>6 DEF Attempt, Send

\* A start, of either sort: run r and cell x are new, r has not been used before
LEMMA StartCounted ==
    ASSUME Counting, Alive, Requests, ~StopAuditGen, ~StopPressure
    PROVE  Counting'
<1>0. started \in Nat /\ (started < MaxRuns => started + 1 \in Runs /\ started + 1 \in Channels
                                               /\ started + 1 \in Cells)
  BY Numbers DEF Counting, TypeOK
<1>1. ASSUME NEW mode \in AuditModes, NEW total \in Totals, NEW rate \in Rates,
             StartAuditGen(mode, total, rate)
      PROVE  Counting'
  <2> DEFINE r == started + 1
             c == [NoCell EXCEPT !.running = TRUE, !.stopCh = r, !.total = NormalTotal(total)]
             k == [NoRun EXCEPT !.pc = IF mode = "platform" THEN "prepare" ELSE "loop",
                                !.kind = mode, !.perTick = PerTick(NormalRate(rate))]
  <2>1. r \in Runs /\ r \in Channels /\ r \in Cells
    BY <1>0, <1>1 DEF StartAuditGen
  <2>2. /\ NormalTotal(total) \in Nat /\ PerTick(NormalRate(rate)) \in Nat
        /\ total \in Int /\ rate \in Int
    <3>1. total \in Int /\ rate \in Int
      BY GeneratorsAssumption DEF GeneratorsAssumption
    <3>2. NormalRate(rate) \in Nat
      BY <3>1, NormalRateTyped, Numbers
    <3> QED BY <3>1, <3>2, NormalTotalTyped, PerTickTyped
  <2>3. /\ run' = [run EXCEPT ![r] = k] /\ cell' = [cell EXCEPT ![r] = c]
        /\ tasks' = [tasks EXCEPT ![mode] = r] /\ started' = r
    BY <1>1 DEF StartAuditGen
  <2>4. c \in Cell
    BY <2>1, <2>2, RecordsTyped DEF Cell, NoCell
  <2>5. k \in Run
    BY <2>2, RecordsTyped DEF Run, RunPC, NoRun, Kinds, AuditModes
  <2>6. Counted(k, c)
    BY <2>2, Numbers DEF NoRun, NoCell, Counted, AuditModes
  <2>7. TypeOK'
    <3> HIDE DEF k, c, r
    <3>1. run' \in [Runs -> Run] /\ cell' \in [Cells -> Cell] /\ tasks' \in [AuditModes -> Cells]
      BY <2>1, <2>3, <2>4, <2>5 DEF Counting, TypeOK
    <3> QED BY <1>1, <2>1, <2>3, <3>1, Numbers DEF Counting, TypeOK, Alive, StartAuditGen, Runs
  <2> HIDE DEF k, c, r
  <2>8. ASSUME NEW s \in Runs PROVE Counted(run'[s], cell'[s])
    BY <2>1, <2>3, <2>6, Numbers DEF Counting, TypeOK
  <2> QED BY <2>7, <2>8 DEF Counting
<1>2. ASSUME NEW timed \in BOOLEAN, NEW frequency \in Frequencies, StartPressure(timed, frequency)
      PROVE  Counting'
  <2> DEFINE r == started + 1
             c == [NoCell EXCEPT !.running = TRUE, !.stopCh = r]
             k == [NoRun EXCEPT !.pc = IF Interval(frequency) > 0 THEN "loop" ELSE "ticker",
                                !.kind = "pressure", !.perTick = PressureSends,
                                !.timed = timed]
  <2>1. r \in Runs /\ r \in Channels
    BY <1>0, <1>2 DEF StartPressure
  <2>3. /\ run' = [run EXCEPT ![r] = k] /\ cell' = [cell EXCEPT ![Pressure] = c]
        /\ started' = r
    BY <1>2 DEF StartPressure
  <2>4. c \in Cell
    BY <2>1, RecordsTyped DEF Cell, NoCell
  <2>5. k \in Run
    BY RecordsTyped, Numbers DEF Run, RunPC, NoRun, Kinds, AuditModes
  <2>6. \A d : Counted(k, d)
    BY DEF NoRun, Counted, AuditModes
  <2>7. TypeOK'
    <3> HIDE DEF k, c, r
    <3>1. run' \in [Runs -> Run] /\ cell' \in [Cells -> Cell]
      BY <2>1, <2>3, <2>4, <2>5, Numbers DEF Counting, TypeOK
    <3> QED BY <1>2, <2>1, <2>3, <3>1, Numbers DEF Counting, TypeOK, Alive, StartPressure, Runs
  <2> HIDE DEF k, c, r
  <2>8. ASSUME NEW s \in Runs PROVE Counted(run'[s], cell'[s])
    BY <2>1, <2>3, <2>6, Numbers DEF Counting, TypeOK
  <2> QED BY <2>7, <2>8 DEF Counting
<1> QED BY <1>1, <1>2 DEF Requests

\* Runs that wait on a channel that is closed return
LEMMA CloseCounted ==
    ASSUME Counting, NEW ch \in Channels, ch # Nil,
           \/ Close(ch)
           \/ \E r \in Runs : run[r].pc # "batch" /\ CloseAndReturn(r, ch)
    PROVE  /\ run' \in [Runs -> Run] /\ closed' \subseteq Channels \ {Nil}
           /\ \A s \in Runs : Counted(run'[s], cell[s])
<1>1. closed' \subseteq Channels \ {Nil}
  BY DEF Close, CloseAndReturn, Counting, TypeOK
<1>2. \A s \in Runs : run'[s] = run[s] \/ (run[s].pc # "batch" /\ run'[s] = Gone(s))
  BY DEF Close, CloseAndReturn
<1>3. \A s \in Runs : run'[s] \in Run /\ Counted(run'[s], cell[s])
  BY <1>2, GoneCounted DEF Counting, TypeOK
<1>4. run' = [s \in Runs |-> run'[s]]
  BY DEF Close, CloseAndReturn
<1> QED BY <1>1, <1>3, <1>4

\* The flag and the field of cell x change, not its counters
LEMMA FlagCounted ==
    ASSUME Counting, NEW x \in Cells, NEW flag \in BOOLEAN, NEW ch \in Channels,
           cell' = [cell EXCEPT ![x].running = flag, ![x].stopCh = ch]
    PROVE  /\ cell' \in [Cells -> Cell]
           /\ \A k : \A y \in Cells : Counted(k, cell[y]) => Counted(k, cell'[y])
<1> DEFINE c == [cell[x] EXCEPT !.running = flag, !.stopCh = ch]
<1>1. c \in Cell /\ cell' = [cell EXCEPT ![x] = c]
  BY DEF Counting, TypeOK, Cell
<1>2. \A k : Counted(k, cell[x]) => Counted(k, c)
  BY DEF Counting, TypeOK, Cell, Counted
<1> HIDE DEF c
<1>3. cell' \in [Cells -> Cell]
  BY <1>1 DEF Counting, TypeOK
<1>4. ASSUME NEW k, NEW y \in Cells, Counted(k, cell[y]) PROVE Counted(k, cell'[y])
  <2>1. cell'[y] = IF y = x THEN c ELSE cell[y]
    BY <1>1 DEF Counting, TypeOK
  <2> QED BY <1>2, <1>4, <2>1
<1> QED BY <1>3, <1>4

\* Stop requests, and the end of runs
LEMMA StopCounted ==
    ASSUME Counting, Alive, Stopping \/ StopAuditGen \/ StopPressure
    PROVE  Counting'
<1>0. /\ stopper \in [pc : {"idle", "next", "close", "nil"}, todo : SUBSET Cells,
                      cell : Cells, seen : Channels]
      /\ cell \in [Cells -> Cell] /\ NoStop.cell = 0 /\ NoStop.seen = 0
  BY DEF Counting, TypeOK, NoStop, None, Nil
<1>t. NoStop \in [pc : {"idle", "next", "close", "nil"}, todo : SUBSET Cells,
                  cell : Cells, seen : Channels]
  BY Numbers DEF NoStop
<1>r. \A r \in Runs : r \in Cells
  BY Numbers
<1>1. CASE StopAuditGen
  <2>1. PICK todo \in SUBSET Cells : stopper' = [NoStop EXCEPT !.pc = "next", !.todo = todo]
    <3> DEFINE all == {tasks[mode] : mode \in AuditModes} \ {None}
    <3>1. all \subseteq Cells /\ \A mode \in AuditModes : {tasks[mode]} \subseteq Cells
      BY DEF Counting, TypeOK
    <3>2. CASE stopper' = [NoStop EXCEPT !.pc = "next", !.todo = all]
      BY <3>1, <3>2
    <3>3. CASE \E mode \in AuditModes : stopper' = [NoStop EXCEPT !.pc = "next",
                                                       !.todo = {tasks[mode]}]
      BY <3>1, <3>3
    <3> QED BY <1>1, <3>2, <3>3 DEF StopAuditGen
  <2>2. stopper' \in [pc : {"idle", "next", "close", "nil"}, todo : SUBSET Cells,
                      cell : Cells, seen : Channels]
    BY <2>1, <1>t DEF NoStop
  <2> QED BY <1>1, <2>2 DEF StopAuditGen, Counting, TypeOK, Alive
<1>2. CASE StopFlag
  <2>1. PICK x \in Cells :
           LET stops == cell[x].running /\ cell[x].stopCh # Nil IN
           /\ cell' = [cell EXCEPT ![x].running = FALSE]
           /\ stopper' = [pc |-> IF stops THEN "close" ELSE "next", todo |-> stopper.todo \ {x},
                          cell |-> IF stops THEN x ELSE None,
                          seen |-> IF stops THEN cell[x].stopCh ELSE Nil]
    BY <1>0, <1>2 DEF StopFlag
  <2>2. cell[x].stopCh \in Channels /\ cell[x] \in Cell
    BY <1>0 DEF Cell
  <2>3. cell' = [cell EXCEPT ![x].running = FALSE, ![x].stopCh = cell[x].stopCh]
    BY <1>0, <2>1, <2>2 DEF Cell
  <2>4. /\ cell' \in [Cells -> Cell]
        /\ \A k : \A y \in Cells : Counted(k, cell[y]) => Counted(k, cell'[y])
    BY <2>2, <2>3, FlagCounted
  <2>5. stopper' \in [pc : {"idle", "next", "close", "nil"}, todo : SUBSET Cells,
                      cell : Cells, seen : Channels]
    BY <1>0, <2>1, <2>2, Numbers
  <2> QED BY <1>2, <1>r, <2>4, <2>5 DEF StopFlag, Counting, TypeOK, Alive
<1>3. CASE StopClose
  <2>1. PICK ch \in Channels :
           \/ stopper' = NoStop /\ UNCHANGED <<closed, run>>
           \/ /\ ch # Nil /\ Close(ch) /\ stopper' = [stopper EXCEPT !.pc = "nil"]
    <3>1. stopper.seen \in Channels /\ cell[stopper.cell].stopCh \in Channels
      BY <1>0 DEF Cell
    <3> QED BY <1>3, <3>1 DEF StopClose, Panics
  <2>2. stopper' \in [pc : {"idle", "next", "close", "nil"}, todo : SUBSET Cells,
                      cell : Cells, seen : Channels]
    BY <1>0, <1>t, <2>1
  <2>3. /\ run' \in [Runs -> Run] /\ closed' \subseteq Channels \ {Nil}
        /\ \A s \in Runs : Counted(run'[s], cell[s])
    BY <2>1, CloseCounted DEF Counting, TypeOK
  <2> QED BY <1>3, <2>2, <2>3 DEF StopClose, Counting, TypeOK, Alive
<1>4. CASE StopNil
  <2> DEFINE x == stopper.cell
  <2>1. x \in Cells /\ cell[x].running \in BOOLEAN
    BY <1>0 DEF Cell
  <2>2. cell' = [cell EXCEPT ![x].running = cell[x].running, ![x].stopCh = Nil]
    BY <1>0, <1>4, <2>1 DEF StopNil, Cell
  <2>3. /\ cell' \in [Cells -> Cell]
        /\ \A k : \A y \in Cells : Counted(k, cell[y]) => Counted(k, cell'[y])
    BY <2>1, <2>2, FlagCounted, Numbers
  <2>4. stopper' \in [pc : {"idle", "next", "close", "nil"}, todo : SUBSET Cells,
                      cell : Cells, seen : Channels]
    BY <1>0, <1>4, Numbers DEF StopNil
  <2> QED BY <1>4, <1>r, <2>3, <2>4 DEF StopNil, Counting, TypeOK, Alive
<1>5. CASE StopDone
  BY <1>t, <1>5 DEF StopDone, Counting, TypeOK, Alive
<1>6. CASE StopPressure
  <2>1. /\ cell' \in [Cells -> Cell]
        /\ \A k : \A y \in Cells : Counted(k, cell[y]) => Counted(k, cell'[y])
    BY <1>6, FlagCounted, Numbers DEF StopPressure
  <2>2. /\ run' \in [Runs -> Run] /\ closed' \subseteq Channels \ {Nil}
        /\ \A s \in Runs : Counted(run'[s], cell[s])
    <3>1. cell[Pressure].stopCh \in Channels
      BY <1>0, Numbers DEF Cell
    <3> QED BY <1>6, <3>1, CloseCounted DEF StopPressure, Counting, TypeOK
  <2>3. \A s \in Runs : Counted(run'[s], cell'[s])
    BY <1>r, <2>1, <2>2
  <2>4. TypeOK'
    BY <1>6, <2>1, <2>2 DEF StopPressure, Counting, TypeOK, Alive
  <2> QED BY <2>3, <2>4 DEF Counting
<1> QED BY <1>1, <1>2, <1>3, <1>4, <1>5, <1>6 DEF Stopping

\* Finishing
LEMMA FinishCounted ==
    ASSUME Counting, NEW r \in Runs,
           (Alive /\ (FinishFlag(r) \/ FinishNil(r) \/ Expire(r))) \/ FinishClose(r)
    PROVE  Counting'
<1>0. /\ run[r] \in Run /\ cell[r] \in Cell /\ Counted(run[r], cell[r])
      /\ run \in [Runs -> Run] /\ cell \in [Cells -> Cell]
  BY Numbers DEF Counting, TypeOK
<1>r. \A s \in Runs : s \in Cells
  BY Numbers
<1>1. CASE Alive /\ FinishFlag(r)
  <2>1. cell' = [cell EXCEPT ![r].running = FALSE, ![r].stopCh = cell[r].stopCh]
    BY <1>0, <1>1, <1>r DEF FinishFlag, Cell
  <2>2. /\ cell' \in [Cells -> Cell]
        /\ \A k : \A y \in Cells : Counted(k, cell[y]) => Counted(k, cell'[y])
    BY <1>0, <1>r, <2>1, FlagCounted DEF Cell
  <2> DEFINE k == IF cell[r].stopCh = Nil THEN Gone(r)
                  ELSE [run[r] EXCEPT !.ch = cell[r].stopCh, !.pc = "close"]
  <2>3. run' = [run EXCEPT ![r] = k]
    BY <1>1 DEF FinishFlag, Return
  <2>4. k \in Run /\ Counted(k, cell[r])
    <3>1. Gone(r) \in Run /\ Counted(Gone(r), cell[r])
      BY <1>1, GoneCounted DEF FinishFlag
    <3> QED BY <1>0, <1>1, <3>1 DEF FinishFlag, Counted, Run, RunPC, Cell
  <2> HIDE DEF k
  <2>5. run' \in [Runs -> Run] /\ \A s \in Runs : Counted(run'[s], cell[s])
    BY <1>0, <2>3, <2>4 DEF Counting
  <2> QED BY <1>1, <1>r, <2>2, <2>5 DEF FinishFlag, Counting, TypeOK, Alive
<1>2. CASE Alive /\ FinishNil(r)
  <2>1. cell' = [cell EXCEPT ![r].running = cell[r].running, ![r].stopCh = Nil]
    BY <1>0, <1>2, <1>r DEF FinishNil, Cell
  <2>2. /\ cell' \in [Cells -> Cell]
        /\ \A k : \A y \in Cells : Counted(k, cell[y]) => Counted(k, cell'[y])
    BY <1>0, <1>r, <2>1, FlagCounted, Numbers DEF Cell
  <2>3. Gone(r) \in Run /\ Counted(Gone(r), cell[r]) /\ run' = [run EXCEPT ![r] = Gone(r)]
    BY <1>2, GoneCounted DEF FinishNil, Return
  <2>4. run' \in [Runs -> Run] /\ \A s \in Runs : Counted(run'[s], cell[s])
    BY <1>0, <2>3 DEF Counting
  <2> QED BY <1>2, <1>r, <2>2, <2>4 DEF FinishNil, Counting, TypeOK, Alive
<1>3. CASE Alive /\ Expire(r)
  <2>1. /\ cell' \in [Cells -> Cell]
        /\ \A k : \A y \in Cells : Counted(k, cell[y]) => Counted(k, cell'[y])
    BY <1>3, FlagCounted, Numbers DEF Expire
  <2>2. /\ run' \in [Runs -> Run] /\ closed' \subseteq Channels \ {Nil}
        /\ \A s \in Runs : Counted(run'[s], cell[s])
    <3>1. CASE cell[Pressure].stopCh # Nil
      <4>1. cell[Pressure].stopCh \in Channels
        BY <1>0, Numbers DEF Cell
      <4> QED BY <1>3, <3>1, <4>1, CloseCounted DEF Expire
    <3>2. CASE cell[Pressure].stopCh = Nil
      <4>1. Gone(r) \in Run /\ Counted(Gone(r), cell[r]) /\ run' = [run EXCEPT ![r] = Gone(r)]
        BY <1>3, <3>2, GoneCounted DEF Expire, Return
      <4> QED BY <1>0, <1>3, <3>2, <4>1 DEF Counting, TypeOK, Expire
    <3> QED BY <3>1, <3>2
  <2>3. \A s \in Runs : Counted(run'[s], cell'[s])
    BY <1>r, <2>1, <2>2
  <2>4. TypeOK'
    BY <1>3, <2>1, <2>2 DEF Expire, Counting, TypeOK, Alive
  <2> QED BY <2>3, <2>4 DEF Counting
<1>4. CASE FinishClose(r)
  <2>1. PICK ch \in Channels :
           \/ crashed' = TRUE /\ UNCHANGED <<closed, run>>
           \/ /\ ch # Nil /\ closed' = closed \cup {ch} /\ Goto(r, "nil")
              /\ UNCHANGED crashed
    <3>1. run[r].ch \in Channels /\ cell[r].stopCh \in Channels
      BY <1>0 DEF Cell, Run
    <3> QED BY <1>4, <3>1 DEF FinishClose, Panics
  <2> DEFINE k == [run[r] EXCEPT !.pc = "nil"]
  <2>2. k \in Run /\ Counted(k, cell[r])
    BY <1>0, <1>4 DEF FinishClose, Counted, Run, RunPC
  <2>3. run' = run \/ run' = [run EXCEPT ![r] = k]
    BY <2>1 DEF Goto
  <2> HIDE DEF k
  <2>4. run' \in [Runs -> Run] /\ \A s \in Runs : Counted(run'[s], cell[s])
    BY <1>0, <2>2, <2>3 DEF Counting
  <2> QED BY <1>4, <2>1, <2>4 DEF FinishClose, Counting, TypeOK
<1> QED BY <1>1, <1>2, <1>3, <1>4

LEMMA InitCounted == Init => Counting
<1> SUFFICES ASSUME Init PROVE Counting
  OBVIOUS
<1>1. TypeOK
  <2>1. kinds \in SUBSET Kinds /\ stopper \in [pc : {"idle", "next", "close", "nil"},
                                               todo : SUBSET Cells, cell : Cells, seen : Channels]
    BY GeneratorsAssumption, Numbers DEF Init, NoStop, GeneratorsAssumption
  <2>2. cell \in [Cells -> Cell] /\ run \in [Runs -> Run]
    BY RecordsTyped DEF Init
  <2>3. tasks \in [AuditModes -> Cells] /\ started \in 0..MaxRuns
    BY Numbers DEF Init
  <2> QED BY <2>1, <2>2, <2>3 DEF Init, TypeOK
<1>2. Counted(NoRun, NoCell)
  BY DEF Counted, NoRun, NoCell, AuditModes
<1> QED BY <1>1, <1>2, Numbers DEF Counting, Init

LEMMA NextCounted == Counting /\ [Next]_vars => Counting'
<1> SUFFICES ASSUME Counting, [Next]_vars PROVE Counting'
  OBVIOUS
<1>1. CASE Alive /\ (Requests \/ Stopping)
  BY <1>1, StartCounted, StopCounted
<1>2. ASSUME NEW r \in Runs, Alive /\ (Proceed(r) \/ Attempt(r) \/ Deadline(r)) PROVE Counting'
  BY <1>2, BetweenCounted, AttemptCounted, FinishCounted DEF Proceed
<1>3. ASSUME NEW r \in Runs, FinishClose(r) \/ NewTicker(r) PROVE Counting'
  <2>1. CASE NewTicker(r)
    BY <2>1 DEF NewTicker, Counting, TypeOK
  <2> QED BY <1>3, <2>1, FinishCounted
<1>4. CASE UNCHANGED vars
  BY <1>4 DEF vars, Counting, TypeOK
<1> QED BY <1>1, <1>2, <1>3, <1>4 DEF Next, Attempt

LEMMA CountingCorrect == Spec => []Counting
<1> QED BY InitCounted, NextCounted, PTL DEF Spec

\* Whatever stops, ticks and failures meet, the variables of the generators keep their types;
\* in particular no run has a negative number of messages left of its batch
THEOREM TypeCorrect == Spec => []TypeOK
<1>1. Counting => TypeOK
  BY DEF Counting
<1> QED BY <1>1, CountingCorrect, PTL

\* A run never sends more than its total, and what a platform run claimed and did not return
\* is among its errors, for any number of runs: also of one that misses its stop, because
\* stopTask sets the field to nil while the run is busy, or that fails half-way in a cycle
THEOREM CountInvCorrect == Spec => []CountInv
<1>1. Counting => WithinTotal /\ ClaimsAccounted
  BY DEF Counting, Counted, WithinTotal, ClaimsAccounted
<1>2. Counting => CountInv
  BY <1>1 DEF Counting, CountInv
<1> QED BY <1>2, CountingCorrect, PTL

-----------------------------------------------------------------------------
(* Runs apart                                                              *)

\* Audit runs that were started
AuditRuns == {r \in Runs : r <= started /\ run[r].kind \in AuditModes}

\* The stop request has marked the task of run r and not closed its channel yet
Marked(r) == stopper.pc = "close" /\ stopper.cell = r

\* A run that sends, or is about to finish its task, has the channel it was started with in
\* its cell, and nobody has closed it
OwnChannel(r) == cell[CellOf(r)].stopCh = r /\ r \notin closed

\* Where run r is, what it knows agrees with what it shares with the requests
RunApart(r) ==
    /\ r > started => run[r] = NoRun /\ r \notin closed
    /\ run[r].kind = "pressure" =>
          run[r].pc \in {"off", "loop", "select", "parked", "batch", "expire"}
    /\ run[r].kind \in AuditModes => ~run[r].timed /\ run[r].pc # "expire"
    /\ Active(r) =>
          /\ OwnChannel(r)
          /\ cell[CellOf(r)].running \/ Marked(r)
          /\ run[r].kind \in AuditModes => tasks[run[r].kind] = r
          /\ run[r].pc \in {"select", "parked"} => run[r].ch = r
          /\ run[r].kind = "pressure" =>
                cell[Pressure].sent + cell[Pressure].errs = run[r].mine
    /\ run[r].pc = "finish" => OwnChannel(r) /\ cell[r].running
    /\ run[r].pc = "close" => OwnChannel(r) /\ run[r].ch = r

\* A stop request only has tasks of audit runs, and the one it is at waits, or has returned
StopperApart ==
    /\ stopper.todo \subseteq AuditRuns
    /\ stopper.pc \in {"idle", "next"} => stopper.cell = None
    /\ stopper.pc \in {"close", "nil"} =>
          stopper.cell \in AuditRuns /\ run[stopper.cell].pc \in {"off", "parked"}
    /\ stopper.pc = "close" => stopper.seen = stopper.cell
    /\ stopper.pc = "nil" => run[stopper.cell].pc = "off"

\* The channel in the cell of the pressure test is that of a pressure run
PressureApart ==
    cell[Pressure].stopCh # Nil =>
        \E r \in Runs : /\ r = cell[Pressure].stopCh /\ r <= started
                       /\ run[r].kind = "pressure"

Apart ==
    /\ Counting
    /\ ~crashed
    /\ \A m \in AuditModes : tasks[m] # None => tasks[m] \in AuditRuns
    /\ \A r \in Runs : cell[r].stopCh \in {Nil, r}
    /\ StopperApart /\ PressureApart
    /\ \A r \in Runs : RunApart(r)

\* What a run that is under way can rely on
LEMMA ActiveApart ==
    ASSUME Apart, NEW r \in Runs
    PROVE  /\ run[r] \in Run /\ cell[r] \in Cell /\ cell[Pressure] \in Cell /\ r # 0
           /\ run[r].kind = "pressure" \/ run[r].kind \in AuditModes
           /\ CellOf(r) \in {r, Pressure}
           /\ run[r].pc \notin {"off", "parked"} => stopper.cell # r /\ ~Marked(r)
           /\ run[r].kind = "pressure" => stopper.cell # r /\ ~Marked(r)
           /\ run[r].pc # "off" => r <= started
           /\ run[r].pc \in {"prepare", "finish", "close", "nil"} =>
                 run[r].kind \in AuditModes /\ CellOf(r) = r
<1>1. run[r] \in Run /\ cell[r] \in Cell /\ cell[Pressure] \in Cell /\ r # 0
  BY Numbers DEF Apart, Counting, TypeOK
<1>2. run[r].kind = "pressure" \/ run[r].kind \in AuditModes
  BY <1>1 DEF Run, Kinds
<1>3. CellOf(r) \in {r, Pressure}
  BY DEF CellOf
<1>4. stopper.pc \in {"idle", "next", "close", "nil"}
  BY DEF Apart, Counting, TypeOK
<1>5. run[r].pc \notin {"off", "parked"} => stopper.cell # r /\ ~Marked(r)
  BY <1>1, <1>4, Numbers DEF Apart, StopperApart, Marked
<1>6. run[r].kind = "pressure" => stopper.cell # r /\ ~Marked(r)
  BY <1>1, <1>4, Numbers DEF Apart, StopperApart, Marked, AuditRuns, AuditModes
<1>7. run[r].pc # "off" => r <= started
  <2>1. RunApart(r) /\ started \in Nat /\ r \in Nat
    BY Numbers DEF Apart, Counting, TypeOK
  <2> QED BY <2>1 DEF RunApart, NoRun
<1>8. run[r].pc \in {"prepare", "finish", "close", "nil"} =>
         run[r].kind \in AuditModes /\ CellOf(r) = r
  BY <1>2 DEF Apart, RunApart, CellOf, AuditModes
<1> QED BY <1>1, <1>2, <1>3, <1>5, <1>6, <1>7, <1>8

\* A step of run r that changes nothing it shares
LEMMA MoveApart ==
    ASSUME Apart, Counting', NEW r \in Runs, NEW k \in Run,
           run' = [run EXCEPT ![r] = k], k.kind = run[r].kind,
           UNCHANGED <<cell, tasks, closed, started, stopper, crashed>>,
           stopper.cell # r, RunApart(r)'
    PROVE  Apart'
<1>1. \A s \in Runs : run'[s].kind = run[s].kind /\ (s # r => run'[s] = run[s])
  BY DEF Apart, Counting, TypeOK
<1>2. AuditRuns' = AuditRuns
  BY <1>1 DEF AuditRuns
<1>3. StopperApart'
  <2>1. stopper.cell # r => run'[stopper.cell] = run[stopper.cell]
    BY DEF Apart, Counting, TypeOK
  <2> QED BY <1>2, <2>1 DEF Apart, StopperApart
<1>4. PressureApart'
  BY <1>1 DEF Apart, PressureApart
<1>5. ASSUME NEW s \in Runs, s # r PROVE RunApart(s)'
  <2>1. RunApart(s) /\ run'[s] = run[s]
    BY <1>1, <1>5 DEF Apart
  <2> QED BY <2>1 DEF RunApart, Active, OwnChannel, Marked, CellOf
<1> QED BY <1>2, <1>3, <1>4, <1>5 DEF Apart

\* A step of an active run r that changes the counters of its cell as well
LEMMA CountApart ==
    ASSUME Apart, Counting', NEW r \in Runs, NEW k \in Run, NEW c,
           Active(r), stopper.cell # r,
           run' = [run EXCEPT ![r] = k], k.kind = run[r].kind,
           cell' = [cell EXCEPT ![CellOf(r)] = c],
           c.running = cell[CellOf(r)].running, c.stopCh = cell[CellOf(r)].stopCh,
           UNCHANGED <<tasks, closed, started, stopper, crashed>>, RunApart(r)'
    PROVE  Apart'
<1>1. \A s \in Runs : run'[s].kind = run[s].kind /\ (s # r => run'[s] = run[s])
  BY DEF Apart, Counting, TypeOK
<1>2. AuditRuns' = AuditRuns
  BY <1>1 DEF AuditRuns
<1>3. StopperApart'
  <2>1. run'[stopper.cell] = run[stopper.cell]
    BY DEF Apart, Counting, TypeOK
  <2> QED BY <1>2, <2>1 DEF Apart, StopperApart
<1>4. \A x \in Cells : /\ cell'[x].running = cell[x].running
                       /\ cell'[x].stopCh = cell[x].stopCh
                       /\ x # CellOf(r) => cell'[x] = cell[x]
  BY DEF Apart, Counting, TypeOK
<1>5. PressureApart' /\ \A s \in Runs : cell'[s].stopCh \in {Nil, s}
  BY <1>1, <1>4, Numbers DEF Apart, PressureApart
<1>6. ASSUME NEW s \in Runs, s # r PROVE RunApart(s)'
  <2>1. RunApart(s) /\ run'[s] = run[s] /\ CellOf(s) \in Cells /\ s \in Cells /\ Pressure \in Cells
    BY <1>1, <1>6, CellOfTyped, Numbers DEF Apart
  <2>2. CellOf(s)' = CellOf(s)
    BY <2>1 DEF CellOf
  <2>3. Active(s) /\ run[s].kind = "pressure" => cell'[Pressure] = cell[Pressure]
    <3>1. Active(s) /\ Active(r) => (CellOf(s) = CellOf(r) => s = r)
      BY DEF Apart, RunApart, OwnChannel
    <3> QED BY <1>4, <1>6, <2>1, <3>1 DEF CellOf
  <2> QED BY <1>4, <2>1, <2>2, <2>3 DEF RunApart, Active, OwnChannel, Marked
<1> QED BY <1>2, <1>3, <1>5, <1>6 DEF Apart

\* Steps between two batches.  No run that sends finds its channel closed: a stop that closes
\* it ends the wait itself
LEMMA BetweenApart ==
    ASSUME Apart, prompt, Counting', Alive, NEW r \in Runs,
           \/ PlatformPrepare(r) \/ Loop(r) \/ StopSeen(r) \/ Park(r) \/ Tick(r) \/ BatchEnd(r)
           \/ Deadline(r)
    PROVE  Apart'
<1> USE ActiveApart
<1>0. RunApart(r) /\ run \in [Runs -> Run] /\ run[r] \in Run /\ run'[r] \in Run
      /\ cell[CellOf(r)] \in Cell
  BY CellOfTyped DEF Apart, Counting, TypeOK
<1> DEFINE Moves(k) == /\ run' = [run EXCEPT ![r] = k] /\ run'[r] = k
                       /\ k \in Run /\ k.kind = run[r].kind
<1>1. CASE PlatformPrepare(r)
  <2>0. run[r].pc = "prepare" /\ Active(r) /\ CellOf(r) = r /\ stopper.cell # r /\ ~Marked(r)
    BY <1>1 DEF PlatformPrepare, Active
  <2>1. CASE Goto(r, "loop") /\ UNCHANGED cell
    <3> DEFINE k == [run[r] EXCEPT !.pc = "loop"]
    <3>1. Moves(k)
      BY <1>0, <2>1 DEF Goto, Run, RunPC
    <3>2. RunApart(r)'
      BY <1>0, <1>1, <2>0, <2>1, <3>1
         DEF PlatformPrepare, RunApart, Active, OwnChannel, Marked, CellOf, NoRun
    <3> QED BY <1>1, <2>0, <2>1, <3>1, <3>2, MoveApart DEF PlatformPrepare, Alive
  <2>2. CASE cell' = [cell EXCEPT ![r].errs = @ + cell[r].total] /\ Goto(r, "finish")
    <3> DEFINE k == [run[r] EXCEPT !.pc = "finish"]
               c == [cell[CellOf(r)] EXCEPT !.errs = @ + cell[r].total]
    <3>1. Moves(k)
      <4>1. run' = [run EXCEPT ![r] = k]
        BY <2>2 DEF Goto
      <4>2. k.kind = run[r].kind
        BY <1>0 DEF Run
      <4> HIDE DEF k
      <4> QED BY <1>0, <4>1, <4>2
    <3>2. /\ cell' = [cell EXCEPT ![CellOf(r)] = c]
          /\ c.running = cell[CellOf(r)].running /\ c.stopCh = cell[CellOf(r)].stopCh
          /\ cell'[r] = c
      BY <2>0, <2>2, Numbers DEF Cell, Apart, Counting, TypeOK
    <3>3. RunApart(r)'
      BY <1>0, <1>1, <2>0, <2>2, <3>1, <3>2
         DEF PlatformPrepare, RunApart, Active, OwnChannel, Marked, CellOf, NoRun
    <3> HIDE DEF k, c
    <3> QED BY <1>1, <2>0, <3>1, <3>2, <3>3, CountApart DEF PlatformPrepare, Alive
  <2> QED BY <1>1, <2>1, <2>2 DEF PlatformPrepare
<1>2. CASE Loop(r)
  <2>0. run[r].pc = "loop" /\ Active(r) /\ stopper.cell # r /\ ~Marked(r)
    BY <1>2 DEF Loop, Active
  <2> DEFINE k == IF Exhausted(r) THEN [run[r] EXCEPT !.pc = "finish"]
                  ELSE [run[r] EXCEPT !.pc = "select", !.ch = cell[CellOf(r)].stopCh]
  <2>1. Moves(k)
    <3>1. run' = [run EXCEPT ![r] = k]
      BY <1>2 DEF Loop, Goto
    <3>2. k.kind = run[r].kind
      BY <1>0 DEF Run
    <3> HIDE DEF k
    <3> QED BY <1>0, <3>1, <3>2
  <2>2. k.pc = "finish" => run[r].kind \in AuditModes
    BY <1>0 DEF Exhausted, Run
  <2>3. k.pc \in {"finish", "select"} /\ (k.pc = "select" => k.ch = r)
    BY <1>0, <2>0 DEF RunApart, OwnChannel, Run
  <2>4. k.mine = run[r].mine /\ k.timed = run[r].timed
    BY <1>0 DEF Run
  <2> HIDE DEF k
  <2>5. RunApart(r)'
    BY <1>0, <1>2, <2>0, <2>1, <2>2, <2>3, <2>4
       DEF Loop, RunApart, Active, OwnChannel, Marked, CellOf, NoRun, AuditModes
  <2> QED BY <1>2, <2>0, <2>1, <2>5, MoveApart DEF Loop, Alive
<1>3. CASE StopSeen(r)
  BY <1>0, <1>3 DEF StopSeen, RunApart, Active, OwnChannel
<1>4. CASE Park(r)
  <2>0. run[r].pc = "select" /\ Active(r) /\ stopper.cell # r
    BY <1>4 DEF Park, Active
  <2> DEFINE k == [run[r] EXCEPT !.pc = "parked"]
  <2>1. Moves(k)
    BY <1>0, <1>4 DEF Park, Goto, Run, RunPC
  <2>2. RunApart(r)'
    BY <1>0, <1>4, <2>0, <2>1 DEF Park, RunApart, Active, OwnChannel, Marked, CellOf, NoRun
  <2> QED BY <1>4, <2>0, <2>1, <2>2, MoveApart DEF Park, Alive
<1>5. CASE Tick(r)
  <2>0. run[r].pc \in {"select", "parked"} /\ Active(r) /\ stopper.cell # r
    BY <1>5 DEF Tick, Active, NotStopping
  <2> DEFINE n == IF run[r].kind = "pressure" THEN run[r].ticks + 1 ELSE run[r].ticks
             k == [run[r] EXCEPT !.pc = "batch", !.left = run[r].perTick, !.step = "first",
                       !.ticks = n]
  <2>1. run' = [run EXCEPT ![r] = k]
    BY <1>5, Zenon DEF Tick
  <2> HIDE DEF n
  <2>2. Moves(k)
    <3>1. k.kind = run[r].kind
      BY <1>0 DEF Run
    <3> HIDE DEF k
    <3> QED BY <1>0, <2>1, <3>1
  <2>3. RunApart(r)'
    BY <1>0, <1>5, <2>0, <2>2 DEF Tick, RunApart, Active, OwnChannel, Marked, CellOf, NoRun
  <2> QED BY <1>5, <2>0, <2>2, <2>3, MoveApart DEF Tick, Alive
<1>6. CASE BatchEnd(r)
  <2>0. run[r].pc = "batch" /\ Active(r) /\ stopper.cell # r
    BY <1>6 DEF BatchEnd, Active
  <2> DEFINE k == [run[r] EXCEPT !.pc = "loop"]
  <2>1. Moves(k)
    BY <1>0, <1>6 DEF BatchEnd, Goto, Run, RunPC
  <2>2. RunApart(r)'
    BY <1>0, <1>6, <2>0, <2>1 DEF BatchEnd, RunApart, Active, OwnChannel, Marked, CellOf, NoRun
  <2> QED BY <1>6, <2>0, <2>1, <2>2, MoveApart DEF BatchEnd, Alive
<1>7. CASE Deadline(r)
  <2>0. /\ run[r].pc \in {"select", "parked"} /\ Active(r) /\ run[r].kind = "pressure"
        /\ stopper.cell # r
    BY <1>0, <1>7 DEF Deadline, Active, RunApart
  <2> DEFINE k == [run[r] EXCEPT !.pc = "expire"]
  <2>1. Moves(k)
    BY <1>0, <1>7 DEF Deadline, Goto, Run, RunPC
  <2>2. RunApart(r)'
    BY <1>0, <1>7, <2>0, <2>1
       DEF Deadline, RunApart, Active, OwnChannel, Marked, CellOf, NoRun, AuditModes
  <2> QED BY <1>7, <2>0, <2>1, <2>2, MoveApart DEF Deadline, Alive
<1> QED BY <1>1, <1>2, <1>3, <1>4, <1>5, <1>6, <1>7

\* A message, or a step of a cycle: what the run counts, its cell counts
LEMMA AttemptApart ==
    ASSUME Apart, prompt, Counting', Alive, NEW r \in Runs, Attempt(r)
    PROVE  Apart'
<1> USE ActiveApart
<1>0. RunApart(r) /\ run \in [Runs -> Run] /\ cell \in [Cells -> Cell] /\ CellOf(r) \in Cells
  BY CellOfTyped DEF Apart, Counting, TypeOK
<1>b. Sending(r) /\ run[r].pc = "batch"
  BY DEF Attempt, Send, SendOne, SendStep, SendFails, SkipOffline, Sending
<1>a. Active(r) /\ stopper.cell # r /\ ~Marked(r)
  BY <1>b DEF Active
<1> DEFINE mine(n) == IF run[r].kind = "pressure" THEN run[r].mine + n ELSE run[r].mine
           left(step) == IF step = "first" THEN run[r].left - 1 ELSE run[r].left
           next(step, n) == [run[r] EXCEPT !.step = step, !.mine = mine(n), !.left = left(step)]
<1>1. ASSUME NEW step \in {"first", "claim", "return"}, NEW n \in {0, 1}, StepTo(r, step, n)
      PROVE  /\ run' = [run EXCEPT ![r] = next(step, n)] /\ run'[r] = next(step, n)
             /\ next(step, n) \in Run /\ next(step, n).kind = run[r].kind
             /\ next(step, n).pc = "batch" /\ next(step, n).timed = run[r].timed
             /\ next(step, n).mine = mine(n)
  <2>1. run' = [run EXCEPT ![r] = next(step, n)]
    BY <1>1 DEF StepTo
  <2>2. run'[r] \in Run
    BY DEF Counting, TypeOK
  <2> HIDE DEF mine, left
  <2> QED BY <1>0, <1>b, <2>1, <2>2 DEF Run
<1> HIDE DEF left, next
\* The run goes on with its batch and its cell keeps the flag and the field
<1>2. ASSUME NEW step \in {"first", "claim", "return"}, NEW n \in {0, 1}, StepTo(r, step, n),
             NEW c \in Cell, cell' = [cell EXCEPT ![CellOf(r)] = c],
             c.running = cell[CellOf(r)].running, c.stopCh = cell[CellOf(r)].stopCh,
             run[r].kind = "pressure" =>
                 c.sent + c.errs = cell[CellOf(r)].sent + cell[CellOf(r)].errs + n,
             UNCHANGED <<tasks, closed, started, stopper, crashed>>
      PROVE  Apart'
  <2>1. /\ run' = [run EXCEPT ![r] = next(step, n)] /\ run'[r] = next(step, n)
        /\ next(step, n) \in Run /\ next(step, n).kind = run[r].kind
        /\ next(step, n).pc = "batch" /\ next(step, n).timed = run[r].timed
        /\ next(step, n).mine = mine(n)
    BY <1>1, <1>2
  <2>2. cell'[CellOf(r)] = c /\ CellOf(r)' = CellOf(r)
    BY <1>0, <1>2, <2>1 DEF CellOf
  <2>3. RunApart(r)'
    <3>1. run[r].kind = "pressure" => CellOf(r) = Pressure /\ mine(n) = run[r].mine + n
      BY DEF CellOf
    <3>2. OwnChannel(r)' /\ cell'[CellOf(r)].running
      BY <1>0, <1>2, <1>a, <2>2 DEF RunApart, OwnChannel
    <3>3. run[r].kind = "pressure" => cell'[Pressure].sent + cell'[Pressure].errs = run'[r].mine
      BY <1>0, <1>2, <1>a, <2>1, <2>2, <3>1 DEF RunApart
    <3>4. run[r].kind \in AuditModes => tasks'[run[r].kind] = r
      BY <1>0, <1>2, <1>a DEF RunApart
    <3> QED BY <1>0, <1>2, <1>b, <2>1, <2>2, <3>2, <3>3, <3>4 DEF RunApart, NoRun
  <2> QED BY <1>2, <1>a, <2>1, <2>3, CountApart
<1>3. /\ cell[CellOf(r)] \in Cell
      /\ cell = [cell EXCEPT ![CellOf(r)] = cell[CellOf(r)]]
      /\ cell[CellOf(r)].sent \in Nat /\ cell[CellOf(r)].errs \in Nat
  BY <1>0 DEF Cell
<1>4. CASE SkipOffline(r)
  BY <1>2, <1>3, <1>4 DEF SkipOffline, Alive
<1>5. CASE SendFails(r)
  <2> DEFINE c == [cell[CellOf(r)] EXCEPT !.errs = @ + 1]
  <2>1. /\ c \in Cell /\ c.running = cell[CellOf(r)].running
        /\ c.stopCh = cell[CellOf(r)].stopCh
        /\ c.sent + c.errs = cell[CellOf(r)].sent + cell[CellOf(r)].errs + 1
        /\ cell' = [cell EXCEPT ![CellOf(r)] = c]
    BY <1>3, <1>5 DEF Cell, SendFails
  <2> HIDE DEF c
  <2> QED BY <1>2, <1>5, <2>1 DEF SendFails, Alive
<1>6. CASE SendOne(r)
  <2> DEFINE c == [cell[CellOf(r)] EXCEPT !.sent = @ + 1]
  <2>1. /\ c \in Cell /\ c.running = cell[CellOf(r)].running
        /\ c.stopCh = cell[CellOf(r)].stopCh
        /\ c.sent + c.errs = cell[CellOf(r)].sent + cell[CellOf(r)].errs + 1
        /\ cell' = [cell EXCEPT ![CellOf(r)] = c]
    BY <1>3, <1>6 DEF Cell, SendOne
  <2> HIDE DEF c
  <2> QED BY <1>2, <1>6, <2>1 DEF SendOne, Alive
<1>7. CASE SendStep(r)
  <2>0. CellOf(r) = r /\ run[r].kind = "platform"
    BY <1>7 DEF SendStep, CellOf
  <2>1. CASE StepTo(r, "claim", 0) /\ UNCHANGED cell
    BY <1>2, <1>3, <1>7, <2>1 DEF SendStep, Alive
  <2>2. CASE StepTo(r, "return", 0) /\ cell' = [cell EXCEPT ![r].claimSent = @ + 1]
    <3> DEFINE c == [cell[CellOf(r)] EXCEPT !.claimSent = @ + 1]
    <3>1. /\ c \in Cell /\ c.running = cell[CellOf(r)].running
          /\ c.stopCh = cell[CellOf(r)].stopCh /\ cell' = [cell EXCEPT ![CellOf(r)] = c]
      BY <1>3, <2>0, <2>2 DEF Cell
    <3> HIDE DEF c
    <3> QED BY <1>2, <1>7, <2>0, <2>2, <3>1 DEF SendStep, Alive
  <2>3. CASE /\ StepTo(r, "first", 1)
             /\ cell' = [cell EXCEPT ![r].returnSent = @ + 1, ![r].sent = @ + 1]
    <3> DEFINE c == [cell[CellOf(r)] EXCEPT !.returnSent = @ + 1, !.sent = @ + 1]
    <3>1. /\ c \in Cell /\ c.running = cell[CellOf(r)].running
          /\ c.stopCh = cell[CellOf(r)].stopCh /\ cell' = [cell EXCEPT ![CellOf(r)] = c]
      BY <1>0, <1>3, <2>0, <2>3 DEF Cell
    <3> HIDE DEF c
    <3> QED BY <1>2, <1>7, <2>0, <2>3, <3>1 DEF SendStep, Alive
  <2> QED BY <1>7, <2>1, <2>2, <2>3 DEF SendStep
<1> QED BY <1>4, <1>5, <1>6, <1>7 DEF Attempt, Send

\* A step that is about run x, and about the pressure test only if no other run belongs to it
LEMMA OthersApart ==
    ASSUME Apart, NEW x \in Runs, x <= started,
           \A s \in Runs : s # x => run'[s] = run[s] /\ cell'[s] = cell[s],
           closed' \subseteq closed \cup {x}, UNCHANGED <<tasks, started>>,
           \/ cell'[Pressure] = cell[Pressure]
           \/ \A s \in Runs : Active(s) /\ run[s].kind = "pressure" => s = x,
           \A s \in Runs : s # x => (Marked(s) => Marked(s)'),
           NEW s \in Runs, s # x
    PROVE  RunApart(s)'
<1>1. run'[s] = run[s] /\ cell'[s] = cell[s] /\ (Marked(s) => Marked(s)') /\ RunApart(s)
  BY DEF Apart
<1>2. s \notin closed => s \notin closed'
  OBVIOUS
<1>3. CellOf(s)' = CellOf(s) /\ CellOf(s) \in {s, Pressure}
  BY <1>1 DEF CellOf
<1>4. Active(s) => cell'[CellOf(s)] = cell[CellOf(s)]
  BY <1>1, <1>3 DEF CellOf
<1>5. run[s].pc = "finish" => cell'[CellOf(s)] = cell[CellOf(s)] /\ CellOf(s) = s
  BY <1>1, ActiveApart
<1>6. run[s].pc = "close" => cell'[CellOf(s)] = cell[CellOf(s)] /\ CellOf(s) = s
  BY <1>1, ActiveApart
<1>7. Active(s) /\ run[s].kind = "pressure" => cell'[Pressure] = cell[Pressure]
  OBVIOUS
<1> QED BY <1>1, <1>2, <1>3, <1>4, <1>5, <1>6, <1>7 DEF RunApart, Active, OwnChannel

\* A run that starts finds no other run that sends under its kind: neither does the mode have
\* one with the flag set, nor is a stop under way
LEMMA StartApart ==
    ASSUME Apart, prompt, Counting', Alive, NEW r \in Int, r = started + 1,
           \/ \E mode \in AuditModes, total \in Totals, rate \in Rates :
                 StartAuditGen(mode, total, rate)
           \/ \E timed \in BOOLEAN, frequency \in Frequencies : StartPressure(timed, frequency)
    PROVE  Apart'
<1>0. /\ run \in [Runs -> Run] /\ cell \in [Cells -> Cell] /\ tasks \in [AuditModes -> Cells]
      /\ started \in Nat /\ stopper.pc \in {"idle", "next", "close", "nil"}
      /\ Counting
  BY Numbers DEF Apart, Counting, TypeOK
<1>1. ASSUME started < MaxRuns
      PROVE  /\ r \in Runs /\ r # 0 /\ run[r] = NoRun /\ r \notin closed /\ r \in Cells
             /\ r \notin AuditRuns /\ stopper.cell # r
  <2>1. r \in Runs /\ r # 0 /\ r \in Cells /\ r > started
    BY <1>0, <1>1, Numbers
  <2>2. run[r] = NoRun /\ r \notin closed
    BY <2>1 DEF Apart, RunApart
  <2>3. r \notin AuditRuns
    BY <1>0, <2>1 DEF AuditRuns
  <2> QED BY <1>0, <2>1, <2>2, <2>3, Numbers DEF Apart, StopperApart
\* What every start leaves as it was
<1>2. ASSUME started < MaxRuns, started' = r, UNCHANGED <<closed, stopper, crashed>>,
             NEW k, run' = [run EXCEPT ![r] = k]
      PROVE  /\ \A s \in Runs : s # r => run'[s] = run[s]
             /\ AuditRuns \subseteq AuditRuns' /\ StopperApart'
             /\ \A s \in Runs : s <= started => s <= started' /\ s # r
  <2>1. \A s \in Runs : s # r => run'[s] = run[s]
    BY <1>0, <1>2
  <2>2. \A s \in Runs : s <= started => s <= started' /\ s # r
    <3>1. started' = r /\ \A s \in Runs : s \in Nat
      BY <1>2, Numbers
    <3> QED BY <1>0, <3>1
  <2>3. AuditRuns \subseteq AuditRuns'
    BY <2>1, <2>2 DEF AuditRuns
  <2>4. stopper.pc \in {"close", "nil"} => run'[stopper.cell] = run[stopper.cell]
    BY <1>1, <1>2, <2>1 DEF Apart, StopperApart, AuditRuns
  <2>5. StopperApart'
    BY <1>2, <2>3, <2>4 DEF Apart, StopperApart
  <2> QED BY <2>1, <2>2, <2>3, <2>5
\* A run that is not there to take over
<1>3. ASSUME NEW s \in Runs, s > r PROVE s > started /\ s # r
  BY <1>0, <1>3 DEF Runs
<1>4. ASSUME NEW mode \in AuditModes, NEW total \in Totals, NEW rate \in Rates,
             StartAuditGen(mode, total, rate)
      PROVE  Apart'
  <2> DEFINE k == [NoRun EXCEPT
                !.pc = IF mode = "platform" THEN "prepare" ELSE "loop",
                !.kind = mode, !.perTick = PerTick(NormalRate(rate))]
             c == [NoCell EXCEPT !.running = TRUE, !.stopCh = r, !.total = NormalTotal(total)]
  <2>1. /\ stopper.pc = "idle" /\ started < MaxRuns /\ started' = r
        /\ ~(tasks[mode] # None /\ cell[tasks[mode]].running)
        /\ tasks' = [tasks EXCEPT ![mode] = r]
        /\ run' = [run EXCEPT ![r] = k] /\ cell' = [cell EXCEPT ![r] = c]
        /\ UNCHANGED <<closed, stopper, crashed>>
    BY <1>4 DEF StartAuditGen, Alive
  <2>2. k.pc \in {"prepare", "loop"} /\ k.kind = mode /\ k.timed = FALSE
    BY DEF NoRun
  <2>3. c.running /\ c.stopCh = r
    BY DEF NoCell
  <2> HIDE DEF k, c
  <2>4. /\ \A s \in Runs : s # r => run'[s] = run[s] /\ cell'[s] = cell[s]
        /\ run'[r] = k /\ cell'[r] = c /\ cell'[Pressure] = cell[Pressure]
    BY <1>0, <1>1, <2>1, Numbers
  <2>5. RunApart(r)'
    <3>1. CellOf(r)' = r
      BY <2>2, <2>4 DEF CellOf, AuditModes
    <3> QED BY <1>0, <1>1, <2>1, <2>2, <2>3, <2>4, <3>1
            DEF RunApart, Active, OwnChannel, AuditModes
  <2>6. ASSUME NEW s \in Runs, s # r PROVE RunApart(s)'
    <3>1. RunApart(s) /\ run'[s] = run[s] /\ cell'[s] = cell[s] /\ ~Marked(s)
      BY <2>1, <2>4, <2>6 DEF Apart, Marked
    <3>2. CellOf(s)' = CellOf(s) /\ cell'[CellOf(s)] = cell[CellOf(s)]
      BY <2>4, <3>1 DEF CellOf
    <3>3. Active(s) /\ run[s].kind \in AuditModes => tasks'[run[s].kind] = s
      <4>1. SUFFICES ASSUME Active(s), run[s].kind = mode PROVE FALSE
        BY <1>0, <2>1, <3>1 DEF RunApart
      <4>2. CellOf(s) = s
        BY <4>1 DEF CellOf, AuditModes
      <4>3. tasks[mode] = s /\ cell[s].running
        BY <3>1, <4>1, <4>2 DEF RunApart
      <4> QED BY <2>1, <4>3, Numbers
    <3>4. s > started' => run'[s] = NoRun /\ s \notin closed'
      BY <1>3, <2>1, <3>1 DEF RunApart
    <3> QED BY <2>1, <2>4, <3>1, <3>2, <3>3, <3>4 DEF RunApart, Active, OwnChannel
  <2>7. \A s \in Runs : cell'[s].stopCh \in {Nil, s}
    BY <1>0, <2>3, <2>4 DEF Apart
  <2>8. PressureApart'
    BY <1>2, <2>1, <2>4 DEF Apart, PressureApart
  <2>9. \A m \in AuditModes : tasks'[m] # None => tasks'[m] \in AuditRuns'
    <3>1. r \in AuditRuns'
      BY <1>0, <1>1, <2>1, <2>2, <2>4 DEF AuditRuns
    <3> QED BY <1>0, <1>2, <2>1, <3>1 DEF Apart
  <2> QED BY <1>2, <2>1, <2>5, <2>6, <2>7, <2>8, <2>9 DEF Apart
<1>5. ASSUME NEW timed \in BOOLEAN, NEW frequency \in Frequencies, StartPressure(timed, frequency)
      PROVE  Apart'
  <2> DEFINE k == [NoRun EXCEPT !.pc = "loop", !.kind = "pressure",
                                !.perTick = PressureSends, !.timed = timed]
             c == [NoCell EXCEPT !.running = TRUE, !.stopCh = r]
  <2>1. /\ started < MaxRuns /\ started' = r /\ ~cell[Pressure].running
        /\ run' = [run EXCEPT ![r] = k] /\ cell' = [cell EXCEPT ![Pressure] = c]
        /\ UNCHANGED <<tasks, closed, stopper, crashed>>
    <3>1. Interval(frequency) > 0
      BY <1>5 DEF StartPressure
    <3> QED BY <1>5, <3>1 DEF StartPressure, Alive
  <2>2. k.pc = "loop" /\ k.kind = "pressure" /\ k.mine = 0
    BY DEF NoRun
  <2>3. c.running /\ c.stopCh = r /\ c.sent = 0 /\ c.errs = 0
    BY DEF NoCell
  <2> HIDE DEF k, c
  <2>4. /\ \A s \in Runs : s # r => run'[s] = run[s]
        /\ \A s \in Runs : cell'[s] = cell[s]
        /\ run'[r] = k /\ cell'[Pressure] = c
    BY <1>0, <1>1, <2>1, Numbers
  <2>5. RunApart(r)'
    <3>1. CellOf(r)' = Pressure
      BY <2>2, <2>4 DEF CellOf
    <3> QED BY <1>0, <1>1, <2>1, <2>2, <2>3, <2>4, <3>1
            DEF RunApart, Active, OwnChannel, AuditModes
  <2>6. ASSUME NEW s \in Runs, s # r PROVE RunApart(s)'
    <3>1. /\ RunApart(s) /\ run'[s] = run[s] /\ cell'[s] = cell[s] /\ Marked(s)' = Marked(s)
          /\ CellOf(s)' = CellOf(s)
      BY <2>1, <2>4, <2>6 DEF Apart, Marked, CellOf
    <3>2. Active(s) => run[s].kind # "pressure" /\ CellOf(s) = s
      BY <2>1, <3>1, ActiveApart DEF RunApart, CellOf
    <3>3. run[s].pc \in {"finish", "close"} => CellOf(s) = s
      BY ActiveApart
    <3>4. s > started' => run'[s] = NoRun /\ s \notin closed'
      BY <1>3, <2>1, <3>1 DEF RunApart
    <3> QED BY <2>1, <3>1, <3>2, <3>3, <3>4 DEF RunApart, Active, OwnChannel
  <2>7. \A s \in Runs : cell'[s].stopCh \in {Nil, s}
    BY <2>4 DEF Apart
  <2>8. PressureApart'
    <3>1. r <= started'
      BY <1>0, <2>1
    <3> QED BY <1>1, <2>1, <2>2, <2>3, <2>4, <3>1 DEF PressureApart
  <2> QED BY <1>2, <2>1, <2>5, <2>6, <2>7, <2>8 DEF Apart
<1> QED BY <1>4, <1>5

\* A run that waits has its own channel in its select and in its cell: closing the channel of
\* run x wakes up no other one
LEMMA CloseApart ==
    ASSUME Apart, NEW x \in Runs, NEW s \in Runs, run[s].pc = "parked"
    PROVE  run[s].ch = x <=> s = x
BY DEF Apart, RunApart, Active

\* The requests to stop, from their start to their end
LEMMA StopApart ==
    ASSUME Apart, prompt, Counting', Alive,
           StopAuditGen \/ StopFlag \/ StopClose \/ StopNil \/ StopDone
    PROVE  Apart'
<1>0. /\ run \in [Runs -> Run] /\ cell \in [Cells -> Cell] /\ tasks \in [AuditModes -> Cells]
      /\ stopper \in [pc : {"idle", "next", "close", "nil"}, todo : SUBSET Cells,
                      cell : Cells, seen : Channels]
      /\ Runs \subseteq Cells
  BY Numbers DEF Apart, Counting, TypeOK
<1>1. CASE StopAuditGen \/ StopDone
  <2>1. UNCHANGED <<cell, tasks, closed, started, run, crashed>>
    BY <1>1 DEF StopAuditGen, StopDone, Alive
  <2>2. /\ stopper'.pc \in {"idle", "next"} /\ stopper.pc \in {"idle", "next"}
        /\ stopper'.cell = None /\ stopper'.todo \subseteq AuditRuns
    <3>1. ASSUME NEW m \in AuditModes, tasks[m] # None PROVE tasks[m] \in AuditRuns
      BY <3>1 DEF Apart
    <3>2. {tasks[m] : m \in AuditModes} \ {None} \subseteq AuditRuns
      BY <3>1
    <3>3. CASE StopAuditGen
      <4>1. PICK todo : /\ todo \subseteq AuditRuns
                        /\ stopper' = [NoStop EXCEPT !.pc = "next", !.todo = todo]
        <5>1. CASE stopper' = [NoStop EXCEPT !.pc = "next",
                                  !.todo = {tasks[m] : m \in AuditModes} \ {None}]
          BY <3>2, <5>1
        <5>2. ASSUME NEW m \in AuditModes, tasks[m] # None,
                     stopper' = [NoStop EXCEPT !.pc = "next", !.todo = {tasks[m]}]
              PROVE  \E todo : /\ todo \subseteq AuditRuns
                               /\ stopper' = [NoStop EXCEPT !.pc = "next", !.todo = todo]
          <6>1. {tasks[m]} \subseteq AuditRuns
            BY <3>1, <5>2
          <6> QED BY <5>2, <6>1
        <5> QED BY <3>3, <5>1, <5>2 DEF StopAuditGen
      <4> QED BY <3>3, <4>1 DEF StopAuditGen, NoStop
    <3>4. CASE StopDone
      BY <3>4 DEF StopDone, NoStop
    <3> QED BY <1>1, <3>3, <3>4
  <2>3. StopperApart'
    BY <2>1, <2>2 DEF StopperApart, AuditRuns
  <2>4. ASSUME NEW s \in Runs PROVE RunApart(s)'
    BY <2>1, <2>2, <2>4 DEF Apart, RunApart, Active, OwnChannel, CellOf, Marked
  <2> QED BY <2>1, <2>3, <2>4 DEF Apart, PressureApart, AuditRuns
<1>2. CASE StopFlag
  <2>1. PICK x \in stopper.todo :
           LET stops == cell[x].running /\ cell[x].stopCh # Nil IN
           /\ Waiting(x)
           /\ cell' = [cell EXCEPT ![x].running = FALSE]
           /\ stopper' = [pc |-> IF stops THEN "close" ELSE "next", todo |-> stopper.todo \ {x},
                         cell |-> IF stops THEN x ELSE None,
                         seen |-> IF stops THEN cell[x].stopCh ELSE Nil]
    BY <1>2 DEF StopFlag
  <2>2. /\ UNCHANGED <<tasks, closed, started, run, crashed>>
        /\ stopper.pc = "next" /\ x \in AuditRuns /\ x \in Runs /\ x <= started
        /\ run[x].kind \in AuditModes /\ CellOf(x) = x
    BY <1>2 DEF StopFlag, Alive, Apart, StopperApart, AuditRuns, CellOf, AuditModes
  <2>3. run[x].pc \in {"off", "parked"}
    BY <2>1, <2>2 DEF Waiting
  <2>4. /\ \A y \in Cells : y # x => cell'[y] = cell[y]
        /\ cell'[x].stopCh = cell[x].stopCh
    BY <1>0, <2>1, <2>2 DEF Cell
  <2>5. cell'[Pressure] = cell[Pressure]
    BY <2>2, <2>4, Numbers
  <2>6. \A s \in Runs : s # x => RunApart(s)'
    <3>1. \A s \in Runs : ~Marked(s)
      BY <2>2 DEF Marked
    <3>2. \A s \in Runs : s # x => run'[s] = run[s] /\ cell'[s] = cell[s]
      BY <1>0, <2>2, <2>4
    <3> QED BY <2>2, <2>5, <3>1, <3>2, OthersApart
  <2>7. run[x].pc = "parked" => OwnChannel(x) /\ Marked(x)' /\ OwnChannel(x)'
    <3>1. SUFFICES ASSUME run[x].pc = "parked" PROVE OwnChannel(x) /\ Marked(x)' /\ OwnChannel(x)'
      OBVIOUS
    <3>2. OwnChannel(x) /\ cell[x].running
      BY <2>2, <3>1 DEF Apart, RunApart, Active, Marked
    <3>3. cell[x].stopCh = x /\ x # Nil
      BY <2>2, <3>2, Numbers DEF OwnChannel
    <3>4. stopper'.pc = "close" /\ stopper'.cell = x
      BY <2>1, <3>2, <3>3
    <3>5. OwnChannel(x)'
      BY <2>2, <2>4, <3>2 DEF OwnChannel, CellOf
    <3> QED BY <3>2, <3>4, <3>5 DEF Marked
  <2>8. RunApart(x)'
    <3>1. RunApart(x) /\ CellOf(x)' = CellOf(x)
      BY <2>2 DEF Apart, CellOf
    <3> QED BY <2>2, <2>3, <2>4, <2>7, <3>1, Numbers DEF RunApart, Active, AuditModes
  <2>9. StopperApart'
    <3>1. cell[x].stopCh \in {Nil, x}
      BY <2>2 DEF Apart
    <3>2. stopper'.todo \subseteq AuditRuns
      BY <2>1 DEF Apart, StopperApart
    <3>3. stopper'.pc = "next" => stopper'.cell = None
      BY <2>1
    <3>4. stopper'.pc = "close" => stopper'.cell = x /\ stopper'.seen = x
      BY <2>1, <3>1
    <3>5. stopper'.pc \in {"next", "close"}
      BY <2>1
    <3> QED BY <2>2, <2>3, <3>2, <3>3, <3>4, <3>5 DEF StopperApart, AuditRuns
  <2>10. \A s \in Runs : cell'[s].stopCh \in {Nil, s}
    BY <1>0, <2>2, <2>4 DEF Apart
  <2> QED BY <2>2, <2>5, <2>6, <2>8, <2>9, <2>10 DEF Apart, PressureApart, AuditRuns
<1>3. CASE StopClose
  <2>1. PICK x \in Runs : x = stopper.cell
    BY <1>3 DEF StopClose, Apart, StopperApart, AuditRuns
  <2>2. /\ stopper.pc = "close" /\ x \in AuditRuns /\ x <= started
        /\ run[x].pc \in {"off", "parked"} /\ run[x].kind \in AuditModes /\ x # Nil
        /\ CellOf(x) = x
        /\ UNCHANGED <<cell, tasks, started, crashed>>
    BY <1>3, <2>1, Numbers
       DEF StopClose, Alive, Apart, StopperApart, AuditRuns, AuditModes, CellOf
  <2>3. PICK ch \in {x, cell[x].stopCh} :
           \/ Panics(ch) /\ stopper' = NoStop /\ UNCHANGED <<closed, run>>
           \/ ~Panics(ch) /\ Close(ch) /\ stopper' = [stopper EXCEPT !.pc = "nil"]
    BY <1>3, <2>1, <2>2 DEF StopClose, Apart, StopperApart
  <2>4. run[x].pc = "parked" => cell[x].stopCh = x /\ x \notin closed
    BY <2>2 DEF Apart, RunApart, Active, OwnChannel
  <2>5. CASE run[x].pc = "off" /\ stopper' = NoStop /\ UNCHANGED <<closed, run>>
    <3>1. ASSUME NEW s \in Runs PROVE RunApart(s)'
      BY <2>1, <2>2, <2>5 DEF Apart, RunApart, Active, OwnChannel, CellOf, Marked
    <3>2. StopperApart'
      BY <2>5 DEF Apart, StopperApart, AuditRuns, NoStop
    <3> QED BY <2>2, <2>5, <3>1, <3>2 DEF Apart, PressureApart, AuditRuns
  <2>6. CASE x \notin closed /\ Close(x) /\ stopper' = [stopper EXCEPT !.pc = "nil"]
    <3>1. closed' = closed \cup {x} /\ \A s \in Runs : s # x => run'[s] = run[s]
      BY <2>6, CloseApart DEF Close
    <3>2. \/ run'[x] = run[x] /\ run[x].pc = "off"
          \/ run'[x] = Gone(x)
      BY <2>2, <2>6, CloseApart DEF Close
    <3>3. run'[x].pc = "off" /\ run'[x].kind = run[x].kind /\ ~run'[x].timed
      BY <2>2, <3>2 DEF Gone, NoRun, Apart, RunApart
    <3>4. \A s \in Runs : s # x => RunApart(s)'
      <4>1. \A s \in Runs : s # x => ~Marked(s)
        BY <2>1 DEF Marked
      <4>2. \A s \in Runs : s # x => cell'[s] = cell[s]
        BY <2>2
      <4> QED BY <2>2, <3>1, <4>1, <4>2, OthersApart
    <3>5. RunApart(x)'
      <4>1. ~(x > started')
        BY <2>2, Numbers DEF Apart, Counting, TypeOK
      <4> QED BY <2>2, <3>3, <4>1 DEF RunApart, Active, AuditModes
    <3>6. \A s \in Runs : run'[s].kind = run[s].kind
      BY <3>1, <3>3
    <3>7. AuditRuns' = AuditRuns
      BY <2>2, <3>6 DEF AuditRuns
    <3>8. StopperApart'
      <4>1. stopper'.pc = "nil" /\ stopper'.cell = x /\ stopper'.todo = stopper.todo
        BY <1>0, <2>1, <2>6
      <4> QED BY <2>2, <3>3, <3>7, <4>1 DEF Apart, StopperApart
    <3>9. PressureApart'
      BY <2>2, <3>6 DEF Apart, PressureApart
    <3> QED BY <2>2, <3>4, <3>5, <3>7, <3>8, <3>9 DEF Apart
  <2>7. ch \in {x, Nil} /\ (run[x].pc = "parked" => ch = x)
    BY <2>3, <2>4 DEF Apart
  <2> QED BY <2>2, <2>3, <2>4, <2>5, <2>6, <2>7 DEF Panics
<1>4. CASE StopNil
  <2>1. PICK x \in Runs : x = stopper.cell
    BY <1>4 DEF StopNil, Apart, StopperApart, AuditRuns
  <2>2. /\ stopper.pc = "nil" /\ x <= started /\ run[x].pc = "off" /\ x # Pressure
        /\ cell' = [cell EXCEPT ![x].stopCh = Nil]
        /\ stopper' = [stopper EXCEPT !.pc = "next", !.cell = None, !.seen = Nil]
        /\ UNCHANGED <<tasks, closed, started, run, crashed>>
    BY <1>4, <2>1, Numbers DEF StopNil, Alive, Apart, StopperApart, AuditRuns
  <2>3. /\ \A s \in Runs : s # x => cell'[s] = cell[s]
        /\ cell'[Pressure] = cell[Pressure] /\ cell'[x].stopCh = Nil
    BY <1>0, <2>2, Numbers DEF Cell
  <2>4. \A s \in Runs : s # x => RunApart(s)'
    <3>1. \A s \in Runs : ~Marked(s)
      BY <2>2 DEF Marked
    <3> QED BY <2>2, <2>3, <3>1, OthersApart
  <2>5. RunApart(x)'
    BY <2>2 DEF Apart, RunApart, Active
  <2>6. StopperApart'
    BY <1>0, <2>2 DEF Apart, StopperApart, AuditRuns
  <2>7. \A s \in Runs : cell'[s].stopCh \in {Nil, s}
    BY <2>3 DEF Apart
  <2> QED BY <2>2, <2>3, <2>4, <2>5, <2>6, <2>7 DEF Apart, PressureApart, AuditRuns
<1> QED BY <1>1, <1>2, <1>3, <1>4

\* The pressure test is stopped by a request, or by itself when its time is up: what the
\* manager has then is the test that runs, and it is the one that ends
LEMMA PressureEnds ==
    ASSUME Apart, Counting', NEW p \in Runs, run[p].kind = "pressure", p <= started,
           cell[Pressure].stopCh = p \/ ~\E s \in Runs : Active(s) /\ run[s].kind = "pressure",
           closed' \subseteq closed \cup {p},
           cell' = [cell EXCEPT ![Pressure].running = FALSE, ![Pressure].stopCh = Nil],
           \A s \in Runs : s # p => run'[s] = run[s],
           run'[p].pc = "off", run'[p].kind = "pressure",
           UNCHANGED <<tasks, started, stopper, crashed>>
    PROVE  Apart'
<1>1. \A s \in Runs : Active(s) /\ run[s].kind = "pressure" => s = p
  BY DEF Apart, RunApart, OwnChannel, CellOf
<1>2. (\A s \in Runs : cell'[s] = cell[s]) /\ cell'[Pressure].stopCh = Nil
  BY Numbers DEF Apart, Counting, TypeOK, Cell
<1>3. \A s \in Runs : s # p => RunApart(s)'
  <2>1. \A s \in Runs : Marked(s) => Marked(s)'
    BY DEF Marked
  <2> QED BY <1>1, <1>2, <2>1, OthersApart
<1>4. RunApart(p)'
  <2>1. ~(p > started')
    BY Numbers DEF Apart, Counting, TypeOK
  <2> QED BY <2>1 DEF RunApart, Active, AuditModes
<1>5. AuditRuns' = AuditRuns
  BY DEF AuditRuns
<1>6. StopperApart'
  <2>1. stopper.cell \in AuditRuns => stopper.cell # p
    BY DEF AuditRuns, AuditModes
  <2> QED BY <1>5, <2>1 DEF Apart, StopperApart, AuditRuns
<1> QED BY <1>2, <1>3, <1>4, <1>5, <1>6 DEF Apart, PressureApart

LEMMA StopPressureApart ==
    ASSUME Apart, prompt, Counting', Alive, StopPressure
    PROVE  Apart'
<1>1. /\ cell' = [cell EXCEPT ![Pressure].running = FALSE, ![Pressure].stopCh = Nil]
      /\ UNCHANGED <<tasks, started, stopper, crashed>>
  BY DEF StopPressure, Alive
<1>2. CASE cell[Pressure].stopCh # Nil
  <2>1. PICK p \in Runs : /\ p = cell[Pressure].stopCh /\ p <= started
                          /\ run[p].kind = "pressure"
    BY <1>2 DEF Apart, PressureApart
  <2>2. Close(p)
    BY <1>2, <2>1 DEF StopPressure
  <2>3. closed' = closed \cup {p} /\ \A s \in Runs : s # p => run'[s] = run[s]
    BY <2>2, CloseApart DEF Close
  <2>4. run[p].pc \in {"off", "parked"}
    BY <2>1 DEF StopPressure, Waiting, CellOf
  <2>5. run'[p] \in {run[p], Gone(p)} /\ (run[p].pc = "parked" => run'[p] = Gone(p))
    BY <2>2, CloseApart DEF Close
  <2>6. run'[p].pc = "off" /\ run'[p].kind = "pressure"
    BY <2>1, <2>4, <2>5 DEF Gone, NoRun
  <2> QED BY <1>1, <2>1, <2>3, <2>6, PressureEnds
<1>3. CASE cell[Pressure].stopCh = Nil
  <2>1. UNCHANGED <<closed, run>>
    BY <1>3 DEF StopPressure
  <2>2. \A s \in Runs : Active(s) => run[s].kind # "pressure"
    BY <1>3, Numbers DEF Apart, RunApart, OwnChannel, CellOf
  <2>3. (\A s \in Runs : cell'[s] = cell[s]) /\ cell'[Pressure].stopCh = Nil
    BY <1>1, Numbers DEF Apart, Counting, TypeOK, Cell
  <2>4. ASSUME NEW s \in Runs PROVE RunApart(s)'
    <3>1. RunApart(s) /\ run'[s] = run[s] /\ cell'[s] = cell[s] /\ CellOf(s)' = CellOf(s)
      BY <2>1, <2>3 DEF Apart, CellOf
    <3>2. (Active(s) => CellOf(s) = s) /\ (run[s].pc \in {"finish", "close"} => CellOf(s) = s)
      BY <2>2, ActiveApart DEF CellOf
    <3> QED BY <1>1, <2>1, <2>2, <3>1, <3>2 DEF RunApart, Active, OwnChannel, Marked
  <2> QED BY <1>1, <2>1, <2>3, <2>4 DEF Apart, PressureApart, StopperApart, AuditRuns
<1> QED BY <1>2, <1>3

\* The end of a run: of an audit run whose total is sent, and of a pressure test whose time is
\* up.  What it closes is its own channel, and nobody has closed that one
LEMMA FinishApart ==
    ASSUME Apart, prompt, Counting', ~crashed, NEW r \in Runs,
           \/ Alive /\ (FinishFlag(r) \/ FinishNil(r) \/ Expire(r))
           \/ FinishClose(r)
    PROVE  Apart'
<1>0. /\ run \in [Runs -> Run] /\ cell \in [Cells -> Cell] /\ r \in Cells /\ r # Nil
      /\ r # Pressure /\ RunApart(r) /\ started \in Nat /\ r \in Nat
  BY Numbers DEF Apart, Counting, TypeOK
<1>1. /\ run[r].pc \in {"finish", "close", "nil", "expire"} => r <= started /\ stopper.cell # r
      /\ run[r].pc \in {"finish", "close", "nil"} => run[r].kind \in AuditModes /\ CellOf(r) = r
      /\ run[r].pc = "expire" => run[r].kind = "pressure" /\ CellOf(r) = Pressure /\ Active(r)
  BY <1>0, ActiveApart DEF RunApart, CellOf, Active
\* What is left to show when the step is about the task of the run, and leaves a run of that
\* kind
<1>2. ASSUME run[r].kind \in AuditModes, r <= started, stopper.cell # r, NEW k, NEW c,
             run' = [run EXCEPT ![r] = k], k.kind = run[r].kind,
             cell' = [cell EXCEPT ![r] = c], c.stopCh \in {Nil, r},
             closed' \subseteq closed \cup {r}, RunApart(r)',
             UNCHANGED <<tasks, started, stopper, crashed>>
      PROVE  Apart'
  <2>1. /\ \A s \in Runs : s # r => run'[s] = run[s] /\ cell'[s] = cell[s]
        /\ run'[r] = k /\ cell'[r] = c /\ cell'[Pressure] = cell[Pressure]
    BY <1>0, <1>2, Numbers
  <2>2. \A s \in Runs : s # r => RunApart(s)'
    <3>1. \A s \in Runs : Marked(s) => Marked(s)'
      BY <1>2 DEF Marked
    <3> QED BY <1>2, <2>1, <3>1, OthersApart
  <2>3. AuditRuns' = AuditRuns /\ \A s \in Runs : run'[s].kind = run[s].kind
    BY <1>2, <2>1 DEF AuditRuns
  <2>4. StopperApart'
    BY <1>2, <2>1, <2>3 DEF Apart, StopperApart, AuditRuns
  <2>5. PressureApart'
    BY <1>2, <2>1, <2>3 DEF Apart, PressureApart
  <2> QED BY <1>2, <2>1, <2>2, <2>3, <2>4, <2>5 DEF Apart
<1>3. CASE Alive /\ FinishFlag(r)
  <2>1. run[r].pc = "finish" /\ cell[r].stopCh = r /\ r \notin closed
    BY <1>0, <1>1, <1>3 DEF FinishFlag, RunApart, OwnChannel
  <2> DEFINE k == [run[r] EXCEPT !.ch = r, !.pc = "close"]
             c == [cell[r] EXCEPT !.running = FALSE]
  <2>2. /\ run' = [run EXCEPT ![r] = k] /\ cell' = [cell EXCEPT ![r] = c]
        /\ UNCHANGED <<tasks, closed, started, stopper, crashed>>
    BY <1>0, <1>3, <2>1 DEF FinishFlag, Alive
  <2>3. /\ k.kind = run[r].kind /\ k.pc = "close" /\ k.ch = r /\ k.timed = run[r].timed
        /\ c.stopCh = r
    BY <1>0, <2>1 DEF Run, Cell
  <2> HIDE DEF k, c
  <2>4. RunApart(r)'
    <3>1. run'[r] = k /\ cell'[r] = c
      BY <1>0, <2>2
    <3>2. CellOf(r)' = r /\ OwnChannel(r)'
      BY <1>1, <2>1, <2>2, <2>3, <3>1 DEF CellOf, OwnChannel, AuditModes
    <3> QED BY <1>0, <1>1, <2>1, <2>2, <2>3, <3>1, <3>2 DEF RunApart, Active, AuditModes
  <2> QED BY <1>1, <1>2, <2>1, <2>2, <2>3, <2>4
<1>4. CASE FinishClose(r)
  <2>1. run[r].pc = "close" /\ cell[r].stopCh = r /\ r \notin closed /\ run[r].ch = r
    BY <1>0, <1>1, <1>4 DEF FinishClose, RunApart, OwnChannel
  <2>2. /\ closed' = closed \cup {r} /\ Goto(r, "nil")
        /\ UNCHANGED <<cell, tasks, started, stopper, crashed>>
    BY <1>0, <1>4, <2>1 DEF FinishClose, Panics
  <2> DEFINE k == [run[r] EXCEPT !.pc = "nil"]
  <2>3. /\ k.kind = run[r].kind /\ k.pc = "nil" /\ k.timed = run[r].timed
        /\ run' = [run EXCEPT ![r] = k] /\ cell' = [cell EXCEPT ![r] = cell[r]]
    BY <1>0, <2>2 DEF Run, Goto
  <2> HIDE DEF k
  <2>4. RunApart(r)'
    <3>1. run'[r] = k
      BY <1>0, <2>3
    <3> QED BY <1>0, <1>1, <2>1, <2>2, <2>3, <3>1 DEF RunApart, Active, AuditModes
  <2> QED BY <1>1, <1>2, <2>1, <2>2, <2>3, <2>4
<1>5. CASE Alive /\ FinishNil(r)
  <2>1. run[r].pc = "nil"
    BY <1>5 DEF FinishNil
  <2> DEFINE c == [cell[r] EXCEPT !.stopCh = Nil]
             k == Gone(r)
  <2>2. /\ run' = [run EXCEPT ![r] = k] /\ cell' = [cell EXCEPT ![r] = c]
        /\ UNCHANGED <<tasks, closed, started, stopper, crashed>>
    BY <1>0, <1>5 DEF FinishNil, Alive, Return
  <2>3. k.kind = run[r].kind /\ k.pc = "off" /\ ~k.timed /\ c.stopCh = Nil
    BY <1>0 DEF Gone, NoRun, Cell
  <2> HIDE DEF k, c
  <2>4. RunApart(r)'
    <3>1. run'[r] = k
      BY <1>0, <2>2
    <3> QED BY <1>0, <1>1, <2>1, <2>2, <2>3, <3>1 DEF RunApart, Active, AuditModes
  <2> QED BY <1>1, <1>2, <2>1, <2>2, <2>3, <2>4
<1>6. CASE Alive /\ Expire(r)
  <2>1. run[r].pc = "expire" /\ cell[Pressure].stopCh = r
    BY <1>0, <1>1, <1>6 DEF Expire, RunApart, OwnChannel
  <2>2. /\ cell' = [cell EXCEPT ![Pressure].running = FALSE, ![Pressure].stopCh = Nil]
        /\ CloseAndReturn(r, r) /\ UNCHANGED <<tasks, started, stopper, crashed>>
    BY <1>0, <1>6, <2>1 DEF Expire, Alive
  <2>3. /\ closed' = closed \cup {r} /\ run'[r] = Gone(r)
        /\ \A s \in Runs : s # r => run'[s] = run[s]
    BY <2>2, CloseApart DEF CloseAndReturn
  <2>4. run'[r].pc = "off" /\ run'[r].kind = "pressure"
    BY <1>1, <2>1, <2>3 DEF Gone, NoRun
  <2> QED BY <1>1, <2>1, <2>2, <2>3, <2>4, PressureEnds
<1> QED BY <1>3, <1>4, <1>5, <1>6

LEMMA InitApart == Init => Apart
<1> SUFFICES ASSUME Init PROVE Apart
  OBVIOUS
<1>1. Counting
  BY InitCounted
<1>2. /\ \A r \in Runs : run[r] = NoRun /\ cell[r] = NoCell
      /\ \A m \in AuditModes : tasks[m] = None
      /\ cell[Pressure] = NoCell /\ closed = {} /\ stopper = NoStop /\ ~crashed
  BY Numbers DEF Init
<1>3. ASSUME NEW r \in Runs PROVE RunApart(r) /\ cell[r].stopCh = Nil
  <2>1. /\ run[r] = NoRun /\ r \notin closed /\ cell[r] = NoCell
        /\ NoRun.pc = "off" /\ NoRun.kind = "local" /\ ~NoRun.timed /\ NoCell.stopCh = Nil
    BY <1>2, <1>3 DEF NoRun, NoCell
  <2> QED BY <2>1 DEF RunApart, Active, AuditModes
<1>4. StopperApart /\ PressureApart
  BY <1>2 DEF StopperApart, PressureApart, NoStop, NoCell
<1> QED BY <1>1, <1>2, <1>3, <1>4 DEF Apart

LEMMA NextApart == Counting /\ (prompt => Apart) /\ [Next]_vars => (prompt => Apart)'
<1> SUFFICES ASSUME Counting, prompt => Apart, [Next]_vars, prompt' PROVE Apart'
  OBVIOUS
<1>1. Counting'
  BY NextCounted
<1>2. prompt
  BY DEF Next, Alive, FinishClose, NewTicker, vars
<1>3. Apart /\ ~crashed
  BY <1>2 DEF Apart
<1>4. CASE UNCHANGED vars
  BY <1>1, <1>3, <1>4
     DEF vars, Apart, StopperApart, PressureApart, AuditRuns, RunApart, Active, OwnChannel,
         Marked, CellOf
<1>5. CASE Alive /\ Requests
  <2>1. CASE StopAuditGen \/ StopPressure
    BY <1>1, <1>2, <1>3, <1>5, <2>1, StopApart, StopPressureApart
  <2>2. CASE \/ \E mode \in AuditModes, total \in Totals, rate \in Rates :
                   StartAuditGen(mode, total, rate)
             \/ \E timed \in BOOLEAN, frequency \in Frequencies :
                   StartPressure(timed, frequency)
    <3>1. PICK r \in Int : r = started + 1
      BY DEF Counting, TypeOK
    <3> QED BY <1>1, <1>2, <1>3, <1>5, <2>2, <3>1, StartApart
  <2> QED BY <1>5, <2>1, <2>2 DEF Requests
<1>6. CASE Alive /\ Stopping
  BY <1>1, <1>2, <1>3, <1>6, StopApart DEF Stopping
<1>7. ASSUME NEW r \in Runs,
             \/ Alive /\ (Proceed(r) \/ Send(r) \/ SendFails(r) \/ SkipOffline(r) \/ Deadline(r))
             \/ FinishClose(r) \/ NewTicker(r)
      PROVE  Apart'
  <2>1. CASE Alive /\ Attempt(r)
    BY <1>1, <1>2, <1>3, <2>1, AttemptApart
  <2>2. CASE \/ Alive /\ (FinishFlag(r) \/ FinishNil(r) \/ Expire(r))
             \/ FinishClose(r)
    BY <1>1, <1>2, <1>3, <2>2, FinishApart
  <2>3. CASE Alive /\ (\/ PlatformPrepare(r) \/ Loop(r) \/ StopSeen(r) \/ Park(r) \/ Tick(r)
                       \/ BatchEnd(r) \/ Deadline(r))
    BY <1>1, <1>2, <1>3, <2>3, BetweenApart
  <2>4. CASE NewTicker(r)
    BY <1>3, <2>4 DEF NewTicker, Apart, RunApart
  <2> QED BY <1>7, <2>1, <2>2, <2>3, <2>4 DEF Proceed, Attempt
<1> QED BY <1>4, <1>5, <1>6, <1>7 DEF Next

LEMMA ApartCorrect == Spec => [](Counting /\ (prompt => Apart))
<1>1. Init => Counting /\ (prompt => Apart)
  BY InitCounted, InitApart
<1>2. Counting /\ (prompt => Apart) /\ [Next]_vars => (Counting /\ (prompt => Apart))'
  BY NextCounted, NextApart
<1> QED BY <1>1, <1>2, PTL DEF Spec

\* When stops find the run waiting, the process never ends because a channel is closed twice:
\* finishTask closes without the lock, but only a run that no stop has marked gets there
THEOREM NoPanicCorrect == Spec => []NoPanic
<1>1. (prompt => Apart) => NoPanic
  BY DEF Apart, NoPanic
<1> QED BY <1>1, ApartCorrect, PTL

\* When stops find the run waiting, two runs of a kind never send at the same time, and the
\* counters of the pressure test are those of the test that runs
THEOREM RunsApartCorrect == Spec => []RunsApart
<1>1. ASSUME Apart PROVE RunsApart
  <2>1. ASSUME NEW r \in Runs, NEW s \in Runs, Active(r), Active(s), run[r].kind = run[s].kind
        PROVE  r = s
    <3>1. cell[CellOf(r)].stopCh = r /\ cell[CellOf(s)].stopCh = s
      BY <1>1, <2>1 DEF Apart, RunApart, OwnChannel
    <3>2. run[r].kind \in AuditModes => tasks[run[r].kind] = r /\ tasks[run[r].kind] = s
      BY <1>1, <2>1 DEF Apart, RunApart
    <3>3. run[r].kind = "pressure" => CellOf(r) = CellOf(s)
      BY <2>1 DEF CellOf
    <3> QED BY <1>1, <3>1, <3>2, <3>3, ActiveApart
  <2>2. OwnCounters
    BY <1>1 DEF Apart, RunApart, OwnCounters
  <2> QED BY <2>1, <2>2 DEF RunsApart, OneRun
<1>2. (prompt => Apart) => RunsApart
  BY <1>1 DEF RunsApart, OneRun, OwnCounters
<1> QED BY <1>2, ApartCorrect, PTL
=============================================================================
