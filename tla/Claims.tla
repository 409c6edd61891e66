------------------------------- MODULE Claims -------------------------------
(***************************************************************************)
(* The two tasks that talk to the platform's web interface with a pool of  *)
(* workers: the generation of claim codes (claimgen/claimgen.go) and their *)
(* life cycle (claimgen/lifecycle.go), started and cancelled by requests   *)
(* (api/claim.go).                                                         *)
(*                                                                         *)
(* The workers of a task share a counter, from which each takes the next   *)
(* item, and the channel that a cancellation closes; a worker looks at the *)
(* channel between two items.  The status of a task is read and written    *)
(* under taskMu by start and cancel, but under the mutex of the task by    *)
(* the goroutine that ends it: the two race.  (A status read while it is   *)
(* written is a pointer and a length of different strings, none of which   *)
(* is "running".)                                                          *)
(***************************************************************************)
EXTENDS Integers, FiniteSetsExt

CONSTANTS
    Kinds,         \* "claim", "lifecycle" or both
    Totals,        \* how many items a task is asked to handle
    DefaultTotal,  \* of a claim task, 100000
    Concurrencies, \* how many workers it is asked to use
    DefaultWorkers,\* 5
    MaxWorkers,    \* 20, for a claim task
    Shares,        \* percentages asked for: [claimed, borrowed, returned, expired].  Nobody
                   \* keeps them from being negative
    MaxTasks,      \* bound: tasks started
    MaxItems       \* bound: items of all tasks

ASSUME ClaimsAssumption ==
    /\ Kinds \subseteq {"claim", "lifecycle"}
    /\ Totals \subseteq Int /\ Concurrencies \subseteq Int
    /\ {DefaultTotal, DefaultWorkers, MaxWorkers} \subseteq Nat \ {0}
    /\ DefaultWorkers <= MaxWorkers
    /\ Shares \subseteq [claimed : Int, borrowed : Int, returned : Int, expired : Int]
    /\ MaxTasks \in Nat /\ MaxItems \in Nat

Tasks == 1..MaxTasks
None == 0
Workers == 1..MaxWorkers

VARIABLES
    prompt,    \* rigid: TRUE if a cancellation takes no time
    kind,      \* rigid: each kind of task has a state of its own
    active,    \* activeTask, lifecycleTask
    task,      \* what is known of each task
    worker,    \* its workers: where each is, its item and what it read
    canceller, \* the task a cancellation is under way for, under taskMu
    platform   \* of each task, items that are claimed at the platform and not returned

modes == <<kind, prompt>>
vars == <<modes, active, task, worker, canceller, platform>>

NoCounts == [claimed |-> 0, borrowed |-> 0, returned |-> 0, expired |-> 0, failed |-> 0,
             codes |-> 0]
NoTask == [status |-> "none", total |-> 0, next |-> 0, cancelled |-> FALSE, kicked |-> FALSE,
           counts |-> NoCounts, reported |-> NoCounts, mu |-> None, pc |-> "off",
           borrowedEnd |-> 0, returnedEnd |-> 0, expiredEnd |-> 0]
NoWorker == [pc |-> "off", item |-> 0, seen |-> NoCounts]

Init ==
    /\ kind \in Kinds /\ prompt \in BOOLEAN
    /\ active = None /\ canceller = None
    /\ task = [t \in Tasks |-> NoTask]
    /\ worker = [t \in Tasks |-> [w \in Workers |-> NoWorker]]
    /\ platform = [t \in Tasks |-> {}]

-----------------------------------------------------------------------------
(* Starting and cancelling                                                 *)

\* Division of integers, towards zero
Quot(a, d) ==
    LET q == (IF a < 0 THEN -a ELSE a) \div (IF d < 0 THEN -d ELSE d) IN
    IF (a < 0) = (d < 0) THEN q ELSE -q

Percent(part, sum) == Quot(part * 100, sum)

\* Fault: only the first share is scaled
FaultyNormalShares(s) ==
    LET sum == s.claimed + s.borrowed + s.returned + s.expired IN
    IF sum = 0 THEN [s EXCEPT !.claimed = 100]
    ELSE [claimed |-> Percent(s.claimed, sum), borrowed |-> s.borrowed,
          returned |-> s.returned, expired |-> s.expired]

\* Percentages that do not add up to 100 are scaled
NormalShares(s) ==
    LET sum == s.claimed + s.borrowed + s.returned + s.expired IN
    IF sum = 0 THEN [s EXCEPT !.claimed = 100]
    ELSE [claimed |-> Percent(s.claimed, sum), borrowed |-> Percent(s.borrowed, sum),
          returned |-> Percent(s.returned, sum), expired |-> Percent(s.expired, sum)]

\* How many workers a task gets: only that of a claim task is limited
Pool(n) ==
    IF n <= 0 THEN DefaultWorkers
    ELSE IF kind = "claim" /\ n > MaxWorkers THEN MaxWorkers ELSE n

\* The parts of the items a life cycle task borrows, returns and counts as expired
Parts(n, s) ==
    LET shares == NormalShares(s)
        borrowedEnd == Quot(n * shares.borrowed, 100) IN
    [borrowedEnd |-> borrowedEnd,
     returnedEnd |-> borrowedEnd + Quot(n * shares.returned, 100),
     expiredEnd |-> Quot(n * shares.expired, 100)]

\* Items of all tasks so far
AllItems == MapThenSumSet(LAMBDA u : task[u].total, Tasks)

\* The next task: n items, its shares and its workers
Launch(n, s, workers) ==
    \E t \in Tasks :
        /\ task[t].status = "none" /\ \A u \in Tasks : u < t => task[u].status # "none"
        /\ n + AllItems <= MaxItems   \* bound
        /\ active' = t
        /\ LET parts == Parts(n, s) IN
              task' = [task EXCEPT ![t] = [NoTask EXCEPT
                  !.status = "running", !.total = n, !.pc = "running",
                  !.borrowedEnd = parts.borrowedEnd, !.returnedEnd = parts.returnedEnd,
                  !.expiredEnd = parts.expiredEnd]]
        /\ worker' = [worker EXCEPT ![t] = [w \in Workers |->
              IF w <= workers THEN [NoWorker EXCEPT !.pc = "top"] ELSE NoWorker]]
        /\ UNCHANGED <<modes, canceller, platform>>

\* A task is refused while the active one runs
Free == canceller = None /\ (active # None => task[active].status # "running")

\* Fault: a negative number is taken as it is
FaultyStartTask(n, workers) ==
    /\ kind = "claim" /\ Free
    /\ Launch(IF n = 0 THEN DefaultTotal ELSE n,
              [claimed |-> 100, borrowed |-> 0, returned |-> 0, expired |-> 0], Pool(workers))

\* StartTask, runTask: the pool of a claim task
StartTask(n, workers) ==
    /\ kind = "claim" /\ Free
    /\ Launch(IF n <= 0 THEN DefaultTotal ELSE n,
              [claimed |-> 100, borrowed |-> 0, returned |-> 0, expired |-> 0], Pool(workers))

\* StartLifecycle, runLifecycle: the codes are given, and must not be empty
StartLifecycle(n, s, workers) ==
    /\ kind = "lifecycle" /\ Free
    /\ n > 0 /\ workers <= MaxWorkers   \* bound
    /\ Launch(n, s, Pool(workers))

\* CancelTask, CancelLifecycle: a running task has its channel closed, once ...
CancelClose ==
    /\ canceller = None /\ active # None /\ task[active].status = "running"
    /\ canceller' = active
    /\ task' = [task EXCEPT ![active].cancelled = TRUE]
    /\ UNCHANGED <<modes, active, worker, platform>>

\* ... and its status written
CancelStatus ==
    /\ canceller # None
    /\ task' = [task EXCEPT ![canceller].status = "cancelled"]
    /\ canceller' = None
    /\ UNCHANGED <<modes, active, worker, platform>>

-----------------------------------------------------------------------------
(* The workers                                                             *)

\* Worker w of task t goes to label, with item i
Goto(t, w, label, i) ==
    worker' = [worker EXCEPT ![t][w] = [NoWorker EXCEPT !.pc = label, !.item = i]]

\* The counters of the task change
Count(t, counts) == task' = [task EXCEPT ![t].counts = counts]

\* The item is one of the first n
InFirst(t, w, n) == worker[t][w].item < n

\* Fault: a worker looks at the channel after it took the next item
FaultyTake(t, w) ==
    /\ worker[t][w].pc = "top"
    /\ LET i == task[t].next IN
          /\ task' = [task EXCEPT ![t].next = i + 1]
          /\ IF task[t].cancelled \/ i >= task[t].total THEN Goto(t, w, "off", 0)
             ELSE Goto(t, w, IF kind = "claim" THEN "request"
                             ELSE IF i < task[t].borrowedEnd THEN "verify" ELSE "report", i)
    /\ UNCHANGED <<modes, active, canceller, platform>>

\* A cancelled task is left between two items, and so is one without further items; otherwise
\* the worker takes the next one.  In a life cycle it counts as claimed, and expired, at once
Take(t, w) ==
    /\ worker[t][w].pc = "top"
    /\ LET i == task[t].next IN
          IF task[t].cancelled \/ i >= task[t].total
          THEN /\ Goto(t, w, "off", 0)
               /\ task' = IF task[t].cancelled THEN task ELSE [task EXCEPT ![t].next = i + 1]
          ELSE /\ task' = [task EXCEPT ![t].next = i + 1,
                     ![t].counts.claimed = IF kind = "lifecycle" THEN @ + 1 ELSE @,
                     ![t].counts.expired =
                         IF kind = "lifecycle" /\ i < task[t].expiredEnd THEN @ + 1 ELSE @]
               /\ Goto(t, w, IF kind = "claim" THEN "request"
                             ELSE IF i < task[t].borrowedEnd THEN "verify" ELSE "report", i)
    /\ UNCHANGED <<modes, active, canceller, platform>>

\* The platform issues a code, which is kept
Issued(t, w) ==
    /\ worker[t][w].pc = "request"
    /\ platform' = [platform EXCEPT ![t] = @ \cup {worker[t][w].item}]
    /\ Count(t, [task[t].counts EXCEPT !.codes = @ + 1, !.claimed = @ + 1])
    /\ Goto(t, w, "report", worker[t][w].item)
    /\ UNCHANGED <<modes, active, canceller>>

\* It refuses, or its answer has no code in it
Refused(t, w) ==
    /\ worker[t][w].pc = "request"
    /\ Count(t, [task[t].counts EXCEPT !.failed = @ + 1])
    /\ Goto(t, w, "report", worker[t][w].item)
    /\ UNCHANGED <<modes, active, canceller, platform>>

\* It cannot be reached, or its answer is lost, with a code or without one.  The progress is
\* not reported
Unanswered(t, w) ==
    /\ worker[t][w].pc = "request"
    /\ \/ UNCHANGED platform
       \/ platform' = [platform EXCEPT ![t] = @ \cup {worker[t][w].item}]
    /\ Count(t, [task[t].counts EXCEPT !.failed = @ + 1])
    /\ Goto(t, w, "top", 0)
    /\ UNCHANGED <<modes, active, canceller>>

\* Fault: the item that is lost with the session is not counted
FaultyKickedOut(t, w) ==
    /\ worker[t][w].pc = "request"
    /\ task' = [task EXCEPT ![t].cancelled = TRUE, ![t].kicked = TRUE]
    /\ Goto(t, w, "off", 0)
    /\ UNCHANGED <<modes, active, canceller, platform>>

\* The session was taken over by another login: the worker closes the channel and returns
KickedOut(t, w) ==
    /\ worker[t][w].pc = "request"
    /\ task' = [task EXCEPT ![t].cancelled = TRUE, ![t].kicked = TRUE,
                            ![t].counts.failed = @ + 1]
    /\ Goto(t, w, "off", 0)
    /\ UNCHANGED <<modes, active, canceller, platform>>

\* sendClaimAPI fails: the platform refuses, or it does not, and its answer is lost
Fails(t, w, done) ==
    /\ \/ UNCHANGED platform
       \/ platform' = [platform EXCEPT ![t] = done]
    /\ Count(t, [task[t].counts EXCEPT !.failed = @ + 1])
    /\ Goto(t, w, "report", worker[t][w].item)

\* verifyAndClaim, CMD103
Verify(t, w) ==
    /\ worker[t][w].pc = "verify"
    /\ \/ Fails(t, w, platform[t])
       \/ Goto(t, w, "claim", worker[t][w].item) /\ UNCHANGED <<task, platform>>
    /\ UNCHANGED <<modes, active, canceller>>

\* verifyAndClaim, CMD104: a code that is borrowed is to be returned if it is one of the first
\* returnedEnd
Claim(t, w) ==
    /\ worker[t][w].pc = "claim"
    /\ LET out == platform[t] \cup {worker[t][w].item} IN
          \/ Fails(t, w, out)
          \/ /\ platform' = [platform EXCEPT ![t] = out]
             /\ Count(t, [task[t].counts EXCEPT !.borrowed = @ + 1])
             /\ Goto(t, w, IF InFirst(t, w, task[t].returnedEnd) THEN "return" ELSE "report",
                     worker[t][w].item)
    /\ UNCHANGED <<modes, active, canceller>>

\* Fault: a code counts as returned whatever the platform answers
FaultyReturnUSB(t, w) ==
    /\ worker[t][w].pc = "return"
    /\ \/ UNCHANGED platform
       \/ platform' = [platform EXCEPT ![t] = @ \ {worker[t][w].item}]
    /\ Count(t, [task[t].counts EXCEPT !.returned = @ + 1])
    /\ Goto(t, w, "report", worker[t][w].item)
    /\ UNCHANGED <<modes, active, canceller>>

\* returnUSB, CMD105
ReturnUSB(t, w) ==
    /\ worker[t][w].pc = "return"
    /\ LET out == platform[t] \ {worker[t][w].item} IN
          \/ Fails(t, w, out)
          \/ /\ platform' = [platform EXCEPT ![t] = out]
             /\ Count(t, [task[t].counts EXCEPT !.returned = @ + 1])
             /\ Goto(t, w, "report", worker[t][w].item)
    /\ UNCHANGED <<modes, active, canceller>>

\* Fault: the counters are read before the mutex is taken
FaultyReportLoad(t, w) ==
    /\ worker[t][w].pc = "report"
    /\ worker' = [worker EXCEPT ![t][w].pc = "write", ![t][w].seen = task[t].counts]
    /\ UNCHANGED <<modes, active, task, canceller, platform>>

\* The progress is read under the mutex of the task ...
ReportLoad(t, w) ==
    /\ worker[t][w].pc = "report" /\ task[t].mu = None
    /\ task' = [task EXCEPT ![t].mu = w]
    /\ worker' = [worker EXCEPT ![t][w].pc = "write", ![t][w].seen = task[t].counts]
    /\ UNCHANGED <<modes, active, canceller, platform>>

\* Fault: the mutex is kept
FaultyReportWrite(t, w) ==
    /\ worker[t][w].pc = "write"
    /\ task' = [task EXCEPT ![t].reported = worker[t][w].seen]
    /\ Goto(t, w, "top", 0)
    /\ UNCHANGED <<modes, active, canceller, platform>>

\* ... and written
ReportWrite(t, w) ==
    /\ worker[t][w].pc = "write"
    /\ task' = [task EXCEPT ![t].mu = None, ![t].reported = worker[t][w].seen]
    /\ Goto(t, w, "top", 0)
    /\ UNCHANGED <<modes, active, canceller, platform>>

-----------------------------------------------------------------------------
(* The end of a task                                                       *)

\* Fault: the status is written in any case
FaultyFinishCheck(t) ==
    /\ task[t].pc = "running" /\ \A w \in Workers : worker[t][w].pc = "off"
    /\ prompt => canceller # t
    /\ task' = [task EXCEPT ![t].reported = task[t].counts, ![t].pc = "write"]
    /\ UNCHANGED <<modes, active, worker, canceller, platform>>

\* All workers have returned: the totals are written, and the status read ...
FinishCheck(t) ==
    /\ task[t].pc = "running" /\ \A w \in Workers : worker[t][w].pc = "off"
    /\ prompt => canceller # t
    /\ task' = [task EXCEPT ![t].reported = task[t].counts,
                            ![t].pc = IF task[t].status = "running" THEN "write" ELSE "done"]
    /\ UNCHANGED <<modes, active, worker, canceller, platform>>

\* ... and written.  The codes go to a file
FinishWrite(t) ==
    /\ task[t].pc = "write"
    /\ task' = [task EXCEPT ![t].pc = "done", ![t].status = "completed"]
    /\ UNCHANGED <<modes, active, worker, canceller, platform>>

-----------------------------------------------------------------------------
Work(t, w) ==
    \/ Take(t, w)
    \/ Issued(t, w) \/ Refused(t, w) \/ Unanswered(t, w) \/ KickedOut(t, w)
    \/ Verify(t, w) \/ Claim(t, w) \/ ReturnUSB(t, w)
    \/ ReportLoad(t, w) \/ ReportWrite(t, w)

Finish(t) == FinishCheck(t) \/ FinishWrite(t)

Next ==
    \/ \E n \in Totals, workers \in Concurrencies :
          \/ StartTask(n, workers)
          \/ \E s \in Shares : StartLifecycle(n, s, workers)
    \/ CancelClose \/ CancelStatus
    \/ \E t \in Tasks : Finish(t) \/ \E w \in Workers : Work(t, w)

Spec == Init /\ [][Next]_vars

\* Goroutines go on, and every request to the platform is answered or times out
Fairness ==
    /\ WF_vars(CancelStatus)
    /\ \A t \in Tasks : WF_vars(Finish(t)) /\ \A w \in Workers : WF_vars(Work(t, w))

FairSpec == Spec /\ Fairness
-----------------------------------------------------------------------------
(* Properties                                                              *)

Counts == [claimed : Nat, borrowed : Nat, returned : Nat, expired : Nat, failed : Nat,
           codes : Nat]

\* Types of the variables
TypeOK ==
    /\ kind \in Kinds /\ prompt \in BOOLEAN
    /\ active \in Tasks \cup {None} /\ canceller \in Tasks \cup {None}
    /\ task \in [Tasks -> [status : {"none", "running", "cancelled", "completed"},
                           total : Nat, next : Nat, cancelled : BOOLEAN, kicked : BOOLEAN,
                           counts : Counts, reported : Counts, mu : Workers \cup {None},
                           pc : {"off", "running", "write", "done"},
                           borrowedEnd : Int, returnedEnd : Int, expiredEnd : Int]]
    /\ worker \in [Tasks -> [Workers ->
           [pc : {"off", "top", "request", "verify", "claim", "return", "report", "write"},
            item : Nat, seen : Counts]]]
    /\ platform \in [Tasks -> SUBSET Nat]

Done(t) == task[t].pc = "done"
Reported(t) == task[t].reported

\* How many items the workers took
Taken(t) == IF task[t].next > task[t].total THEN task[t].total ELSE task[t].next

\* A claim task that is over has accounted for every item it took, as a code or as failed.
\* Codes that the platform issued and the task does not know, their answers having been lost,
\* are among the failed ones
ClaimsAccounted ==
    kind = "claim" => \A t \in Tasks : Done(t) =>
        /\ Reported(t).codes + Reported(t).failed = Taken(t)
        /\ Cardinality(platform[t]) <= Reported(t).codes + Reported(t).failed

\* How many of them a life cycle task was to borrow
Lent(t) ==
    LET end == IF Taken(t) < task[t].borrowedEnd THEN Taken(t) ELSE task[t].borrowedEnd IN
    IF end < 0 THEN 0 ELSE end

\* The counts of a life cycle task that is over, also of one that was cancelled, are those of
\* the items it took and of the platform.  Each item it was to borrow is borrowed or failed, and
\* none is counted twice, as returned and failed.  The codes that are claimed at the platform
\* are those it counts as borrowed and not as returned, but for the failed ones, of which the
\* task does not know
LoansAccounted ==
    kind = "lifecycle" => \A t \in Tasks : Done(t) =>
        LET counts == Reported(t)
            out == Cardinality(platform[t]) IN
        /\ counts.borrowed <= Lent(t) /\ Lent(t) <= counts.borrowed + counts.failed
        /\ counts.returned + counts.failed <= Lent(t)
        /\ out + counts.returned <= counts.borrowed + counts.failed
        /\ counts.borrowed <= out + counts.returned + counts.failed

Natural(s) == {s.claimed, s.borrowed, s.returned, s.expired} \subseteq Nat

\* The parts of the items do not exceed the whole, for any shares that are not negative
PartsFit ==
    \A s \in Shares, n \in Totals : n > 0 /\ Natural(s) =>
        LET parts == Parts(n, s) IN
        /\ parts.borrowedEnd <= parts.returnedEnd
        /\ parts.returnedEnd + parts.expiredEnd <= n

\* Whatever the platform answers and wherever a cancellation falls, the counts of a task add up
\* to the items it took and agree with the platform
CountInv == TypeOK /\ PartsFit /\ ClaimsAccounted /\ LoansAccounted

\* When a cancellation takes no time, a task that says it is completed has handled every item,
\* however the cancellation falls on the end of the task, unless the platform ended the
\* session.  Otherwise a task may read its status after the channel was closed and before the
\* status is written, and take a cancellation for its end
CompletedIsWhole ==
    prompt => \A t \in Tasks :
        task[t].status = "completed" /\ ~task[t].kicked => Taken(t) = task[t].total

\* The progress a task reports never goes back, although all its workers write it
ProgressGrows ==
    [][\A t \in Tasks : \A f \in DOMAIN NoCounts : Reported(t)[f]' >= Reported(t)[f]]_vars

\* A task that was started is over in the end, and does not stand in the way of the next one
Ends == \A t \in Tasks : task[t].pc = "running" ~> Done(t) /\ task[t].status # "running"
=============================================================================
