---------------------------- MODULE ClaimsProofs ----------------------------
(***************************************************************************)
(* Proofs about Claims, for any number of tasks, items and workers, any    *)
(* shares, whatever the platform answers and whenever a task is cancelled. *)
(***************************************************************************)
EXTENDS Claims, FiniteSetTheorems, TLAPS

-----------------------------------------------------------------------------
(* Numbers                                                                 *)

LEMMA Quotient ==
    ASSUME NEW a \in Nat, NEW d \in Nat \ {0}
    PROVE  Quot(a, d) \in Nat /\ d * Quot(a, d) <= a
<1>1. (a \div d) \in Nat /\ d * (a \div d) <= a
  OBVIOUS
<1>2. Quot(a, d) = a \div d
  BY DEF Quot
<1> QED BY <1>1, <1>2

LEMMA QuotientInt ==
    ASSUME NEW a \in Int, NEW d \in Int \ {0}
    PROVE  Quot(a, d) \in Int
<1>1. PICK m \in Nat, n \in Nat \ {0} : /\ m = IF a < 0 THEN -a ELSE a
                                      /\ n = IF d < 0 THEN -d ELSE d
  OBVIOUS
<1>2. m \div n \in Int
  OBVIOUS
<1>3. Quot(a, d) = IF (a < 0) = (d < 0) THEN m \div n ELSE -(m \div n)
  BY <1>1 DEF Quot
<1> QED BY <1>2, <1>3

Asked == [claimed : Int, borrowed : Int, returned : Int, expired : Int]

\* Whatever the shares, the parts end somewhere
LEMMA PartsInt ==
    ASSUME NEW n \in Nat, NEW s \in Asked
    PROVE  /\ Parts(n, s).borrowedEnd \in Int /\ Parts(n, s).returnedEnd \in Int
           /\ Parts(n, s).expiredEnd \in Int
<1> DEFINE sum == s.claimed + s.borrowed + s.returned + s.expired
           shares == NormalShares(s)
<1>1. /\ s.claimed \in Int /\ s.borrowed \in Int /\ s.returned \in Int /\ s.expired \in Int
      /\ sum \in Int
  BY DEF Asked
<1>2. shares.borrowed \in Int /\ shares.returned \in Int /\ shares.expired \in Int
  <2>1. CASE sum = 0
    <3>1. shares = [s EXCEPT !.claimed = 100]
      BY <2>1 DEF NormalShares
    <3> QED BY <1>1, <3>1 DEF Asked
  <2>2. CASE sum # 0
    <3>1. /\ shares.borrowed = Quot(s.borrowed * 100, sum)
          /\ shares.returned = Quot(s.returned * 100, sum)
          /\ shares.expired = Quot(s.expired * 100, sum)
      BY <2>2 DEF NormalShares, Percent
    <3>2. /\ s.borrowed * 100 \in Int /\ s.returned * 100 \in Int /\ s.expired * 100 \in Int
          /\ sum \in Int \ {0}
      BY <1>1, <2>2
    <3> HIDE DEF sum
    <3> QED BY <3>1, <3>2, QuotientInt
  <2> QED BY <2>1, <2>2
<1> HIDE DEF shares
<1>3. n * shares.borrowed \in Int /\ n * shares.returned \in Int /\ n * shares.expired \in Int
  BY <1>2
<1>4. PICK b \in Int, r \in Int, e \in Int :
         /\ b = Quot(n * shares.borrowed, 100) /\ r = Quot(n * shares.returned, 100)
         /\ e = Quot(n * shares.expired, 100)
  <2>1. \A m \in Int : Quot(m, 100) \in Int
    BY QuotientInt
  <2>2. /\ Quot(n * shares.borrowed, 100) \in Int /\ Quot(n * shares.returned, 100) \in Int
        /\ Quot(n * shares.expired, 100) \in Int
    BY <1>3, <2>1
  <2> QED BY <2>2
<1>5. /\ Parts(n, s).borrowedEnd = b /\ Parts(n, s).returnedEnd = b + r
      /\ Parts(n, s).expiredEnd = e
  BY <1>4 DEF Parts, shares
<1> QED BY <1>4, <1>5

\* Shares that are scaled make at most a hundred
LEMMA SharesFit ==
    ASSUME NEW s \in [claimed : Nat, borrowed : Nat, returned : Nat, expired : Nat]
    PROVE  /\ NormalShares(s).borrowed \in Nat /\ NormalShares(s).returned \in Nat
           /\ NormalShares(s).expired \in Nat
           /\ NormalShares(s).borrowed + NormalShares(s).returned + NormalShares(s).expired <= 100
<1>1. s.claimed \in Nat /\ s.borrowed \in Nat /\ s.returned \in Nat /\ s.expired \in Nat
  OBVIOUS
<1> DEFINE sum == s.claimed + s.borrowed + s.returned + s.expired
<1>2. sum \in Nat
  BY <1>1
<1>3. CASE sum = 0
  <2>1. s.borrowed = 0 /\ s.returned = 0 /\ s.expired = 0
    BY <1>1, <1>3
  <2>2. NormalShares(s) = [s EXCEPT !.claimed = 100]
    BY <1>3 DEF NormalShares
  <2>3. /\ NormalShares(s).borrowed = s.borrowed /\ NormalShares(s).returned = s.returned
        /\ NormalShares(s).expired = s.expired
    BY <1>1, <2>2
  <2> QED BY <2>1, <2>3
<1>4. CASE sum # 0
  <2> DEFINE b == Percent(s.borrowed, sum)
             r == Percent(s.returned, sum)
             e == Percent(s.expired, sum)
  <2>1. /\ NormalShares(s).borrowed = b /\ NormalShares(s).returned = r
        /\ NormalShares(s).expired = e
    BY <1>4 DEF NormalShares
  <2>2. /\ b \in Nat /\ sum * b <= s.borrowed * 100
        /\ r \in Nat /\ sum * r <= s.returned * 100
        /\ e \in Nat /\ sum * e <= s.expired * 100
    <3> HIDE DEF sum
    <3>1. ASSUME NEW p \in Nat
          PROVE  Percent(p, sum) \in Nat /\ sum * Percent(p, sum) <= p * 100
      <4>1. p * 100 \in Nat /\ sum \in Nat \ {0}
        BY <1>2, <1>4
      <4> QED BY <4>1, Quotient DEF Percent
    <3> QED BY <1>1, <3>1
  <2>3. (s.borrowed * 100) + (s.returned * 100) + (s.expired * 100) <= 100 * sum
    BY <1>1
  <2> HIDE DEF sum, b, r, e
  <2>4. sum * (b + r + e) = (sum * b) + (sum * r) + (sum * e)
    BY <1>2, <2>2
  <2>5. sum * (b + r + e) <= 100 * sum
    <3>1. (sum * b) + (sum * r) + (sum * e)
             <= (s.borrowed * 100) + (s.returned * 100) + (s.expired * 100)
      BY <1>1, <1>2, <2>2
    <3> QED BY <1>1, <1>2, <2>2, <2>3, <2>4, <3>1
  <2>6. b + r + e <= 100
    BY <1>2, <1>4, <2>2, <2>5
  <2> QED BY <2>1, <2>2, <2>6
<1> QED BY <1>3, <1>4

\* And of so many items, so many percent are not more than there are
LEMMA PartsOf ==
    ASSUME NEW n \in Nat,
           NEW s \in [claimed : Nat, borrowed : Nat, returned : Nat, expired : Nat]
    PROVE  /\ Parts(n, s).borrowedEnd \in Nat /\ Parts(n, s).returnedEnd \in Nat
           /\ Parts(n, s).expiredEnd \in Nat
           /\ Parts(n, s).borrowedEnd <= Parts(n, s).returnedEnd
           /\ Parts(n, s).returnedEnd + Parts(n, s).expiredEnd <= n
<1> DEFINE b == NormalShares(s).borrowed
           r == NormalShares(s).returned
           e == NormalShares(s).expired
           pb == Quot(n * b, 100)
           pr == Quot(n * r, 100)
           pe == Quot(n * e, 100)
<1>1. b \in Nat /\ r \in Nat /\ e \in Nat /\ b + r + e <= 100
  BY SharesFit
<1>2. /\ Parts(n, s).borrowedEnd = pb /\ Parts(n, s).returnedEnd = pb + pr
      /\ Parts(n, s).expiredEnd = pe
  BY DEF Parts
<1> HIDE DEF b, r, e
<1>3. n * b \in Nat /\ n * r \in Nat /\ n * e \in Nat
  BY <1>1
<1>4. /\ pb \in Nat /\ 100 * pb <= n * b
      /\ pr \in Nat /\ 100 * pr <= n * r
      /\ pe \in Nat /\ 100 * pe <= n * e
  BY <1>3, Quotient
<1>5. (n * b) + (n * r) + (n * e) <= n * 100
  <2>1. (n * b) + (n * r) + (n * e) = n * (b + r + e)
    BY <1>1
  <2>2. n * (b + r + e) <= n * 100
    BY <1>1
  <2> QED BY <2>1, <2>2
<1> HIDE DEF pb, pr, pe
<1>6. 100 * (pb + pr + pe) <= n * 100
  BY <1>3, <1>4, <1>5
<1>7. pb + pr + pe <= n
  BY <1>4, <1>6
<1> QED BY <1>2, <1>4, <1>7

-----------------------------------------------------------------------------
(* Steps of the workers                                                    *)

TaskRecord == [status : {"none", "running", "cancelled", "completed"},
               total : Nat, next : Nat, cancelled : BOOLEAN, kicked : BOOLEAN,
               counts : Counts, reported : Counts, mu : Workers \cup {None},
               pc : {"off", "running", "write", "done"},
               borrowedEnd : Int, returnedEnd : Int, expiredEnd : Int]
WorkerRecord == [pc : {"off", "top", "request", "verify", "claim", "return", "report", "write"},
                 item : Nat, seen : Counts]

\* No count is lower
AtMost(a, b) ==
    /\ a.claimed <= b.claimed /\ a.borrowed <= b.borrowed /\ a.returned <= b.returned
    /\ a.expired <= b.expired /\ a.failed <= b.failed /\ a.codes <= b.codes

\* A step of worker w makes x of the task, y of the worker and p of what is claimed.  No worker
\* changes what the task was started with
Fixed(t, x) ==
    /\ x.status = task[t].status /\ x.total = task[t].total /\ x.pc = task[t].pc
    /\ x.borrowedEnd = task[t].borrowedEnd /\ x.returnedEnd = task[t].returnedEnd
    /\ x.expiredEnd = task[t].expiredEnd

Unreported(t, x) == x.mu = task[t].mu /\ x.reported = task[t].reported
Uncancelled(t, x) == x.cancelled = task[t].cancelled /\ x.kicked = task[t].kicked

\* Some counts stay
Same(t, x, counts) == \A f \in counts : x.counts[f] = task[t].counts[f]

Stops(t, w, x, y, p) ==
    /\ worker[t][w].pc = "top" /\ y.pc = "off" /\ p = platform[t]
    /\ x.counts = task[t].counts /\ Unreported(t, x) /\ Uncancelled(t, x)
    /\ \/ task[t].cancelled /\ x.next = task[t].next
       \/ task[t].next >= task[t].total /\ x.next = task[t].next + 1

Takes(t, w, x, y, p) ==
    /\ worker[t][w].pc = "top" /\ ~task[t].cancelled /\ task[t].next < task[t].total
    /\ x.next = task[t].next + 1 /\ y.item = task[t].next /\ p = platform[t]
    /\ y.pc = IF kind = "claim" THEN "request"
              ELSE IF task[t].next < task[t].borrowedEnd THEN "verify" ELSE "report"
    /\ AtMost(task[t].counts, x.counts) /\ x.counts.codes = task[t].counts.codes
    /\ Same(t, x, {"failed", "returned", "borrowed"})
    /\ Unreported(t, x) /\ Uncancelled(t, x)

Answered(t, w, x, y, p) ==
    /\ worker[t][w].pc = "request" /\ y.pc \in {"report", "top", "off"} /\ x.next = task[t].next
    /\ p = platform[t] \/ p = platform[t] \cup {worker[t][w].item}
    /\ IF y.pc = "off" THEN x.cancelled /\ x.kicked ELSE Uncancelled(t, x)
    /\ AtMost(task[t].counts, x.counts) /\ Unreported(t, x)
    /\ x.counts.codes + x.counts.failed = task[t].counts.codes + task[t].counts.failed + 1

Lends(t, w, x, y, p) ==
    /\ \/ /\ worker[t][w].pc = "verify" /\ y.pc = "claim" /\ p = platform[t]
          /\ x.counts.borrowed = task[t].counts.borrowed
       \/ /\ worker[t][w].pc = "claim" /\ p = platform[t] \cup {worker[t][w].item}
          /\ y.pc \in {"return", "report"}
          /\ x.counts.borrowed = task[t].counts.borrowed + 1
    /\ y.item = worker[t][w].item /\ x.next = task[t].next
    /\ AtMost(task[t].counts, x.counts) /\ Same(t, x, {"failed", "returned"})
    /\ Unreported(t, x) /\ Uncancelled(t, x)

FailsNow(t, w, x, y, p) ==
    /\ worker[t][w].pc \in {"verify", "claim", "return"} /\ y.pc = "report"
    /\ \/ p = platform[t]
       \/ worker[t][w].pc = "claim" /\ p = platform[t] \cup {worker[t][w].item}
       \/ worker[t][w].pc = "return" /\ p = platform[t] \ {worker[t][w].item}
    /\ AtMost(task[t].counts, x.counts) /\ x.next = task[t].next
    /\ x.counts.failed = task[t].counts.failed + 1 /\ Same(t, x, {"borrowed", "returned"})
    /\ Unreported(t, x) /\ Uncancelled(t, x)

Returns(t, w, x, y, p) ==
    /\ worker[t][w].pc = "return" /\ y.pc = "report" /\ p = platform[t] \ {worker[t][w].item}
    /\ AtMost(task[t].counts, x.counts) /\ x.next = task[t].next
    /\ x.counts.returned = task[t].counts.returned + 1 /\ Same(t, x, {"borrowed", "failed"})
    /\ Unreported(t, x) /\ Uncancelled(t, x)

Loads(t, w, x, y, p) ==
    /\ worker[t][w].pc = "report" /\ y.pc = "write" /\ task[t].mu = None /\ x.mu = w
    /\ y.seen = task[t].counts /\ x.reported = task[t].reported
    /\ x.counts = task[t].counts /\ x.next = task[t].next /\ p = platform[t] /\ Uncancelled(t, x)

Writes(t, w, x, y, p) ==
    /\ worker[t][w].pc = "write" /\ y.pc = "top" /\ x.mu = None
    /\ x.reported = worker[t][w].seen
    /\ x.counts = task[t].counts /\ x.next = task[t].next /\ p = platform[t] /\ Uncancelled(t, x)

\* A step makes x of the task, y of its workers and p of what is claimed, and leaves the other
\* tasks as they are
Changes(t, x, y, p) ==
    /\ task' = [task EXCEPT ![t] = x] /\ worker' = [worker EXCEPT ![t] = y]
    /\ platform' = [platform EXCEPT ![t] = p]
    /\ kind' = kind /\ prompt' = prompt

Acts(t, w, x, y, p) ==
    \/ Stops(t, w, x, y, p) \/ Takes(t, w, x, y, p) \/ Answered(t, w, x, y, p)
    \/ Lends(t, w, x, y, p) \/ FailsNow(t, w, x, y, p) \/ Returns(t, w, x, y, p)
    \/ Loads(t, w, x, y, p) \/ Writes(t, w, x, y, p)

Moves(t, w, x, y, p) ==
    /\ Changes(t, x, [worker[t] EXCEPT ![w] = y], p)
    /\ active' = active /\ canceller' = canceller /\ Fixed(t, x) /\ Acts(t, w, x, y, p)

LEMMA WorkMoves ==
    ASSUME TypeOK, NEW t \in Tasks, NEW w \in Workers, Work(t, w)
    PROVE  \E x \in TaskRecord, y \in WorkerRecord, p \in SUBSET Nat : Moves(t, w, x, y, p)
<1>0. /\ task \in [Tasks -> TaskRecord] /\ task[t] \in TaskRecord
      /\ worker \in [Tasks -> [Workers -> WorkerRecord]] /\ worker[t][w] \in WorkerRecord
      /\ platform \in [Tasks -> SUBSET Nat] /\ platform[t] \in SUBSET Nat
      /\ NoCounts \in Counts
  BY DEF TypeOK, TaskRecord, WorkerRecord, NoCounts, Counts
<1> DEFINE i == worker[t][w].item
           c == task[t].counts
\* The worker goes to a label with an item
<1>1. ASSUME NEW l \in {"off", "top", "request", "verify", "claim", "return", "report"},
             NEW n \in Nat, Goto(t, w, l, n)
      PROVE  \E y \in WorkerRecord :
                /\ worker' = [worker EXCEPT ![t] = [worker[t] EXCEPT ![w] = y]]
                /\ y.pc = l /\ y.item = n
  <2>1. PICK y : y = [NoWorker EXCEPT !.pc = l, !.item = n]
    OBVIOUS
  <2>2. y \in WorkerRecord /\ y.pc = l /\ y.item = n
    BY <1>0, <2>1 DEF NoWorker, WorkerRecord
  <2>3. worker' = [worker EXCEPT ![t] = [worker[t] EXCEPT ![w] = y]]
    BY <1>0, <1>1, <2>1 DEF Goto
  <2> QED BY <2>2, <2>3
\* The counts change, and nothing else of the task
<1>2. ASSUME NEW d \in Counts, Count(t, d)
      PROVE  \E x \in TaskRecord :
                /\ task' = [task EXCEPT ![t] = x] /\ x.counts = d /\ Fixed(t, x)
                /\ x.next = task[t].next /\ Unreported(t, x) /\ Uncancelled(t, x)
  <2>1. PICK x : x = [task[t] EXCEPT !.counts = d]
    OBVIOUS
  <2>2. /\ x \in TaskRecord /\ x.counts = d /\ Fixed(t, x)
        /\ x.next = task[t].next /\ Unreported(t, x) /\ Uncancelled(t, x)
    BY <1>0, <2>1 DEF TaskRecord, Fixed, Unreported, Uncancelled
  <2> QED BY <1>0, <1>2, <2>1, <2>2 DEF Count
<1>3. i \in Nat /\ c \in Counts
  BY <1>0 DEF WorkerRecord, TaskRecord
\* One count goes up
<1>4. /\ [c EXCEPT !.failed = @ + 1] \in Counts /\ [c EXCEPT !.borrowed = @ + 1] \in Counts
      /\ [c EXCEPT !.returned = @ + 1] \in Counts
      /\ [c EXCEPT !.codes = @ + 1, !.claimed = @ + 1] \in Counts
      /\ c.claimed \in Nat /\ c.borrowed \in Nat /\ c.returned \in Nat /\ c.expired \in Nat
      /\ c.failed \in Nat /\ c.codes \in Nat
  <2> HIDE DEF c
  <2>1. /\ c.claimed \in Nat /\ c.borrowed \in Nat /\ c.returned \in Nat /\ c.expired \in Nat
        /\ c.failed \in Nat /\ c.codes \in Nat
    BY <1>3 DEF Counts
  <2>2. [c EXCEPT !.failed = @ + 1] \in Counts
    BY <1>3, <2>1 DEF Counts
  <2>3. [c EXCEPT !.borrowed = @ + 1] \in Counts
    BY <1>3, <2>1 DEF Counts
  <2>4. [c EXCEPT !.returned = @ + 1] \in Counts
    BY <1>3, <2>1 DEF Counts
  <2>5. [c EXCEPT !.codes = @ + 1, !.claimed = @ + 1] \in Counts
    <3>1. PICK m \in Nat, n \in Nat : m = c.codes + 1 /\ n = c.claimed + 1
      BY <2>1
    <3>2. [c EXCEPT !.codes = m, !.claimed = n] \in Counts
      BY <1>3 DEF Counts
    <3> QED BY <3>1, <3>2
  <2> QED BY <2>1, <2>2, <2>3, <2>4, <2>5
<1>5. ASSUME NEW d \in Counts, d = [c EXCEPT !.failed = @ + 1]
      PROVE  AtMost(c, d) /\ d.failed = c.failed + 1 /\ d.returned = c.returned
             /\ d.codes = c.codes /\ d.borrowed = c.borrowed
  BY <1>3, <1>4, <1>5 DEF Counts, AtMost
<1>6. ASSUME NEW d \in Counts, d = [c EXCEPT !.borrowed = @ + 1]
      PROVE  AtMost(c, d) /\ d.failed = c.failed /\ d.returned = c.returned
             /\ d.borrowed = c.borrowed + 1
  BY <1>3, <1>4, <1>6 DEF Counts, AtMost
<1>7. ASSUME NEW d \in Counts, d = [c EXCEPT !.returned = @ + 1]
      PROVE  AtMost(c, d) /\ d.failed = c.failed /\ d.returned = c.returned + 1
             /\ d.borrowed = c.borrowed
  BY <1>3, <1>4, <1>7 DEF Counts, AtMost
<1>8. ASSUME NEW d \in Counts, d = [c EXCEPT !.codes = @ + 1, !.claimed = @ + 1]
      PROVE  AtMost(c, d) /\ d.failed = c.failed /\ d.codes = c.codes + 1
  BY <1>3, <1>4, <1>8 DEF Counts, AtMost
<1>9. platform' = platform => platform' = [platform EXCEPT ![t] = platform[t]]
  BY <1>0
<1>10. platform[t] \cup {i} \in SUBSET Nat /\ platform[t] \ {i} \in SUBSET Nat
  BY <1>0, <1>3
<1> HIDE DEF c
\* sendClaimAPI fails
<1>11. ASSUME worker[t][w].pc \in {"verify", "claim", "return"}, NEW done \in SUBSET Nat,
              Fails(t, w, done), UNCHANGED <<modes, active, canceller>>,
              \/ done = platform[t]
              \/ worker[t][w].pc = "claim" /\ done = platform[t] \cup {i}
              \/ worker[t][w].pc = "return" /\ done = platform[t] \ {i}
       PROVE  \E x \in TaskRecord, y \in WorkerRecord, p \in SUBSET Nat : Moves(t, w, x, y, p)
  <2>1. PICK d \in Counts : d = [c EXCEPT !.failed = @ + 1]
    BY <1>4
  <2>2. PICK x \in TaskRecord :
           /\ task' = [task EXCEPT ![t] = x] /\ x.counts = d /\ Fixed(t, x)
           /\ x.next = task[t].next /\ Unreported(t, x) /\ Uncancelled(t, x)
    BY <1>2, <1>11, <2>1 DEF Fails, c
  <2>3. PICK y \in WorkerRecord :
           /\ worker' = [worker EXCEPT ![t] = [worker[t] EXCEPT ![w] = y]]
           /\ y.pc = "report" /\ y.item = i
    BY <1>1, <1>3, <1>11 DEF Fails
  <2>4. PICK p \in SUBSET Nat : /\ platform' = [platform EXCEPT ![t] = p]
                                /\ p = platform[t] \/ p = done
    BY <1>0, <1>9, <1>11 DEF Fails
  <2>5. FailsNow(t, w, x, y, p)
    BY <1>5, <1>11, <2>1, <2>2, <2>3, <2>4 DEF FailsNow, c, Same
  <2> QED BY <1>11, <2>2, <2>3, <2>4, <2>5 DEF Moves, Changes, Acts, modes
<1>12. CASE Take(t, w)
  <2> DEFINE n == task[t].next
  <2>0. /\ worker[t][w].pc = "top" /\ UNCHANGED <<modes, active, canceller, platform>>
        /\ n \in Nat /\ n + 1 \in Nat /\ task[t].total \in Nat
    BY <1>0, <1>12 DEF Take, TaskRecord
  <2>1. CASE task[t].cancelled \/ n >= task[t].total
    <3>1. PICK y \in WorkerRecord :
             /\ worker' = [worker EXCEPT ![t] = [worker[t] EXCEPT ![w] = y]] /\ y.pc = "off"
      BY <1>1, <1>12, <2>1 DEF Take
    <3>2. PICK x : x = IF task[t].cancelled THEN task[t] ELSE [task[t] EXCEPT !.next = n + 1]
      OBVIOUS
    <3>3. x \in TaskRecord
      BY <1>0, <2>0, <3>2 DEF TaskRecord
    <3>4. /\ x.counts = task[t].counts /\ Fixed(t, x) /\ Unreported(t, x) /\ Uncancelled(t, x)
          /\ x.next = IF task[t].cancelled THEN n ELSE n + 1
      BY <1>0, <3>2 DEF TaskRecord, Fixed, Unreported, Uncancelled
    <3>5. task' = [task EXCEPT ![t] = x]
      BY <1>0, <1>12, <2>1, <3>2 DEF Take
    <3>6. Stops(t, w, x, y, platform[t])
      BY <2>0, <2>1, <3>1, <3>4 DEF Stops
    <3> QED BY <1>0, <1>9, <2>0, <3>1, <3>3, <3>4, <3>5, <3>6 DEF Moves, Changes, Acts, modes
  <2>2. CASE ~(task[t].cancelled \/ n >= task[t].total)
    <3>1. PICK y \in WorkerRecord :
             /\ worker' = [worker EXCEPT ![t] = [worker[t] EXCEPT ![w] = y]]
             /\ y.pc = (IF kind = "claim" THEN "request"
                        ELSE IF n < task[t].borrowedEnd THEN "verify" ELSE "report")
             /\ y.item = n
      BY <1>1, <1>12, <2>0, <2>2 DEF Take
    <3>2. PICK a \in Nat, e \in Nat :
             /\ a = IF kind = "lifecycle" THEN c.claimed + 1 ELSE c.claimed
             /\ e = IF kind = "lifecycle" /\ n < task[t].expiredEnd
                    THEN c.expired + 1 ELSE c.expired
      BY <1>4
    <3>3. PICK d : d = [c EXCEPT !.claimed = a, !.expired = e]
      OBVIOUS
    <3>4. d \in Counts
      BY <1>3, <3>3 DEF Counts
    <3>5. /\ d.claimed = a /\ d.expired = e /\ d.borrowed = c.borrowed
          /\ d.returned = c.returned /\ d.failed = c.failed /\ d.codes = c.codes
      BY <1>3, <3>3 DEF Counts
    <3>6. AtMost(c, d)
      BY <1>4, <3>2, <3>5 DEF AtMost
    <3>7. PICK x : x = [task[t] EXCEPT !.next = n + 1, !.counts = d]
      OBVIOUS
    <3>8. x \in TaskRecord
      BY <1>0, <2>0, <3>4, <3>7 DEF TaskRecord
    <3>9. /\ x.counts = d /\ Fixed(t, x) /\ Unreported(t, x) /\ Uncancelled(t, x)
          /\ x.next = n + 1
      BY <1>0, <3>7 DEF TaskRecord, Fixed, Unreported, Uncancelled
    <3>10. task' = [task EXCEPT ![t] = x]
      <4>1. task' = [task EXCEPT ![t].next = n + 1,
                     ![t].counts.claimed = IF kind = "lifecycle" THEN @ + 1 ELSE @,
                     ![t].counts.expired =
                         IF kind = "lifecycle" /\ n < task[t].expiredEnd THEN @ + 1 ELSE @]
        BY <1>12, <2>2 DEF Take
      <4>2. task' = [task EXCEPT ![t].next = n + 1, ![t].counts.claimed = a,
                                 ![t].counts.expired = e]
        BY <1>0, <3>2, <4>1 DEF c, TaskRecord, Counts
      <4> QED BY <1>0, <3>3, <3>7, <4>2 DEF c, TaskRecord, Counts
    <3>11. Takes(t, w, x, y, platform[t])
      BY <2>0, <2>2, <3>1, <3>5, <3>6, <3>9 DEF Takes, c, Same
    <3> QED BY <1>0, <1>9, <2>0, <3>1, <3>8, <3>9, <3>10, <3>11 DEF Moves, Changes, Acts, modes
  <2> QED BY <2>1, <2>2
<1>13. CASE Issued(t, w) \/ Refused(t, w) \/ Unanswered(t, w)
  <2>1. PICK d \in Counts : /\ Count(t, d) /\ AtMost(c, d)
                            /\ d.codes + d.failed = c.codes + c.failed + 1
    BY <1>4, <1>5, <1>8, <1>13 DEF Issued, Refused, Unanswered, c
  <2>2. PICK x \in TaskRecord :
           /\ task' = [task EXCEPT ![t] = x] /\ x.counts = d /\ Fixed(t, x)
           /\ x.next = task[t].next /\ Unreported(t, x) /\ Uncancelled(t, x)
    BY <1>2, <2>1
  <2>3. PICK y \in WorkerRecord :
           /\ worker' = [worker EXCEPT ![t] = [worker[t] EXCEPT ![w] = y]]
           /\ y.pc \in {"report", "top"}
    BY <1>1, <1>3, <1>13 DEF Issued, Refused, Unanswered
  <2>4. PICK p \in SUBSET Nat : /\ platform' = [platform EXCEPT ![t] = p]
                                /\ p = platform[t] \/ p = platform[t] \cup {i}
    BY <1>0, <1>9, <1>10, <1>13 DEF Issued, Refused, Unanswered
  <2>5. Answered(t, w, x, y, p)
    BY <1>13, <2>1, <2>2, <2>3, <2>4 DEF Issued, Refused, Unanswered, Answered, c
  <2> QED BY <1>13, <2>2, <2>3, <2>4, <2>5
          DEF Moves, Changes, Acts, modes, Issued, Refused, Unanswered
<1>14. CASE KickedOut(t, w)
  <2>1. PICK d \in Counts : d = [c EXCEPT !.failed = @ + 1]
    BY <1>4
  <2>2. PICK x : x = [task[t] EXCEPT !.cancelled = TRUE, !.kicked = TRUE, !.counts = d]
    OBVIOUS
  <2>3. /\ x \in TaskRecord /\ x.counts = d /\ Fixed(t, x) /\ x.cancelled /\ x.kicked
        /\ x.next = task[t].next /\ Unreported(t, x)
    BY <1>0, <2>2 DEF TaskRecord, Fixed, Unreported
  <2>4. task' = [task EXCEPT ![t] = x]
    <3>1. task' = [task EXCEPT ![t].cancelled = TRUE, ![t].kicked = TRUE,
                               ![t].counts.failed = @ + 1]
      BY <1>14 DEF KickedOut
    <3> QED BY <1>0, <2>1, <2>2, <3>1 DEF c
  <2>5. PICK y \in WorkerRecord :
           /\ worker' = [worker EXCEPT ![t] = [worker[t] EXCEPT ![w] = y]] /\ y.pc = "off"
    BY <1>1, <1>14 DEF KickedOut
  <2>6. /\ platform' = [platform EXCEPT ![t] = platform[t]]
        /\ UNCHANGED <<modes, active, canceller>>
    BY <1>9, <1>14 DEF KickedOut
  <2>7. Answered(t, w, x, y, platform[t])
    BY <1>4, <1>5, <1>14, <2>1, <2>3, <2>5 DEF KickedOut, Answered, c
  <2> QED BY <1>0, <2>3, <2>4, <2>5, <2>6, <2>7 DEF Moves, Changes, Acts, modes
<1>15. CASE Verify(t, w)
  <2>1. CASE Fails(t, w, platform[t])
    BY <1>0, <1>11, <1>15, <2>1 DEF Verify
  <2>2. CASE Goto(t, w, "claim", i) /\ UNCHANGED <<task, platform>>
    <3>1. PICK y \in WorkerRecord :
             /\ worker' = [worker EXCEPT ![t] = [worker[t] EXCEPT ![w] = y]]
             /\ y.pc = "claim" /\ y.item = i
      BY <1>1, <1>3, <2>2
    <3>2. task' = [task EXCEPT ![t] = task[t]]
      BY <1>0, <2>2
    <3>3. AtMost(c, c)
      BY <1>4 DEF AtMost
    <3>4. Lends(t, w, task[t], y, platform[t]) /\ Fixed(t, task[t])
      BY <1>15, <3>1, <3>3 DEF Verify, Lends, Fixed, Unreported, Uncancelled, c, Same
    <3> QED BY <1>0, <1>9, <1>15, <2>2, <3>1, <3>2, <3>4 DEF Moves, Changes, Acts, modes, Verify
  <2> QED BY <1>15, <2>1, <2>2 DEF Verify
<1>16. CASE Claim(t, w)
  <2> DEFINE out == platform[t] \cup {i}
  <2>1. CASE Fails(t, w, out)
    BY <1>10, <1>11, <1>16, <2>1 DEF Claim
  <2>2. CASE /\ platform' = [platform EXCEPT ![t] = out]
             /\ Count(t, [c EXCEPT !.borrowed = @ + 1])
             /\ Goto(t, w, IF InFirst(t, w, task[t].returnedEnd) THEN "return" ELSE "report", i)
    <3>1. PICK d \in Counts : d = [c EXCEPT !.borrowed = @ + 1]
      BY <1>4
    <3>2. PICK x \in TaskRecord :
             /\ task' = [task EXCEPT ![t] = x] /\ x.counts = d /\ Fixed(t, x)
             /\ x.next = task[t].next /\ Unreported(t, x) /\ Uncancelled(t, x)
      BY <1>2, <2>2, <3>1
    <3>3. PICK y \in WorkerRecord :
             /\ worker' = [worker EXCEPT ![t] = [worker[t] EXCEPT ![w] = y]]
             /\ y.pc = (IF i < task[t].returnedEnd THEN "return" ELSE "report") /\ y.item = i
      BY <1>1, <1>3, <2>2 DEF InFirst
    <3>4. Lends(t, w, x, y, out)
      BY <1>6, <1>16, <3>1, <3>2, <3>3 DEF Claim, Lends, c, Same
    <3> QED BY <1>10, <1>16, <2>2, <3>2, <3>3, <3>4 DEF Moves, Changes, Acts, modes, Claim
  <2> QED BY <1>16, <2>1, <2>2 DEF Claim, c
<1>17. CASE ReturnUSB(t, w)
  <2> DEFINE out == platform[t] \ {i}
  <2>1. CASE Fails(t, w, out)
    BY <1>10, <1>11, <1>17, <2>1 DEF ReturnUSB
  <2>2. CASE /\ platform' = [platform EXCEPT ![t] = out]
             /\ Count(t, [c EXCEPT !.returned = @ + 1]) /\ Goto(t, w, "report", i)
    <3>1. PICK d \in Counts : d = [c EXCEPT !.returned = @ + 1]
      BY <1>4
    <3>2. PICK x \in TaskRecord :
             /\ task' = [task EXCEPT ![t] = x] /\ x.counts = d /\ Fixed(t, x)
             /\ x.next = task[t].next /\ Unreported(t, x) /\ Uncancelled(t, x)
      BY <1>2, <2>2, <3>1
    <3>3. PICK y \in WorkerRecord :
             /\ worker' = [worker EXCEPT ![t] = [worker[t] EXCEPT ![w] = y]] /\ y.pc = "report"
      BY <1>1, <1>3, <2>2
    <3>4. Returns(t, w, x, y, out)
      BY <1>7, <1>17, <3>1, <3>2, <3>3 DEF ReturnUSB, Returns, c, Same
    <3> QED BY <1>10, <1>17, <2>2, <3>2, <3>3, <3>4 DEF Moves, Changes, Acts, modes, ReturnUSB
  <2> QED BY <1>17, <2>1, <2>2 DEF ReturnUSB, c
<1>18. CASE ReportLoad(t, w)
  <2>1. PICK x : x = [task[t] EXCEPT !.mu = w]
    OBVIOUS
  <2>2. /\ x \in TaskRecord /\ x.counts = task[t].counts /\ Fixed(t, x) /\ x.mu = w
        /\ x.next = task[t].next /\ x.reported = task[t].reported /\ Uncancelled(t, x)
    BY <1>0, <2>1 DEF TaskRecord, Fixed, Uncancelled
  <2>3. PICK y : y = [worker[t][w] EXCEPT !.pc = "write", !.seen = task[t].counts]
    OBVIOUS
  <2>4. y \in WorkerRecord /\ y.pc = "write" /\ y.seen = task[t].counts
    BY <1>0, <1>3, <2>3 DEF WorkerRecord, c
  <2>5. /\ task' = [task EXCEPT ![t] = x]
        /\ worker' = [worker EXCEPT ![t] = [worker[t] EXCEPT ![w] = y]]
    BY <1>0, <1>18, <2>1, <2>3 DEF ReportLoad
  <2>6. Loads(t, w, x, y, platform[t])
    BY <1>18, <2>2, <2>4 DEF ReportLoad, Loads
  <2> QED BY <1>0, <1>9, <1>18, <2>2, <2>4, <2>5, <2>6 DEF Moves, Changes, Acts, modes, ReportLoad
<1>19. CASE ReportWrite(t, w)
  <2>1. PICK x : x = [task[t] EXCEPT !.mu = None, !.reported = worker[t][w].seen]
    OBVIOUS
  <2>2. /\ x \in TaskRecord /\ x.counts = task[t].counts /\ Fixed(t, x) /\ x.mu = None
        /\ x.next = task[t].next /\ x.reported = worker[t][w].seen /\ Uncancelled(t, x)
    BY <1>0, <2>1 DEF TaskRecord, WorkerRecord, Fixed, Uncancelled
  <2>3. PICK y \in WorkerRecord :
           /\ worker' = [worker EXCEPT ![t] = [worker[t] EXCEPT ![w] = y]] /\ y.pc = "top"
    BY <1>1, <1>19 DEF ReportWrite
  <2>4. task' = [task EXCEPT ![t] = x]
    BY <1>0, <1>19, <2>1 DEF ReportWrite
  <2>5. Writes(t, w, x, y, platform[t])
    BY <1>19, <2>2, <2>3 DEF ReportWrite, Writes
  <2> QED BY <1>0, <1>9, <1>19, <2>2, <2>3, <2>4, <2>5 DEF Moves, Changes, Acts, modes, ReportWrite
<1> QED BY <1>12, <1>13, <1>14, <1>15, <1>16, <1>17, <1>18, <1>19 DEF Work

\* A task is started
Starts(t, x, y, p) ==
    /\ task[t].status = "none" /\ canceller = None /\ canceller' = None /\ p = platform[t]
    /\ x.status = "running" /\ x.pc = "running" /\ x.next = 0 /\ x.mu = None
    /\ x.counts = NoCounts /\ x.reported = NoCounts /\ ~x.cancelled /\ ~x.kicked
    /\ y[1].pc = "top" /\ \A w \in Workers : y[w].pc \in {"top", "off"}

\* A task is cancelled
Counted(t, x) ==
    /\ x.total = task[t].total /\ x.next = task[t].next /\ x.counts = task[t].counts
    /\ x.borrowedEnd = task[t].borrowedEnd /\ x.returnedEnd = task[t].returnedEnd
    /\ x.expiredEnd = task[t].expiredEnd /\ x.mu = task[t].mu /\ x.kicked = task[t].kicked

Closes(t, x) ==
    /\ canceller = None /\ canceller' = t /\ task[t].status = "running"
    /\ Counted(t, x) /\ x.reported = task[t].reported /\ x.pc = task[t].pc
    /\ x.cancelled /\ x.status = "running"

Marks(t, x) ==
    /\ canceller = t /\ canceller' = None
    /\ Counted(t, x) /\ x.reported = task[t].reported /\ x.pc = task[t].pc
    /\ x.cancelled = task[t].cancelled /\ x.status = "cancelled"

\* A task is over
Checks(t, x) ==
    /\ task[t].pc = "running" /\ \A w \in Workers : worker[t][w].pc = "off"
    /\ prompt => canceller # t
    /\ Counted(t, x) /\ x.cancelled = task[t].cancelled /\ x.status = task[t].status
    /\ x.reported = task[t].counts
    /\ x.pc = IF task[t].status = "running" THEN "write" ELSE "done"

Completes(t, x) ==
    /\ task[t].pc = "write" /\ x.pc = "done" /\ x.status = "completed"
    /\ Counted(t, x) /\ x.cancelled = task[t].cancelled /\ x.reported = task[t].reported

Manages(t, x, y, p) ==
    /\ y = worker[t] /\ p = platform[t]
    /\ \/ Closes(t, x) \/ Marks(t, x)
       \/ canceller' = canceller /\ (Checks(t, x) \/ Completes(t, x))

LEMMA LaunchStarts ==
    ASSUME TypeOK, canceller = None, NEW n \in Nat, NEW workers \in Nat \ {0},
           NEW s \in Asked, Launch(n, s, workers)
    PROVE  \E t \in Tasks, x \in TaskRecord, y \in [Workers -> WorkerRecord] :
              Changes(t, x, y, platform[t]) /\ Starts(t, x, y, platform[t])
<1>1. PICK t \in Tasks :
         /\ task[t].status = "none"
         /\ LET parts == Parts(n, s) IN
               task' = [task EXCEPT ![t] = [NoTask EXCEPT
                   !.status = "running", !.total = n, !.pc = "running",
                   !.borrowedEnd = parts.borrowedEnd, !.returnedEnd = parts.returnedEnd,
                   !.expiredEnd = parts.expiredEnd]]
         /\ worker' = [worker EXCEPT ![t] = [w \in Workers |->
               IF w <= workers THEN [NoWorker EXCEPT !.pc = "top"] ELSE NoWorker]]
         /\ UNCHANGED <<modes, canceller, platform>>
  BY DEF Launch
<1>2. PICK b \in Int, r \in Int, e \in Int :
         /\ b = Parts(n, s).borrowedEnd /\ r = Parts(n, s).returnedEnd
         /\ e = Parts(n, s).expiredEnd
  BY PartsInt
<1>3. PICK x : x = [NoTask EXCEPT !.status = "running", !.total = n, !.pc = "running",
                      !.borrowedEnd = b, !.returnedEnd = r, !.expiredEnd = e]
  OBVIOUS
<1>4. NoCounts \in Counts /\ None \in Workers \cup {None}
  BY DEF NoCounts, Counts
<1>5. x \in TaskRecord
  BY <1>3, <1>4 DEF TaskRecord, NoTask
<1>6. /\ x.status = "running" /\ x.pc = "running" /\ x.next = 0 /\ x.mu = None
      /\ x.counts = NoCounts /\ x.reported = NoCounts /\ ~x.cancelled /\ ~x.kicked
      /\ x.borrowedEnd = b /\ x.returnedEnd = r /\ x.expiredEnd = e /\ x.total = n
  BY <1>3 DEF NoTask
<1>7. PICK y : y = [w \in Workers |-> IF w <= workers THEN [NoWorker EXCEPT !.pc = "top"]
                                                      ELSE NoWorker]
  OBVIOUS
<1>8. /\ NoWorker \in WorkerRecord /\ [NoWorker EXCEPT !.pc = "top"] \in WorkerRecord
      /\ NoWorker.pc = "off" /\ [NoWorker EXCEPT !.pc = "top"].pc = "top"
  BY <1>4 DEF NoWorker, WorkerRecord
<1>9. y \in [Workers -> WorkerRecord] /\ \A w \in Workers : y[w].pc \in {"top", "off"}
  BY <1>7, <1>8
<1>10. 1 \in Workers /\ y[1].pc = "top"
  <2>1. 1 \in Workers /\ 1 <= workers
    BY ClaimsAssumption DEF ClaimsAssumption, Workers
  <2> QED BY <1>7, <1>8, <2>1
<1>11. Starts(t, x, y, platform[t])
  BY <1>1, <1>2, <1>6, <1>9, <1>10 DEF Starts
<1>12. Changes(t, x, y, platform[t])
  BY <1>1, <1>2, <1>3, <1>7 DEF Changes, modes, TypeOK
<1> QED BY <1>5, <1>9, <1>11, <1>12

LEMMA NextChanges ==
    ASSUME TypeOK, Next
    PROVE  \E t \in Tasks, x \in TaskRecord, y \in [Workers -> WorkerRecord], p \in SUBSET Nat :
              /\ Changes(t, x, y, p)
              /\ active' \in Tasks \cup {None}
              /\ \/ Starts(t, x, y, p) \/ Manages(t, x, y, p)
                 \/ \E w \in Workers, z \in WorkerRecord :
                       /\ y = [worker[t] EXCEPT ![w] = z] /\ canceller' = canceller
                       /\ Fixed(t, x) /\ Acts(t, w, x, z, p)
<1>0. /\ task \in [Tasks -> TaskRecord] /\ worker \in [Tasks -> [Workers -> WorkerRecord]]
      /\ platform \in [Tasks -> SUBSET Nat]
      /\ active \in Tasks \cup {None} /\ canceller \in Tasks \cup {None}
  BY DEF TypeOK, TaskRecord, WorkerRecord
<1>1. CASE \E n \in Totals, workers \in Concurrencies :
              \/ StartTask(n, workers) \/ \E s \in Shares : StartLifecycle(n, s, workers)
  <2>1. ASSUME NEW workers \in Concurrencies
        PROVE  Pool(workers) \in Nat \ {0}
    BY ClaimsAssumption DEF ClaimsAssumption, Pool
  <2>2. PICK m \in Nat, workers \in Concurrencies, s \in Asked :
           Launch(m, s, Pool(workers)) /\ canceller = None
    <3>1. PICK n \in Totals, workers \in Concurrencies :
             \/ StartTask(n, workers) \/ \E s \in Shares : StartLifecycle(n, s, workers)
      BY <1>1
    <3>2. CASE StartTask(n, workers)
      <4>1. PICK m, s : /\ m = IF n <= 0 THEN DefaultTotal ELSE n
                        /\ s = [claimed |-> 100, borrowed |-> 0, returned |-> 0, expired |-> 0]
        OBVIOUS
      <4>2. m \in Nat /\ s \in Asked
        BY <4>1, ClaimsAssumption DEF ClaimsAssumption, Asked
      <4>3. Launch(m, s, Pool(workers)) /\ canceller = None
        BY <3>2, <4>1 DEF StartTask, Free
      <4> QED BY <4>2, <4>3
    <3>3. CASE \E s \in Shares : StartLifecycle(n, s, workers)
      <4>1. PICK s \in Shares : StartLifecycle(n, s, workers)
        BY <3>3
      <4>2. n \in Nat /\ s \in Asked
        BY <4>1, ClaimsAssumption DEF ClaimsAssumption, StartLifecycle, Asked
      <4>3. Launch(n, s, Pool(workers)) /\ canceller = None
        BY <4>1 DEF StartLifecycle, Free
      <4> QED BY <4>2, <4>3
    <3> QED BY <3>1, <3>2, <3>3
  <2>3. PICK t \in Tasks, x \in TaskRecord, y \in [Workers -> WorkerRecord] :
           Changes(t, x, y, platform[t]) /\ Starts(t, x, y, platform[t])
    BY <2>1, <2>2, LaunchStarts
  <2>4. active' \in Tasks \cup {None}
    BY <2>2 DEF Launch
  <2> QED BY <1>0, <2>3, <2>4
<1>2. CASE CancelClose
  <2>1. active \in Tasks
    BY <1>0, <1>2 DEF CancelClose
  <2>2. PICK x : x = [task[active] EXCEPT !.cancelled = TRUE]
    OBVIOUS
  <2>3. x \in TaskRecord
    BY <1>0, <2>1, <2>2 DEF TaskRecord
  <2>4. Closes(active, x)
    BY <1>0, <1>2, <2>1, <2>2 DEF CancelClose, Closes, Counted, TaskRecord
  <2>5. Changes(active, x, worker[active], platform[active]) /\ active' \in Tasks \cup {None}
    BY <1>0, <1>2, <2>1, <2>2 DEF CancelClose, Changes, modes
  <2> QED BY <1>0, <2>1, <2>3, <2>4, <2>5 DEF Manages
<1>3. CASE CancelStatus
  <2>1. canceller \in Tasks
    BY <1>0, <1>3 DEF CancelStatus
  <2>2. PICK x : x = [task[canceller] EXCEPT !.status = "cancelled"]
    OBVIOUS
  <2>3. x \in TaskRecord
    BY <1>0, <2>1, <2>2 DEF TaskRecord
  <2>4. Marks(canceller, x)
    BY <1>0, <1>3, <2>1, <2>2 DEF CancelStatus, Marks, Counted, TaskRecord
  <2>5. /\ Changes(canceller, x, worker[canceller], platform[canceller])
        /\ active' \in Tasks \cup {None}
    BY <1>0, <1>3, <2>1, <2>2 DEF CancelStatus, Changes, modes
  <2> QED BY <1>0, <2>1, <2>3, <2>4, <2>5 DEF Manages
<1>4. ASSUME NEW t \in Tasks, FinishCheck(t)
      PROVE  \E x \in TaskRecord :
                /\ Changes(t, x, worker[t], platform[t])
                /\ active' \in Tasks \cup {None} /\ Manages(t, x, worker[t], platform[t])
  <2> DEFINE l == IF task[t].status = "running" THEN "write" ELSE "done"
  <2>1. PICK x : x = [task[t] EXCEPT !.reported = task[t].counts, !.pc = l]
    OBVIOUS
  <2>2. x \in TaskRecord
    <3>1. l \in {"write", "done"} /\ task[t] \in TaskRecord /\ task[t].counts \in Counts
      BY <1>0 DEF TaskRecord
    <3> HIDE DEF l
    <3>2. PICK v \in TaskRecord : v = [task[t] EXCEPT !.reported = task[t].counts]
      BY <3>1 DEF TaskRecord
    <3>3. [v EXCEPT !.pc = l] \in TaskRecord
      BY <3>1 DEF TaskRecord
    <3>4. x = [v EXCEPT !.pc = l]
      BY <2>1, <3>2
    <3> QED BY <3>3, <3>4
  <2>3. Checks(t, x)
    BY <1>0, <1>4, <2>1 DEF FinishCheck, Checks, Counted, TaskRecord
  <2>4. task' = [task EXCEPT ![t] = x]
    BY <1>0, <1>4, <2>1 DEF FinishCheck
  <2>5. Changes(t, x, worker[t], platform[t]) /\ active' \in Tasks \cup {None}
    BY <1>0, <1>4, <2>4 DEF FinishCheck, Changes, modes
  <2> QED BY <1>4, <2>2, <2>3, <2>5 DEF Manages, FinishCheck
<1>5. ASSUME NEW t \in Tasks, FinishWrite(t)
      PROVE  \E x \in TaskRecord :
                /\ Changes(t, x, worker[t], platform[t])
                /\ active' \in Tasks \cup {None} /\ Manages(t, x, worker[t], platform[t])
  <2>1. PICK x : x = [task[t] EXCEPT !.pc = "done", !.status = "completed"]
    OBVIOUS
  <2>2. x \in TaskRecord
    <3>1. PICK v \in TaskRecord : v = [task[t] EXCEPT !.pc = "done"]
      BY <1>0 DEF TaskRecord
    <3>2. [v EXCEPT !.status = "completed"] \in TaskRecord
      BY DEF TaskRecord
    <3>3. x = [v EXCEPT !.status = "completed"]
      BY <2>1, <3>1
    <3> QED BY <3>2, <3>3
  <2>3. Completes(t, x)
    BY <1>0, <1>5, <2>1 DEF FinishWrite, Completes, Counted, TaskRecord
  <2>4. task' = [task EXCEPT ![t] = x]
    BY <1>0, <1>5, <2>1 DEF FinishWrite
  <2>5. Changes(t, x, worker[t], platform[t]) /\ active' \in Tasks \cup {None}
    BY <1>0, <1>5, <2>4 DEF FinishWrite, Changes, modes
  <2> QED BY <1>5, <2>2, <2>3, <2>5 DEF Manages, FinishWrite
<1>6. ASSUME NEW t \in Tasks, NEW w \in Workers, Work(t, w)
      PROVE  \E x \in TaskRecord, y \in [Workers -> WorkerRecord], p \in SUBSET Nat,
                z \in WorkerRecord :
                /\ Changes(t, x, y, p) /\ active' \in Tasks \cup {None}
                /\ y = [worker[t] EXCEPT ![w] = z] /\ canceller' = canceller
                /\ Fixed(t, x) /\ Acts(t, w, x, z, p)
  <2>1. PICK x \in TaskRecord, z \in WorkerRecord, p \in SUBSET Nat : Moves(t, w, x, z, p)
    BY <1>6, WorkMoves
  <2>2. [worker[t] EXCEPT ![w] = z] \in [Workers -> WorkerRecord]
    BY <1>0
  <2> QED BY <1>0, <2>1, <2>2 DEF Moves
<1>7. ASSUME NEW t \in Tasks
      PROVE  worker[t] \in [Workers -> WorkerRecord] /\ platform[t] \in SUBSET Nat
  BY <1>0
<1>8. CASE \E t \in Tasks : Finish(t)
  <2>1. PICK t \in Tasks : FinishCheck(t) \/ FinishWrite(t)
    BY <1>8 DEF Finish
  <2>2. PICK x \in TaskRecord :
                /\ Changes(t, x, worker[t], platform[t])
                /\ active' \in Tasks \cup {None} /\ Manages(t, x, worker[t], platform[t])
    BY <1>4, <1>5, <2>1
  <2> QED BY <1>7, <2>2
<1>9. CASE \E t \in Tasks, w \in Workers : Work(t, w)
  BY <1>6, <1>9
<1> QED BY <1>1, <1>2, <1>3, <1>8, <1>9 DEF Next

LEMMA TypeStep ==
    ASSUME TypeOK, [Next]_vars
    PROVE  TypeOK'
<1>1. CASE UNCHANGED vars
  BY <1>1 DEF TypeOK, vars, modes, Workers, Tasks
<1>2. CASE Next
  <2>1. PICK t \in Tasks, x \in TaskRecord, y \in [Workers -> WorkerRecord], p \in SUBSET Nat :
              /\ Changes(t, x, y, p)
              /\ active' \in Tasks \cup {None}
              /\ \/ Starts(t, x, y, p) \/ Manages(t, x, y, p)
                 \/ canceller' = canceller
    BY <1>2, NextChanges
  <2>2. canceller' \in Tasks \cup {None}
    BY <2>1 DEF Starts, Manages, Closes, Marks, TypeOK
  <2>3. /\ task' \in [Tasks -> TaskRecord] /\ worker' \in [Tasks -> [Workers -> WorkerRecord]]
        /\ platform' \in [Tasks -> SUBSET Nat] /\ kind' = kind /\ prompt' = prompt
    BY <2>1 DEF Changes, TypeOK, TaskRecord, WorkerRecord
  <2> QED BY <2>1, <2>2, <2>3 DEF TypeOK, TaskRecord, WorkerRecord
<1> QED BY <1>1, <1>2

LEMMA TypeInit == Init => TypeOK
<1>1. NoCounts \in Counts
  BY DEF NoCounts, Counts
<1>2. NoTask \in TaskRecord /\ NoWorker \in WorkerRecord
  BY <1>1 DEF NoTask, TaskRecord, NoWorker, WorkerRecord
<1> QED BY <1>2 DEF Init, TypeOK, TaskRecord, WorkerRecord

\* The types of the variables
THEOREM TypeCorrect == Spec => []TypeOK
<1>1. TypeOK /\ [Next]_vars => TypeOK'
  BY TypeStep
<1> QED BY TypeInit, <1>1, PTL DEF Spec

-----------------------------------------------------------------------------
(* What holds of a task, its workers and what it has claimed               *)

\* A step of one task leaves the others alone
LEMMA Elsewhere ==
    ASSUME TypeOK, NEW t \in Tasks, NEW x, NEW y, NEW p, Changes(t, x, y, p)
    PROVE  /\ task'[t] = x /\ worker'[t] = y /\ platform'[t] = p /\ kind' = kind
           /\ \A u \in Tasks : u # t => /\ task'[u] = task[u] /\ worker'[u] = worker[u]
                                        /\ platform'[u] = platform[u]
BY DEF Changes, TypeOK

\* The step, as it is seen by the task
Step(t, x, y, p) ==
    \/ Starts(t, x, y, p) \/ Manages(t, x, y, p)
    \/ \E w \in Workers, z \in WorkerRecord :
          /\ y = [worker[t] EXCEPT ![w] = z] /\ canceller' = canceller
          /\ Fixed(t, x) /\ Acts(t, w, x, z, p)

\* A task that was not started is untouched, and when it is over its workers have returned and
\* it has reported all there is
Shaped(x, y, p) ==
    /\ x.status = "none" => x = NoTask /\ p = {} /\ \A w \in Workers : y[w].pc = "off"
    /\ x.status # "none" => x.pc # "off"
    /\ \A w \in Workers :
          IF kind = "claim" THEN y[w].pc \notin {"verify", "claim", "return"}
          ELSE y[w].pc # "request"
    /\ x.pc \in {"write", "done"} =>
          x.reported = x.counts /\ \A w \in Workers : y[w].pc = "off"

\* One worker writes the progress, and what it read lies between what was reported and what
\* there is by now
Clear(x, y) ==
    /\ \A w \in Workers : y[w].pc = "write" <=> x.mu = w
    /\ \A w \in Workers :
          y[w].pc = "write" => AtMost(x.reported, y[w].seen) /\ AtMost(y[w].seen, x.counts)
    /\ AtMost(x.reported, x.counts)

Basics ==
    /\ canceller # None => task[canceller].status # "none"
    /\ \A t \in Tasks : Shaped(task[t], worker[t], platform[t]) /\ Clear(task[t], worker[t])

LEMMA AtMostIsOrder ==
    /\ \A a \in Counts : AtMost(a, a)
    /\ \A a, b, c \in Counts : AtMost(a, b) /\ AtMost(b, c) => AtMost(a, c)
<1>1. ASSUME NEW a \in Counts
      PROVE  /\ a.claimed \in Nat /\ a.borrowed \in Nat /\ a.returned \in Nat
             /\ a.expired \in Nat /\ a.failed \in Nat /\ a.codes \in Nat
  BY DEF Counts
<1> QED BY <1>1 DEF AtMost

\* A worker that acts is not off, and its step leaves the others
LEMMA ActsAt ==
    ASSUME TypeOK, NEW t \in Tasks, NEW w \in Workers, NEW x \in TaskRecord,
           NEW z \in WorkerRecord, NEW p, Acts(t, w, x, z, p)
    PROVE  /\ worker[t][w].pc # "off"
           /\ [worker[t] EXCEPT ![w] = z][w] = z
           /\ \A v \in Workers : v # w => [worker[t] EXCEPT ![w] = z][v] = worker[t][v]
<1>1. worker[t] \in [Workers -> WorkerRecord]
  BY DEF TypeOK, WorkerRecord
<1>2. worker[t][w].pc # "off"
  BY DEF Acts, Stops, Takes, Answered, Lends, FailsNow, Returns, Loads, Writes
<1> QED BY <1>1, <1>2

LEMMA ShapedStep ==
    ASSUME TypeOK, Basics, NEW t \in Tasks, NEW x \in TaskRecord,
           NEW y \in [Workers -> WorkerRecord], NEW p, Step(t, x, y, p)
    PROVE  Shaped(x, y, p)
<1>1. Shaped(task[t], worker[t], platform[t]) /\ task[t] \in TaskRecord
  BY DEF Basics, TypeOK, TaskRecord
<1>2. CASE Starts(t, x, y, p)
  BY <1>2 DEF Starts, Shaped
<1>3. CASE Manages(t, x, y, p)
  <2>1. y = worker[t] /\ p = platform[t]
    BY <1>3 DEF Manages
  <2>2. CASE Closes(t, x)
    BY <1>1, <2>1, <2>2 DEF Closes, Counted, Shaped
  <2>3. CASE Marks(t, x)
    <3>1. task[t].status # "none" /\ x.status # "none"
      <4>1. canceller # None
        BY <2>3 DEF Marks, Tasks, None
      <4> QED BY <2>3, <4>1 DEF Marks, Basics
    <3> QED BY <1>1, <2>1, <2>3, <3>1 DEF Marks, Counted, Shaped
  <2>4. CASE Checks(t, x)
    <3>1. task[t].status # "none"
      BY <1>1, <2>4 DEF Checks, Shaped, NoTask
    <3> QED BY <1>1, <2>1, <2>4, <3>1 DEF Checks, Counted, Shaped
  <2>5. CASE Completes(t, x)
    <3>1. task[t].status # "none"
      BY <1>1, <2>5 DEF Completes, Shaped, NoTask
    <3> QED BY <1>1, <2>1, <2>5, <3>1 DEF Completes, Counted, Shaped
  <2> QED BY <1>3, <2>2, <2>3, <2>4, <2>5 DEF Manages
<1>4. CASE \E w \in Workers, z \in WorkerRecord :
              /\ y = [worker[t] EXCEPT ![w] = z] /\ canceller' = canceller
              /\ Fixed(t, x) /\ Acts(t, w, x, z, p)
  <2>1. PICK w \in Workers, z \in WorkerRecord :
           y = [worker[t] EXCEPT ![w] = z] /\ Fixed(t, x) /\ Acts(t, w, x, z, p)
    BY <1>4
  <2>2. /\ worker[t][w].pc # "off" /\ y[w] = z
        /\ \A v \in Workers : v # w => y[v] = worker[t][v]
    BY <2>1, ActsAt
  <2>3. task[t].status # "none" /\ task[t].pc \notin {"write", "done"}
    BY <1>1, <2>2 DEF Shaped
  <2>4. IF kind = "claim" THEN z.pc \notin {"verify", "claim", "return"} ELSE z.pc # "request"
    BY <1>1, <2>1, <2>3
       DEF Shaped, Acts, Stops, Takes, Answered, Lends, FailsNow, Returns, Loads, Writes
  <2> QED BY <1>1, <2>1, <2>2, <2>3, <2>4 DEF Shaped, Fixed
<1> QED BY <1>2, <1>3, <1>4 DEF Step

LEMMA ClearStep ==
    ASSUME TypeOK, Basics, NEW t \in Tasks, NEW x \in TaskRecord,
           NEW y \in [Workers -> WorkerRecord], NEW p, Step(t, x, y, p)
    PROVE  Clear(x, y)
<1>1. /\ Shaped(task[t], worker[t], platform[t]) /\ Clear(task[t], worker[t])
      /\ task[t] \in TaskRecord /\ worker[t] \in [Workers -> WorkerRecord]
  BY DEF Basics, TypeOK, TaskRecord, WorkerRecord
<1>2. /\ x.counts \in Counts /\ x.reported \in Counts
      /\ task[t].counts \in Counts /\ task[t].reported \in Counts
      /\ \A v \in Workers : worker[t][v].seen \in Counts
  BY <1>1 DEF TaskRecord, WorkerRecord
<1>3. \A v \in Workers : v # None
  BY DEF Workers, None
<1>4. CASE Starts(t, x, y, p)
  <2>1. AtMost(NoCounts, NoCounts)
    BY <1>2, <1>4, AtMostIsOrder DEF Starts
  <2> QED BY <1>3, <1>4, <2>1 DEF Starts, Clear
<1>5. CASE Manages(t, x, y, p)
  <2>1. y = worker[t] /\ x.counts = task[t].counts /\ x.mu = task[t].mu
    BY <1>5 DEF Manages, Closes, Marks, Checks, Completes, Counted
  <2>2. CASE x.reported = task[t].reported
    BY <1>1, <2>1, <2>2 DEF Clear
  <2>3. CASE Checks(t, x)
    <3>1. AtMost(x.reported, x.counts)
      BY <1>2, <2>1, <2>3, AtMostIsOrder DEF Checks
    <3> QED BY <1>1, <2>1, <2>3, <3>1 DEF Clear, Checks
  <2> QED BY <1>5, <2>2, <2>3 DEF Manages, Closes, Marks, Completes
<1>6. CASE \E w \in Workers, z \in WorkerRecord :
              /\ y = [worker[t] EXCEPT ![w] = z] /\ canceller' = canceller
              /\ Fixed(t, x) /\ Acts(t, w, x, z, p)
  <2>1. PICK w \in Workers, z \in WorkerRecord :
           y = [worker[t] EXCEPT ![w] = z] /\ Fixed(t, x) /\ Acts(t, w, x, z, p)
    BY <1>6
  <2>2. /\ worker[t][w].pc # "off" /\ y[w] = z
        /\ \A v \in Workers : v # w => y[v] = worker[t][v]
    BY <2>1, ActsAt
  <2>3. CASE Loads(t, w, x, z, p)
    <3>1. \A v \in Workers : worker[t][v].pc # "write"
      BY <1>1, <1>3, <2>3 DEF Loads, Clear
    <3>2. AtMost(x.reported, z.seen) /\ AtMost(z.seen, x.counts) /\ AtMost(x.reported, x.counts)
      BY <1>1, <1>2, <2>3, AtMostIsOrder DEF Loads, Clear
    <3>3. z.pc = "write" /\ x.mu = w
      BY <2>3 DEF Loads
    <3> QED BY <2>2, <3>1, <3>2, <3>3 DEF Clear
  <2>4. CASE Writes(t, w, x, z, p)
    <3>1. task[t].mu = w /\ x.mu = None /\ z.pc = "top"
      BY <1>1, <2>4 DEF Writes, Clear
    <3>2. \A v \in Workers : y[v].pc # "write"
      BY <1>1, <2>2, <3>1 DEF Clear
    <3>3. AtMost(x.reported, x.counts)
      BY <1>1, <2>4 DEF Writes, Clear
    <3> QED BY <1>3, <3>1, <3>2, <3>3 DEF Clear
  <2>5. CASE ~Loads(t, w, x, z, p) /\ ~Writes(t, w, x, z, p)
    <3>1. /\ worker[t][w].pc # "write" /\ z.pc # "write" /\ Unreported(t, x)
          /\ AtMost(task[t].counts, x.counts)
      BY <1>2, <2>1, <2>5, AtMostIsOrder
         DEF Acts, Stops, Takes, Answered, Lends, FailsNow, Returns
    <3>2. AtMost(x.reported, x.counts)
      BY <1>1, <1>2, <3>1, AtMostIsOrder DEF Clear, Unreported
    <3>3. \A v \in Workers : y[v].pc = "write" <=> x.mu = v
      BY <1>1, <2>2, <3>1 DEF Clear, Unreported
    <3>4. ASSUME NEW v \in Workers, y[v].pc = "write"
          PROVE  AtMost(x.reported, y[v].seen) /\ AtMost(y[v].seen, x.counts)
      <4>1. y[v] = worker[t][v]
        BY <2>2, <3>1, <3>4
      <4>2. AtMost(task[t].reported, y[v].seen) /\ AtMost(y[v].seen, task[t].counts)
        BY <1>1, <3>4, <4>1 DEF Clear
      <4> QED BY <1>2, <3>1, <4>1, <4>2, AtMostIsOrder DEF Unreported
    <3> QED BY <3>2, <3>3, <3>4 DEF Clear
  <2> QED BY <2>3, <2>4, <2>5
<1> QED BY <1>4, <1>5, <1>6 DEF Step

LEMMA BasicsStep ==
    ASSUME TypeOK, Basics, [Next]_vars
    PROVE  Basics'
<1>1. CASE UNCHANGED vars
  BY <1>1 DEF Basics, Shaped, vars, modes
<1>2. CASE Next
  <2>1. PICK t \in Tasks, x \in TaskRecord, y \in [Workers -> WorkerRecord], p \in SUBSET Nat :
              Changes(t, x, y, p) /\ Step(t, x, y, p)
    BY <1>2, NextChanges DEF Step
  <2>2. Shaped(x, y, p) /\ Clear(x, y)
    BY <2>1, ShapedStep, ClearStep
  <2>3. /\ task'[t] = x /\ worker'[t] = y /\ platform'[t] = p /\ kind' = kind
        /\ \A u \in Tasks : u # t => /\ task'[u] = task[u] /\ worker'[u] = worker[u]
                                     /\ platform'[u] = platform[u]
    BY <2>1, Elsewhere
  <2>4. ASSUME NEW u \in Tasks
        PROVE  /\ Shaped(task[u], worker[u], platform[u])'
               /\ Clear(task[u], worker[u])'
    <3>1. CASE u = t
      <4>1. Shaped(task'[t], worker'[t], platform'[t]) /\ Clear(task'[t], worker'[t])
        BY <2>2, <2>3
      <4> QED BY <2>3, <3>1, <4>1 DEF Shaped, Clear
    <3>2. CASE u # t
      <4>1. Shaped(task[u], worker[u], platform[u]) /\ Clear(task[u], worker[u])
        BY DEF Basics
      <4>2. Shaped(task'[u], worker'[u], platform'[u]) /\ Clear(task'[u], worker'[u])
        BY <2>3, <3>2, <4>1
      <4> QED BY <2>3, <4>2 DEF Shaped, Clear
    <3> QED BY <3>1, <3>2
  <2>5. canceller' # None => task'[canceller'].status # "none"
    <3>1. \A u \in Tasks : task[u].status # "none" => task'[u].status # "none"
      <4>1. task[t].status # "none" => x.status # "none"
        BY <2>1 DEF Step, Starts, Manages, Closes, Marks, Checks, Completes, Fixed
      <4> QED BY <2>3, <4>1
    <3>2. CASE canceller' = canceller
      BY <3>1, <3>2 DEF Basics, TypeOK
    <3>3. CASE canceller' = None
      BY <3>3
    <3>4. CASE canceller' = t /\ task[t].status = "running"
      BY <3>1, <3>4
    <3> QED BY <2>1, <3>2, <3>3, <3>4 DEF Step, Starts, Manages, Closes, Marks
  <2> QED BY <2>4, <2>5 DEF Basics
<1> QED BY <1>1, <1>2

LEMMA BasicsInit == Init => Basics
<1>1. NoCounts \in Counts /\ \A w \in Workers : w # None
  BY DEF NoCounts, Counts, Workers, None
<1>2. AtMost(NoCounts, NoCounts)
  BY <1>1, AtMostIsOrder
<1>3. ASSUME Init, NEW t \in Tasks
      PROVE  /\ task[t] = NoTask /\ platform[t] = {} /\ canceller = None
             /\ \A w \in Workers : worker[t][w] = NoWorker
  BY <1>3 DEF Init
<1> QED BY <1>1, <1>2, <1>3 DEF Basics, Shaped, Clear, NoTask, NoWorker, Init

LEMMA BasicsHold == Spec => [](TypeOK /\ Basics)
<1>1. Init => TypeOK /\ Basics
  BY TypeInit, BasicsInit
<1>2. TypeOK /\ Basics /\ [Next]_vars => (TypeOK /\ Basics)'
  BY TypeStep, BasicsStep
<1> QED BY <1>1, <1>2, PTL DEF Spec

\* No step reports less than was reported
LEMMA ReportedStep ==
    ASSUME TypeOK, Basics, NEW t \in Tasks, NEW x \in TaskRecord,
           NEW y \in [Workers -> WorkerRecord], NEW p, Step(t, x, y, p)
    PROVE  AtMost(task[t].reported, x.reported)
<1>1. /\ Shaped(task[t], worker[t], platform[t]) /\ Clear(task[t], worker[t])
      /\ task[t] \in TaskRecord
  BY DEF Basics, TypeOK, TaskRecord
<1>2. x.reported \in Counts /\ task[t].reported \in Counts
  BY <1>1 DEF TaskRecord
<1>3. CASE x.reported = task[t].reported
  BY <1>2, <1>3, AtMostIsOrder
<1>4. CASE Starts(t, x, y, p)
  <2>1. x.reported = task[t].reported
    BY <1>1, <1>4 DEF Starts, Shaped, NoTask
  <2> QED BY <1>3, <2>1
<1>5. CASE Checks(t, x)
  BY <1>1, <1>5 DEF Checks, Clear
<1>6. ASSUME NEW w \in Workers, NEW z, Writes(t, w, x, z, p)
      PROVE  AtMost(task[t].reported, x.reported)
  BY <1>1, <1>6 DEF Writes, Clear
<1>7. CASE Manages(t, x, y, p)
  BY <1>3, <1>5, <1>7 DEF Manages, Closes, Marks, Completes
<1>8. ASSUME NEW w \in Workers, NEW z \in WorkerRecord, Acts(t, w, x, z, p)
      PROVE  AtMost(task[t].reported, x.reported)
  BY <1>3, <1>6, <1>8
     DEF Acts, Stops, Takes, Answered, Lends, FailsNow, Returns, Loads, Unreported
<1> QED BY <1>4, <1>7, <1>8 DEF Step

\* The progress that a task reports, which its workers and its end write, never goes back: what
\* a worker has read under the mutex of the task is not older than what was reported
THEOREM ProgressGrowsCorrect == Spec => ProgressGrows
<1>1. ASSUME TypeOK, Basics, [Next]_vars, NEW t \in Tasks, NEW f \in DOMAIN NoCounts
      PROVE  Reported(t)[f]' >= Reported(t)[f]
  <2>1. task[t].reported \in Counts
    BY <1>1 DEF TypeOK
  <2>2. f \in {"claimed", "borrowed", "returned", "expired", "failed", "codes"}
    BY DEF NoCounts
  <2>3. \A a \in Counts : a[f] \in Nat
    BY <2>2 DEF Counts
  <2>4. \A a, b \in Counts : AtMost(a, b) => a[f] <= b[f]
    BY <2>2 DEF AtMost
  <2>5. CASE task'[t] = task[t]
    BY <2>1, <2>3, <2>5 DEF Reported
  <2>6. CASE Next
    <3>1. PICK u \in Tasks, x \in TaskRecord, y \in [Workers -> WorkerRecord],
               p \in SUBSET Nat : Changes(u, x, y, p) /\ Step(u, x, y, p)
      BY <1>1, <2>6, NextChanges DEF Step
    <3>2. CASE u = t
      <4>1. task'[t] = x /\ x.reported \in Counts
        BY <1>1, <3>1, <3>2, Elsewhere DEF TaskRecord
      <4>2. AtMost(task[t].reported, x.reported)
        BY <1>1, <3>1, <3>2, ReportedStep
      <4> QED BY <2>1, <2>3, <2>4, <4>1, <4>2 DEF Reported
    <3>3. CASE u # t
      BY <1>1, <2>5, <3>1, <3>3, Elsewhere
    <3> QED BY <3>2, <3>3
  <2> QED BY <1>1, <2>5, <2>6 DEF vars
<1>2. TypeOK /\ Basics /\ [Next]_vars
         => [\A t \in Tasks : \A f \in DOMAIN NoCounts : Reported(t)[f]' >= Reported(t)[f]]_vars
  BY <1>1
<1> QED BY <1>2, BasicsHold, PTL DEF Spec, ProgressGrows

-----------------------------------------------------------------------------
(* A task that is completed                                                *)

\* If a task whose channel is closed still looks as if it were running, the status is about to
\* be written or the session was ended.  The first worker of a task that was not cancelled
\* leaves when there are no more items, and so a task that is completed handled all of them
Whole(t) ==
    LET x == task[t] IN
    /\ x.pc = "running" /\ x.status = "running" /\ x.cancelled /\ canceller # t => x.kicked
    /\ x.status # "none" /\ worker[t][1].pc = "off" /\ ~x.cancelled => x.next >= x.total
    /\ (x.pc = "write" \/ x.status = "completed") /\ ~x.kicked => x.next >= x.total

LEMMA WholeStep ==
    ASSUME TypeOK, Basics, prompt => \A t \in Tasks : Whole(t), [Next]_vars
    PROVE  prompt' => \A t \in Tasks : Whole(t)'
<1>0. 1 \in Workers
  BY ClaimsAssumption DEF ClaimsAssumption, Workers
<1>1. CASE UNCHANGED vars
  BY <1>1 DEF Whole, vars, modes
<1>2. CASE Next
  <2>1. PICK t \in Tasks, x \in TaskRecord, y \in [Workers -> WorkerRecord], p \in SUBSET Nat :
              Changes(t, x, y, p) /\ Step(t, x, y, p)
    BY <1>2, NextChanges DEF Step
  <2>2. /\ task'[t] = x /\ worker'[t] = y
        /\ \A u \in Tasks : u # t => task'[u] = task[u] /\ worker'[u] = worker[u]
    BY <2>1, Elsewhere
  <2>3. SUFFICES ASSUME prompt, NEW u \in Tasks
                 PROVE  Whole(u)'
    BY <2>1 DEF Changes
  <2>4. /\ Whole(u) /\ Shaped(task[u], worker[u], platform[u])
        /\ task[u] \in TaskRecord
    BY <2>3 DEF Basics, TypeOK, TaskRecord
  <2>7. u # None
    BY DEF Tasks, None
  <2>5. CASE u # t
    <3>1. canceller' # u => canceller # u \/ Marks(t, x)
      BY <2>1, <2>5, <2>7 DEF Step, Starts, Manages, Closes
    <3>2. ~(Marks(t, x) /\ canceller = u)
      BY <2>5 DEF Marks
    <3> QED BY <2>2, <2>4, <2>5, <3>1, <3>2 DEF Whole
  <2>6. CASE u = t
    <3>0. /\ task[t].next \in Nat /\ task[t].total \in Nat /\ x.next \in Nat /\ x.total \in Nat
          /\ t # None
      BY <2>4, <2>6 DEF TaskRecord, Tasks, None
    <3> DEFINE New ==
          /\ x.pc = "running" /\ x.status = "running" /\ x.cancelled /\ canceller' # t
                => x.kicked
          /\ x.status # "none" /\ y[1].pc = "off" /\ ~x.cancelled => x.next >= x.total
          /\ (x.pc = "write" \/ x.status = "completed") /\ ~x.kicked => x.next >= x.total
    <3>1. CASE Starts(t, x, y, p)
      <4>1. New
        BY <3>1 DEF Starts
      <4> QED BY <2>2, <2>6, <4>1 DEF Whole
    <3>2. CASE Manages(t, x, y, p)
      <4>1. y = worker[t]
        BY <3>2 DEF Manages
      <4>2. CASE Closes(t, x)
        <5>1. New
          BY <2>4, <2>6, <3>0, <4>1, <4>2 DEF Closes, Counted, Whole
        <5> QED BY <2>2, <2>6, <5>1 DEF Whole
      <4>3. CASE Marks(t, x)
        <5>1. task[t].status # "none"
          BY <2>6, <3>0, <4>3 DEF Marks, Basics
        <5>2. New
          BY <2>4, <2>6, <3>0, <4>1, <4>3, <5>1 DEF Marks, Counted, Whole
        <5> QED BY <2>2, <2>6, <5>2 DEF Whole
      <4>4. CASE Checks(t, x) /\ canceller' = canceller
        <5>1. task[t].status # "none" /\ worker[t][1].pc = "off"
          BY <1>0, <2>4, <2>6, <4>4 DEF Checks, Shaped, NoTask
        <5>2. x.pc = "write" /\ ~x.kicked => x.next >= x.total
          BY <2>3, <2>4, <2>6, <4>4, <5>1 DEF Checks, Counted, Whole
        <5>3. New
          BY <2>4, <2>6, <3>0, <4>1, <4>4, <5>1, <5>2 DEF Checks, Counted, Whole
        <5> QED BY <2>2, <2>6, <5>3 DEF Whole
      <4>5. CASE Completes(t, x) /\ canceller' = canceller
        <5>1. task[t].status # "none"
          BY <2>4, <2>6, <4>5 DEF Completes, Shaped, NoTask
        <5>2. New
          BY <2>4, <2>6, <3>0, <4>1, <4>5, <5>1 DEF Completes, Counted, Whole
        <5> QED BY <2>2, <2>6, <5>2 DEF Whole
      <4> QED BY <3>2, <4>2, <4>3, <4>4, <4>5 DEF Manages
    <3>3. CASE \E w \in Workers, z \in WorkerRecord :
                  /\ y = [worker[t] EXCEPT ![w] = z] /\ canceller' = canceller
                  /\ Fixed(t, x) /\ Acts(t, w, x, z, p)
      <4>1. PICK w \in Workers, z \in WorkerRecord :
               /\ y = [worker[t] EXCEPT ![w] = z] /\ canceller' = canceller
               /\ Fixed(t, x) /\ Acts(t, w, x, z, p)
        BY <3>3
      <4>2. /\ worker[t][w].pc # "off" /\ y[w] = z
            /\ \A v \in Workers : v # w => y[v] = worker[t][v]
        BY <4>1, ActsAt
      <4>3. task[t].status # "none" /\ task[t].pc \notin {"write", "done"}
        BY <2>4, <2>6, <4>2 DEF Shaped
      <4>4. x.next >= task[t].next /\ (~x.kicked => ~task[t].kicked)
        BY <3>0, <4>1 DEF Acts, Stops, Takes, Answered, Lends, FailsNow, Returns, Loads, Writes,
                          Uncancelled
      <4>5. x.cancelled => x.kicked \/ (task[t].cancelled /\ x.kicked = task[t].kicked)
        BY <4>1 DEF Acts, Stops, Takes, Answered, Lends, FailsNow, Returns, Loads, Writes,
                    Uncancelled
      <4>6. ~x.cancelled => ~task[t].cancelled
        BY <4>1 DEF Acts, Stops, Takes, Answered, Lends, FailsNow, Returns, Loads, Writes,
                    Uncancelled
      <4>7. z.pc = "off" /\ ~x.cancelled => x.next >= x.total
        BY <3>0, <4>1 DEF Acts, Stops, Takes, Answered, Lends, FailsNow, Returns, Loads, Writes,
                          Uncancelled, Fixed
      <4>8. y[1].pc = "off" /\ ~x.cancelled => x.next >= x.total
        BY <1>0, <2>4, <2>6, <3>0, <4>1, <4>2, <4>3, <4>4, <4>6, <4>7 DEF Whole, Fixed
      <4>9. New
        BY <2>4, <2>6, <3>0, <4>1, <4>3, <4>4, <4>5, <4>8 DEF Whole, Fixed
      <4> QED BY <2>2, <2>6, <4>9 DEF Whole
    <3> QED BY <2>1, <3>1, <3>2, <3>3 DEF Step
  <2> QED BY <2>5, <2>6
<1> QED BY <1>1, <1>2

\* When a cancellation takes no time, a task that says it is completed has handled every item,
\* unless the platform ended the session: its end sees either no cancellation or its status
THEOREM CompletedIsWholeCorrect == Spec => []CompletedIsWhole
<1>1. Init => (prompt => \A t \in Tasks : Whole(t))
  BY DEF Init, Whole, NoTask
<1>2. /\ TypeOK /\ Basics /\ (prompt => \A t \in Tasks : Whole(t)) /\ [Next]_vars
      => (prompt => \A t \in Tasks : Whole(t))'
  BY WholeStep
<1>3. TypeOK /\ (prompt => \A t \in Tasks : Whole(t)) => CompletedIsWhole
  <2>1. ASSUME NEW t \in Tasks, TypeOK PROVE task[t].next \in Nat /\ task[t].total \in Nat
    BY <2>1 DEF TypeOK
  <2> QED BY <2>1 DEF CompletedIsWhole, Whole, Taken
<1> QED BY <1>1, <1>2, <1>3, BasicsHold, PTL DEF Spec

-----------------------------------------------------------------------------
(* The counts                                                              *)

\* The workers at one of the labels
At(y, labels) == {w \in Workers : y[w].pc \in labels}
Asking == {"verify", "claim"}
Busy == {"verify", "claim", "return"}
TakenOf(x) == IF x.next > x.total THEN x.total ELSE x.next
LentOf(x) == LET end == IF TakenOf(x) < x.borrowedEnd THEN TakenOf(x) ELSE x.borrowedEnd IN
             IF end < 0 THEN 0 ELSE end

\* Every item that was taken is a code, has failed, or is requested by a worker
Claiming(x, y, p) ==
    /\ x.counts.codes + x.counts.failed + Cardinality(At(y, {"request"})) = TakenOf(x)
    /\ IsFiniteSet(p) /\ Cardinality(p) <= x.counts.codes + x.counts.failed

\* The counts of a life cycle task and the items p that are claimed and not returned, when so
\* many workers ask for an item, or are busy with one at all.  Every item that was taken and is
\* to be borrowed is borrowed, has failed or is asked for, and none is counted twice.  The items
\* claimed are those borrowed and not returned, but for the failed ones
Balance(counts, lent, asking, busy, out) ==
    /\ counts.borrowed + asking <= lent /\ lent <= counts.borrowed + counts.failed + asking
    /\ counts.returned + counts.failed + busy <= lent
    /\ out + counts.returned <= counts.borrowed + counts.failed
    /\ counts.borrowed <= out + counts.returned + counts.failed

\* No two workers have the same item, an item that is asked for is not claimed, and one that is
\* returned is
Lending(x, y, p) ==
    /\ IsFiniteSet(p) /\ \A i \in p : i < x.next
    /\ Balance(x.counts, LentOf(x), Cardinality(At(y, Asking)), Cardinality(At(y, Busy)),
               Cardinality(p))
    /\ \A w \in Workers : y[w].pc \in Busy => y[w].item < x.next
    /\ \A v, w \in Workers :
          v # w /\ y[v].pc \in Busy /\ y[w].pc \in Busy => y[v].item # y[w].item
    /\ \A w \in Workers : y[w].pc \in Asking => y[w].item \notin p
    /\ \A w \in Workers : y[w].pc = "return" => y[w].item \in p

Summed(x, y, p) == IF kind = "claim" THEN Claiming(x, y, p) ELSE Lending(x, y, p)

LEMMA AtFinite ==
    ASSUME NEW y, NEW labels
    PROVE  IsFiniteSet(At(y, labels)) /\ Cardinality(At(y, labels)) \in Nat
<1>1. IsFiniteSet(Workers)
  BY FS_Interval, ClaimsAssumption DEF ClaimsAssumption, Workers
<1>2. At(y, labels) \in SUBSET Workers
  BY DEF At
<1> QED BY <1>1, <1>2, FS_Subset, FS_CardinalityType

\* How many workers are at some labels when one of them goes somewhere else
LEMMA AtStep ==
    ASSUME NEW y, NEW w \in Workers, NEW n, NEW labels,
           \A v \in Workers : v # w => n[v] = y[v]
    PROVE  Cardinality(At(n, labels)) =
              IF y[w].pc \in labels /\ n[w].pc \notin labels
              THEN Cardinality(At(y, labels)) - 1
              ELSE IF y[w].pc \notin labels /\ n[w].pc \in labels
              THEN Cardinality(At(y, labels)) + 1
              ELSE Cardinality(At(y, labels))
<1>1. CASE y[w].pc \in labels /\ n[w].pc \notin labels
  <2>1. At(n, labels) = At(y, labels) \ {w} /\ w \in At(y, labels)
    BY <1>1 DEF At
  <2> QED BY <1>1, <2>1, AtFinite, FS_RemoveElement
<1>2. CASE y[w].pc \notin labels /\ n[w].pc \in labels
  <2>1. At(n, labels) = At(y, labels) \cup {w} /\ w \notin At(y, labels)
    BY <1>2 DEF At
  <2> QED BY <1>2, <2>1, AtFinite, FS_AddElement
<1>3. CASE y[w].pc \in labels <=> n[w].pc \in labels
  <2>1. At(n, labels) = At(y, labels)
    BY <1>3 DEF At
  <2> QED BY <1>3, <2>1
<1> QED BY <1>1, <1>2, <1>3

\* Adding an item, or taking one away
LEMMA ItemAdded ==
    ASSUME NEW s, NEW i, IsFiniteSet(s)
    PROVE  /\ IsFiniteSet(s \cup {i}) /\ Cardinality(s \cup {i}) <= Cardinality(s) + 1
           /\ IsFiniteSet(s \ {i}) /\ Cardinality(s \ {i}) <= Cardinality(s)
           /\ i \in s => Cardinality(s \ {i}) = Cardinality(s) - 1
           /\ i \notin s => Cardinality(s \cup {i}) = Cardinality(s) + 1
           /\ Cardinality(s) \in Nat /\ Cardinality(s \cup {i}) \in Nat
           /\ Cardinality(s \ {i}) \in Nat
<1>1. IsFiniteSet(s \cup {i}) /\ IsFiniteSet(s \ {i})
  BY FS_AddElement, FS_RemoveElement
<1>2. /\ Cardinality(s) \in Nat /\ Cardinality(s \cup {i}) \in Nat
      /\ Cardinality(s \ {i}) \in Nat
  BY <1>1, FS_CardinalityType
<1> QED BY <1>1, <1>2, FS_AddElement, FS_RemoveElement

LEMMA SummedStarts ==
    ASSUME TypeOK, Basics, NEW t \in Tasks, NEW x \in TaskRecord,
           NEW y \in [Workers -> WorkerRecord], NEW p, Starts(t, x, y, p)
    PROVE  Summed(x, y, p)
<1>1. p = {}
  BY DEF Starts, Basics, Shaped
<1>2. /\ At(y, {"request"}) = {} /\ At(y, Busy) = {} /\ At(y, Asking) = {}
      /\ \A w \in Workers : y[w].pc \notin Busy /\ y[w].pc \notin Asking /\ y[w].pc # "return"
  BY DEF Starts, At, Busy, Asking
<1>3. TakenOf(x) = 0 /\ LentOf(x) = 0
  <2>1. x.next = 0 /\ x.total \in Nat /\ x.borrowedEnd \in Int
    BY DEF Starts, TaskRecord
  <2> QED BY <2>1 DEF TakenOf, LentOf
<1>4. /\ x.counts.codes = 0 /\ x.counts.failed = 0 /\ x.counts.returned = 0
      /\ x.counts.borrowed = 0
  BY DEF Starts, NoCounts
<1>5. IsFiniteSet({}) /\ Cardinality({}) = 0
  BY FS_EmptySet
<1>6. Claiming(x, y, p)
  <2>1. Cardinality(At(y, {"request"})) = 0 /\ IsFiniteSet(p) /\ Cardinality(p) = 0
    BY <1>1, <1>2, <1>5
  <2> QED BY <1>3, <1>4, <2>1 DEF Claiming
<1>7. Lending(x, y, p)
  <2>1. Balance(x.counts, LentOf(x), Cardinality(At(y, Asking)), Cardinality(At(y, Busy)),
                Cardinality(p))
    BY <1>1, <1>2, <1>3, <1>4, <1>5 DEF Balance
  <2> QED BY <1>1, <1>2, <1>5, <2>1 DEF Lending
<1> QED BY <1>6, <1>7 DEF Summed

LEMMA SummedManages ==
    ASSUME NEW t \in Tasks, NEW x \in TaskRecord, NEW y, NEW p, Manages(t, x, y, p),
           Summed(task[t], worker[t], platform[t])
    PROVE  Summed(x, y, p)
<1>1. y = worker[t] /\ p = platform[t] /\ Counted(t, x)
  BY DEF Manages, Closes, Marks, Checks, Completes
<1>2. TakenOf(x) = TakenOf(task[t]) /\ LentOf(x) = LentOf(task[t])
  BY <1>1 DEF Counted, TakenOf, LentOf
<1> QED BY <1>1, <1>2 DEF Summed, Claiming, Lending, Balance, Counted

\* What a step takes
LEMMA TakenStep ==
    ASSUME TypeOK, NEW t \in Tasks, NEW w \in Workers, NEW x \in TaskRecord, NEW z, NEW p,
           Fixed(t, x), Acts(t, w, x, z, p)
    PROVE  /\ TakenOf(x) \in Nat /\ TakenOf(task[t]) \in Nat
           /\ LentOf(x) \in Nat /\ LentOf(task[t]) \in Nat
           /\ Takes(t, w, x, z, p) =>
                 /\ TakenOf(x) = TakenOf(task[t]) + 1
                 /\ LentOf(x) = IF task[t].next < task[t].borrowedEnd
                                THEN LentOf(task[t]) + 1 ELSE LentOf(task[t])
           /\ ~Takes(t, w, x, z, p) => /\ TakenOf(x) = TakenOf(task[t])
                                       /\ LentOf(x) = LentOf(task[t])
<1>1. task[t] \in TaskRecord
  BY DEF TypeOK, TaskRecord
<1>2. /\ x.next \in Nat /\ x.total \in Nat /\ x.borrowedEnd \in Int
      /\ task[t].next \in Nat /\ task[t].total \in Nat /\ task[t].borrowedEnd \in Int
  BY <1>1 DEF TaskRecord
<1>3. x.total = task[t].total /\ x.borrowedEnd = task[t].borrowedEnd
  BY DEF Fixed
<1>4. CASE Takes(t, w, x, z, p)
  <2>1. task[t].next < task[t].total /\ x.next = task[t].next + 1
    BY <1>4 DEF Takes
  <2> QED BY <1>2, <1>3, <1>4, <2>1 DEF TakenOf, LentOf
<1>5. CASE ~Takes(t, w, x, z, p)
  <2>1. \/ x.next = task[t].next
        \/ task[t].next >= task[t].total /\ x.next = task[t].next + 1
    BY <1>5 DEF Acts, Stops, Answered, Lends, FailsNow, Returns, Loads, Writes
  <2>2. TakenOf(x) = TakenOf(task[t])
    BY <1>2, <1>3, <2>1 DEF TakenOf
  <2> QED BY <1>2, <1>3, <1>5, <2>2 DEF TakenOf, LentOf
<1> QED BY <1>4, <1>5

LEMMA ClaimingActs ==
    ASSUME TypeOK, Basics, kind = "claim", NEW t \in Tasks, NEW w \in Workers,
           NEW x \in TaskRecord, NEW z \in WorkerRecord, NEW y, NEW p,
           y = [worker[t] EXCEPT ![w] = z], Fixed(t, x), Acts(t, w, x, z, p),
           Claiming(task[t], worker[t], platform[t])
    PROVE  Claiming(x, y, p)
<1> DEFINE old == Cardinality(At(worker[t], {"request"}))
           new == Cardinality(At(y, {"request"}))
           c == task[t].counts
           d == x.counts
<1>1. /\ c.codes + c.failed + old = TakenOf(task[t])
      /\ IsFiniteSet(platform[t]) /\ Cardinality(platform[t]) <= c.codes + c.failed
  BY DEF Claiming
<1>2. /\ c.codes \in Nat /\ c.failed \in Nat /\ d.codes \in Nat /\ d.failed \in Nat
      /\ old \in Nat /\ new \in Nat /\ Cardinality(platform[t]) \in Nat
  BY <1>1, AtFinite, FS_CardinalityType DEF TypeOK, TaskRecord, Counts
<1>3. worker[t][w].pc \notin {"verify", "claim", "return"}
  BY DEF Basics, Shaped
<1>4. y[w] = z /\ \A v \in Workers : v # w => y[v] = worker[t][v]
  BY ActsAt
<1>5. new = IF worker[t][w].pc = "request" /\ z.pc # "request" THEN old - 1
            ELSE IF worker[t][w].pc # "request" /\ z.pc = "request" THEN old + 1 ELSE old
  <2>1. PICK o : o = worker[t]
    OBVIOUS
  <2>2. PICK labels : labels = {"request"}
    OBVIOUS
  <2>3. Cardinality(At(y, labels)) =
            IF o[w].pc \in labels /\ y[w].pc \notin labels
            THEN Cardinality(At(o, labels)) - 1
            ELSE IF o[w].pc \notin labels /\ y[w].pc \in labels
            THEN Cardinality(At(o, labels)) + 1
            ELSE Cardinality(At(o, labels))
    <3>1. \A v \in Workers : v # w => y[v] = o[v]
      BY <1>4, <2>1
    <3>2. w \in Workers
      OBVIOUS
    <3> QED BY ONLY <3>1, <3>2, AtStep
  <2>4. \A l : l \in labels <=> l = "request"
    BY <2>2
  <2>5. /\ Cardinality(At(y, labels)) = new /\ Cardinality(At(o, labels)) = old
    BY <2>1, <2>2
  <2> HIDE DEF old, new
  <2> QED BY <1>4, <2>1, <2>3, <2>4, <2>5
<1> SUFFICES /\ d.codes + d.failed + new = TakenOf(x)
             /\ IsFiniteSet(p) /\ Cardinality(p) <= d.codes + d.failed
  BY DEF Claiming
<1>6. /\ TakenOf(x) \in Nat /\ TakenOf(task[t]) \in Nat
      /\ Takes(t, w, x, z, p) => TakenOf(x) = TakenOf(task[t]) + 1
      /\ ~Takes(t, w, x, z, p) => TakenOf(x) = TakenOf(task[t])
  BY TakenStep
<1> HIDE DEF old, new, c, d
<1>7. CASE Takes(t, w, x, z, p)
  <2>1. /\ worker[t][w].pc = "top" /\ z.pc = "request" /\ p = platform[t]
        /\ d.codes = c.codes /\ d.failed = c.failed
    BY <1>7 DEF Takes, Same, c, d
  <2> QED BY <1>1, <1>2, <1>5, <1>6, <1>7, <2>1
<1>8. CASE Answered(t, w, x, z, p)
  <2>1. /\ worker[t][w].pc = "request" /\ z.pc # "request"
        /\ p = platform[t] \/ p = platform[t] \cup {worker[t][w].item}
        /\ d.codes + d.failed = c.codes + c.failed + 1
    BY <1>8 DEF Answered, c, d
  <2>2. ~Takes(t, w, x, z, p)
    BY <2>1 DEF Takes
  <2>3. IsFiniteSet(p) /\ Cardinality(p) \in Nat /\ Cardinality(p) <= Cardinality(platform[t]) + 1
    <3>1. PICK s : s = platform[t]
      OBVIOUS
    <3>2. \A i : /\ IsFiniteSet(s \cup {i}) /\ Cardinality(s \cup {i}) <= Cardinality(s) + 1
                 /\ Cardinality(s \cup {i}) \in Nat
      BY <1>1, <3>1, ItemAdded
    <3>3. CASE p = platform[t]
      BY <1>1, <1>2, <3>3
    <3>4. CASE p = platform[t] \cup {worker[t][w].item}
      BY <3>1, <3>2, <3>4
    <3> QED BY <2>1, <3>3, <3>4
  <2>4. d.codes + d.failed + new = TakenOf(x)
    BY <1>1, <1>2, <1>5, <1>6, <2>1, <2>2
  <2> QED BY <1>1, <1>2, <2>1, <2>3, <2>4
<1>9. CASE Stops(t, w, x, z, p) \/ Loads(t, w, x, z, p) \/ Writes(t, w, x, z, p)
  <2>1. /\ worker[t][w].pc # "request" /\ z.pc # "request" /\ p = platform[t] /\ d = c
    BY <1>9 DEF Stops, Loads, Writes, c, d
  <2>2. ~Takes(t, w, x, z, p)
    <3>1. \/ z.pc \in {"off", "write", "top"}
      BY <1>9 DEF Stops, Loads, Writes
    <3> QED BY <3>1 DEF Takes
  <2> QED BY <1>1, <1>2, <1>5, <1>6, <2>1, <2>2
<1>10. ~(Lends(t, w, x, z, p) \/ FailsNow(t, w, x, z, p) \/ Returns(t, w, x, z, p))
  BY <1>3 DEF Lends, FailsNow, Returns
<1> QED BY <1>7, <1>8, <1>9, <1>10 DEF Acts

LEMMA LendingActs ==
    ASSUME TypeOK, Basics, kind # "claim", NEW t \in Tasks, NEW w \in Workers,
           NEW x \in TaskRecord, NEW z \in WorkerRecord, NEW y, NEW p,
           y = [worker[t] EXCEPT ![w] = z], Fixed(t, x), Acts(t, w, x, z, p),
           Lending(task[t], worker[t], platform[t])
    PROVE  Lending(x, y, p)
<1> DEFINE asking == Cardinality(At(worker[t], Asking))
           askingNow == Cardinality(At(y, Asking))
           busy == Cardinality(At(worker[t], Busy))
           busyNow == Cardinality(At(y, Busy))
           c == task[t].counts
           d == x.counts
           out == platform[t]
           item == worker[t][w].item
           label == worker[t][w].pc
           lent == LentOf(task[t])
           lentNow == LentOf(x)
           size == Cardinality(out)
           sizeNow == Cardinality(p)
<1>1. /\ IsFiniteSet(out) /\ \A i \in out : i < task[t].next
      /\ \A v \in Workers : worker[t][v].pc \in Busy => worker[t][v].item < task[t].next
      /\ \A v, u \in Workers :
            v # u /\ worker[t][v].pc \in Busy /\ worker[t][u].pc \in Busy
               => worker[t][v].item # worker[t][u].item
      /\ \A v \in Workers : worker[t][v].pc \in Asking => worker[t][v].item \notin out
      /\ \A v \in Workers : worker[t][v].pc = "return" => worker[t][v].item \in out
  BY DEF Lending
<1>2. Balance(c, lent, asking, busy, size)
  BY DEF Lending
<1>3. /\ c.borrowed \in Nat /\ c.failed \in Nat /\ c.returned \in Nat
      /\ asking \in Nat /\ askingNow \in Nat /\ busy \in Nat /\ busyNow \in Nat
      /\ lent \in Nat /\ lentNow \in Nat /\ size \in Nat
  <2>1. c.borrowed \in Nat /\ c.failed \in Nat /\ c.returned \in Nat
    BY DEF TypeOK, TaskRecord, Counts
  <2>2. asking \in Nat /\ askingNow \in Nat /\ busy \in Nat /\ busyNow \in Nat
    BY AtFinite
  <2> QED BY <1>1, <2>1, <2>2, FS_CardinalityType, TakenStep
<1>4. y[w] = z /\ \A v \in Workers : v # w => y[v] = worker[t][v]
  BY ActsAt
<1>5. /\ x.next \in Nat /\ task[t].next \in Nat /\ task[t].next <= x.next
      /\ \A v \in Workers : worker[t][v].item \in Nat
      /\ out \in SUBSET Nat
  <2>1. /\ task[t] \in TaskRecord /\ worker[t] \in [Workers -> WorkerRecord]
        /\ out \in SUBSET Nat
    BY DEF TypeOK, TaskRecord, WorkerRecord
  <2>2. x.next \in Nat /\ task[t].next \in Nat
    BY <2>1 DEF TaskRecord
  <2>3. x.next = task[t].next \/ x.next = task[t].next + 1
    BY DEF Acts, Stops, Takes, Answered, Lends, FailsNow, Returns, Loads, Writes
  <2> QED BY <2>1, <2>2, <2>3 DEF WorkerRecord
\* How many ask, and how many are busy, before and after
<1>6. ASSUME NEW labels
      PROVE  Cardinality(At(y, labels)) =
                IF label \in labels /\ z.pc \notin labels
                THEN Cardinality(At(worker[t], labels)) - 1
                ELSE IF label \notin labels /\ z.pc \in labels
                THEN Cardinality(At(worker[t], labels)) + 1
                ELSE Cardinality(At(worker[t], labels))
  <2>1. PICK o : o = worker[t]
    OBVIOUS
  <2>2. \A v \in Workers : v # w => y[v] = o[v]
    BY <1>4, <2>1
  <2>3. w \in Workers
    OBVIOUS
  <2>4. Cardinality(At(y, labels)) =
            IF o[w].pc \in labels /\ y[w].pc \notin labels
            THEN Cardinality(At(o, labels)) - 1
            ELSE IF o[w].pc \notin labels /\ y[w].pc \in labels
            THEN Cardinality(At(o, labels)) + 1
            ELSE Cardinality(At(o, labels))
    BY ONLY <2>2, <2>3, AtStep
  <2> QED BY <1>4, <2>1, <2>4
<1>7. /\ busyNow = IF label \in Busy /\ z.pc \notin Busy THEN busy - 1
                   ELSE IF label \notin Busy /\ z.pc \in Busy THEN busy + 1 ELSE busy
      /\ askingNow = IF label \in Asking /\ z.pc \notin Asking THEN asking - 1
                     ELSE IF label \notin Asking /\ z.pc \in Asking THEN asking + 1 ELSE asking
  BY <1>6
<1>8. \A l : (l \in Busy <=> l \in Asking \/ l = "return") /\ (l = "return" => l \notin Asking)
  BY DEF Busy, Asking
<1>9. /\ Takes(t, w, x, z, p) =>
            lentNow = IF task[t].next < task[t].borrowedEnd THEN lent + 1 ELSE lent
      /\ ~Takes(t, w, x, z, p) => lentNow = lent
  BY TakenStep
<1>10. ASSUME NEW i
       PROVE  /\ IsFiniteSet(out \cup {i}) /\ IsFiniteSet(out \ {i})
              /\ i \in out => Cardinality(out \ {i}) = Cardinality(out) - 1
              /\ i \notin out => Cardinality(out \cup {i}) = Cardinality(out) + 1
              /\ Cardinality(out \cup {i}) \in Nat /\ Cardinality(out \ {i}) \in Nat
  <2>1. PICK o : o = out
    OBVIOUS
  <2> QED BY <1>1, <2>1, ItemAdded
<1> HIDE DEF asking, askingNow, busy, busyNow, c, d, out, item, label, lent, lentNow,
            size, sizeNow
<1>21. IsFiniteSet(out) /\ (p = out => sizeNow = size)
  BY <1>1 DEF size, sizeNow
\* What the worker does with its item, or the one it takes, leaves the others theirs
<1>11. ASSUME IsFiniteSet(p), p \subseteq out \cup {item}, out \ {item} \subseteq p,
              label \notin Busy => p = out,
              z.pc \in Busy => IF label \in Busy THEN z.item = item
                              ELSE z.item = task[t].next /\ x.next = task[t].next + 1,
              z.pc \in Asking => z.item \notin p,
              z.pc = "return" => z.item \in p,
              Balance(d, lentNow, askingNow, busyNow, sizeNow)
       PROVE  Lending(x, y, p)
  <2>1. label \in Busy => item < task[t].next
    BY <1>1 DEF label, item
  <2>2. \A i \in p : i < x.next
    <3>1. ASSUME NEW i \in p
          PROVE  i < task[t].next /\ i \in Nat
      <4>1. CASE i \in out
        BY <1>1, <1>5, <4>1
      <4>2. CASE i \notin out
        <5>1. i = item /\ label \in Busy
          BY <1>11, <4>2
        <5> QED BY <1>5, <2>1, <5>1 DEF item
      <4> QED BY <4>1, <4>2
    <3> QED BY <1>5, <3>1
  <2>3. z.pc \in Busy => z.item < x.next
    <3>1. item \in Nat
      BY <1>5 DEF item
    <3> QED BY <1>5, <1>11, <2>1, <3>1
  <2>4. \A v \in Workers : y[v].pc \in Busy => y[v].item < x.next
    BY <1>1, <1>4, <1>5, <2>3
  <2>5. ASSUME NEW v \in Workers, v # w, worker[t][v].pc \in Busy
        PROVE  /\ z.pc \in Busy => worker[t][v].item # z.item
               /\ worker[t][v].item \in p <=> worker[t][v].item \in out
    <3>1. worker[t][v].item < task[t].next /\ worker[t][v].item \in Nat
      BY <1>1, <1>5, <2>5
    <3>2. label \in Busy => worker[t][v].item # item
      BY <1>1, <2>5 DEF label, item
    <3>3. z.pc \in Busy => worker[t][v].item # z.item
      BY <1>5, <1>11, <3>1, <3>2
    <3>4. worker[t][v].item \in p <=> worker[t][v].item \in out
      BY <1>11, <3>2
    <3> QED BY <3>3, <3>4
  <2>6. \A v, u \in Workers :
           v # u /\ y[v].pc \in Busy /\ y[u].pc \in Busy => y[v].item # y[u].item
    BY <1>1, <1>4, <2>5
  <2>7. ASSUME NEW v \in Workers
        PROVE  /\ y[v].pc \in Asking => y[v].item \notin p
               /\ y[v].pc = "return" => y[v].item \in p
    <3>1. CASE v = w
      BY <1>4, <1>11, <3>1
    <3>2. CASE v # w
      <4>1. y[v] = worker[t][v]
        BY <1>4, <3>2
      <4> QED BY <1>1, <1>8, <2>5, <3>2, <4>1
    <3> QED BY <3>1, <3>2
  <2>8. Balance(x.counts, LentOf(x), Cardinality(At(y, Asking)), Cardinality(At(y, Busy)),
                Cardinality(p))
    BY <1>11 DEF d, lentNow, askingNow, busyNow, sizeNow
  <2> QED BY <1>11, <2>2, <2>4, <2>6, <2>7, <2>8 DEF Lending
<1>12. CASE Takes(t, w, x, z, p)
  <2>1. /\ label = "top" /\ x.next = task[t].next + 1 /\ z.item = task[t].next
        /\ z.pc = IF task[t].next < task[t].borrowedEnd THEN "verify" ELSE "report"
        /\ p = out
        /\ d.borrowed = c.borrowed /\ d.failed = c.failed /\ d.returned = c.returned
    BY <1>12 DEF Takes, Same, label, out, c, d
  <2>2. /\ label \notin Busy /\ label \notin Asking /\ z.pc # "return"
        /\ z.pc \in Busy <=> task[t].next < task[t].borrowedEnd
        /\ z.pc \in Asking <=> task[t].next < task[t].borrowedEnd
    BY <2>1 DEF Busy, Asking
  <2>3. askingNow - asking = lentNow - lent /\ busyNow - busy = lentNow - lent
    BY <1>3, <1>7, <1>9, <1>12, <2>2
  <2>4. Balance(d, lentNow, askingNow, busyNow, sizeNow)
    BY <1>2, <1>3, <1>21, <2>1, <2>3 DEF Balance
  <2>5. z.pc \in Asking => z.item \notin p
    BY <1>1, <1>5, <2>1
  <2> QED BY <1>11, <1>21, <2>1, <2>2, <2>4, <2>5
<1>13. CASE Lends(t, w, x, z, p) /\ label = "verify"
  <2>1. /\ z.pc = "claim" /\ p = out /\ z.item = item
        /\ d.borrowed = c.borrowed /\ d.failed = c.failed /\ d.returned = c.returned
        /\ ~Takes(t, w, x, z, p)
    BY <1>13 DEF Lends, Takes, Same, label, item, out, c, d
  <2>2. label \in Busy /\ label \in Asking /\ z.pc \in Busy /\ z.pc \in Asking
    BY <1>13, <2>1 DEF Busy, Asking
  <2>3. askingNow = asking /\ busyNow = busy /\ lentNow = lent
    BY <1>7, <1>9, <2>1, <2>2
  <2>4. Balance(d, lentNow, askingNow, busyNow, sizeNow)
    BY <1>2, <1>3, <1>21, <2>1, <2>3 DEF Balance
  <2>5. item \notin out
    BY <1>1, <2>2 DEF label, item, out
  <2> QED BY <1>11, <1>21, <2>1, <2>2, <2>4, <2>5
<1>14. CASE Lends(t, w, x, z, p) /\ label = "claim"
  <2>1. /\ z.pc \in {"return", "report"} /\ p = out \cup {item} /\ z.item = item
        /\ d.borrowed = c.borrowed + 1 /\ d.failed = c.failed /\ d.returned = c.returned
        /\ ~Takes(t, w, x, z, p)
    BY <1>14 DEF Lends, Takes, Same, label, item, out, c, d
  <2>2. label \in Busy /\ label \in Asking /\ z.pc \notin Asking
    BY <1>14, <2>1 DEF Busy, Asking
  <2>3. askingNow = asking - 1 /\ busyNow \in {busy, busy - 1} /\ lentNow = lent
    BY <1>7, <1>9, <2>1, <2>2
  <2>4. item \notin out
    BY <1>1, <2>2 DEF label, item, out
  <2>5. IsFiniteSet(p) /\ sizeNow = size + 1 /\ sizeNow \in Nat
    BY <1>10, <2>1, <2>4 DEF size, sizeNow
  <2>6. Balance(d, lentNow, askingNow, busyNow, sizeNow)
    BY <1>2, <1>3, <2>1, <2>3, <2>5 DEF Balance
  <2> QED BY <1>11, <2>1, <2>2, <2>5, <2>6
<1>15. CASE FailsNow(t, w, x, z, p) /\ label \in Asking
  <2>1. /\ z.pc = "report" /\ (p = out \/ p = out \cup {item})
        /\ d.borrowed = c.borrowed /\ d.failed = c.failed + 1 /\ d.returned = c.returned
        /\ ~Takes(t, w, x, z, p)
    <3>1. label # "return" /\ label # "top"
      BY <1>15 DEF Asking
    <3>2. ~Takes(t, w, x, z, p)
      BY <3>1 DEF Takes, label
    <3> QED BY <1>15, <3>1, <3>2 DEF FailsNow, Same, label, item, out, c, d
  <2>2. label \in Busy /\ z.pc \notin Busy /\ z.pc \notin Asking /\ z.pc # "return"
    BY <1>15, <2>1 DEF Busy, Asking
  <2>3. askingNow = asking - 1 /\ busyNow = busy - 1 /\ lentNow = lent
    BY <1>7, <1>9, <1>15, <2>1, <2>2
  <2>4. item \notin out
    BY <1>1, <1>15 DEF label, item, out
  <2>5. /\ IsFiniteSet(p) /\ sizeNow \in {size, size + 1}
        /\ sizeNow \in Nat
    <3>1. CASE p = out
      BY <1>1, <1>3, <3>1 DEF size, sizeNow
    <3>2. CASE p = out \cup {item}
      BY <1>10, <2>4, <3>2 DEF size, sizeNow
    <3> QED BY <2>1, <3>1, <3>2
  <2>6. Balance(d, lentNow, askingNow, busyNow, sizeNow)
    BY <1>2, <1>3, <2>1, <2>3, <2>5 DEF Balance
  <2> QED BY <1>11, <2>1, <2>2, <2>5, <2>6
<1>16. CASE FailsNow(t, w, x, z, p) /\ label = "return"
  <2>1. /\ z.pc = "report" /\ (p = out \/ p = out \ {item})
        /\ d.borrowed = c.borrowed /\ d.failed = c.failed + 1 /\ d.returned = c.returned
        /\ ~Takes(t, w, x, z, p)
    BY <1>16 DEF FailsNow, Takes, Same, label, item, out, c, d
  <2>2. /\ label \in Busy /\ label \notin Asking
        /\ z.pc \notin Busy /\ z.pc \notin Asking /\ z.pc # "return"
    BY <1>16, <2>1 DEF Busy, Asking
  <2>3. askingNow = asking /\ busyNow = busy - 1 /\ lentNow = lent
    BY <1>7, <1>9, <2>1, <2>2
  <2>4. item \in out
    BY <1>1, <1>16 DEF label, item, out
  <2>5. /\ IsFiniteSet(p) /\ sizeNow \in {size, size - 1}
        /\ sizeNow \in Nat
    <3>1. CASE p = out
      BY <1>1, <1>3, <3>1 DEF size, sizeNow
    <3>2. CASE p = out \ {item}
      BY <1>10, <2>4, <3>2 DEF size, sizeNow
    <3> QED BY <2>1, <3>1, <3>2
  <2>6. Balance(d, lentNow, askingNow, busyNow, sizeNow)
    BY <1>2, <1>3, <2>1, <2>3, <2>5 DEF Balance
  <2> QED BY <1>11, <2>1, <2>2, <2>5, <2>6
<1>17. CASE Returns(t, w, x, z, p)
  <2>1. /\ label = "return" /\ z.pc = "report" /\ p = out \ {item}
        /\ d.borrowed = c.borrowed /\ d.failed = c.failed /\ d.returned = c.returned + 1
        /\ ~Takes(t, w, x, z, p)
    BY <1>17 DEF Returns, Takes, Same, label, item, out, c, d
  <2>2. /\ label \in Busy /\ label \notin Asking
        /\ z.pc \notin Busy /\ z.pc \notin Asking /\ z.pc # "return"
    BY <2>1 DEF Busy, Asking
  <2>3. askingNow = asking /\ busyNow = busy - 1 /\ lentNow = lent
    BY <1>7, <1>9, <2>1, <2>2
  <2>4. item \in out
    BY <1>1, <2>1 DEF label, item, out
  <2>5. IsFiniteSet(p) /\ sizeNow = size - 1 /\ sizeNow \in Nat
    BY <1>10, <2>1, <2>4 DEF size, sizeNow
  <2>6. Balance(d, lentNow, askingNow, busyNow, sizeNow)
    BY <1>2, <1>3, <2>1, <2>3, <2>5 DEF Balance
  <2> QED BY <1>11, <2>1, <2>2, <2>5, <2>6
<1>18. CASE Stops(t, w, x, z, p) \/ Loads(t, w, x, z, p) \/ Writes(t, w, x, z, p)
  <2>1. /\ label \in {"top", "report", "write"} /\ z.pc \in {"off", "write", "top"}
        /\ p = out /\ d = c
    BY <1>18 DEF Stops, Loads, Writes, label, out, c, d
  <2>2. ~Takes(t, w, x, z, p)
    BY <2>1 DEF Takes
  <2>3. /\ label \notin Busy /\ label \notin Asking
        /\ z.pc \notin Busy /\ z.pc \notin Asking /\ z.pc # "return"
    BY <2>1 DEF Busy, Asking
  <2>4. askingNow = asking /\ busyNow = busy /\ lentNow = lent
    BY <1>7, <1>9, <2>2, <2>3
  <2>5. Balance(d, lentNow, askingNow, busyNow, sizeNow)
    BY <1>2, <1>21, <2>1, <2>4
  <2> QED BY <1>11, <1>21, <2>1, <2>3, <2>5
<1>19. label # "request"
  BY DEF Basics, Shaped, label
<1>20. /\ Lends(t, w, x, z, p) => label \in {"verify", "claim"}
       /\ FailsNow(t, w, x, z, p) => label \in Asking \/ label = "return"
       /\ ~Answered(t, w, x, z, p)
  BY <1>19 DEF Lends, FailsNow, Answered, label, Asking
<1> QED BY <1>12, <1>13, <1>14, <1>15, <1>16, <1>17, <1>18, <1>20 DEF Acts

LEMMA SummedStep ==
    ASSUME TypeOK, Basics, \A t \in Tasks : Summed(task[t], worker[t], platform[t]), [Next]_vars
    PROVE  \A t \in Tasks : Summed(task[t], worker[t], platform[t])'
<1>1. CASE UNCHANGED vars
  <2>1. ASSUME NEW t \in Tasks
        PROVE  Summed(task[t], worker[t], platform[t])'
    <3>1. Summed(task'[t], worker'[t], platform'[t]) /\ kind' = kind
      BY <1>1 DEF vars, modes
    <3> QED BY <3>1 DEF Summed, Claiming, Lending, Balance, At, TakenOf, LentOf
  <2> QED BY <2>1
<1>2. CASE Next
  <2>1. PICK t \in Tasks, x \in TaskRecord, y \in [Workers -> WorkerRecord], p \in SUBSET Nat :
              Changes(t, x, y, p) /\ Step(t, x, y, p)
    BY <1>2, NextChanges DEF Step
  <2>2. /\ task'[t] = x /\ worker'[t] = y /\ platform'[t] = p /\ kind' = kind
        /\ \A u \in Tasks : u # t => /\ task'[u] = task[u] /\ worker'[u] = worker[u]
                                     /\ platform'[u] = platform[u]
    BY <2>1, Elsewhere
  <2>3. Summed(x, y, p)
    <3>1. CASE Starts(t, x, y, p)
      BY <3>1, SummedStarts
    <3>2. CASE Manages(t, x, y, p)
      BY <3>2, SummedManages
    <3>3. CASE \E w \in Workers, z \in WorkerRecord :
                  /\ y = [worker[t] EXCEPT ![w] = z] /\ canceller' = canceller
                  /\ Fixed(t, x) /\ Acts(t, w, x, z, p)
      <4>1. PICK w \in Workers, z \in WorkerRecord :
               /\ y = [worker[t] EXCEPT ![w] = z] /\ Fixed(t, x) /\ Acts(t, w, x, z, p)
        BY <3>3
      <4>2. CASE kind = "claim"
        <5>1. Claiming(task[t], worker[t], platform[t])
          BY <4>2 DEF Summed
        <5>2. Claiming(x, y, p)
          BY <4>1, <4>2, <5>1, ClaimingActs
        <5> QED BY <4>2, <5>2 DEF Summed
      <4>3. CASE kind # "claim"
        <5>1. Lending(task[t], worker[t], platform[t])
          BY <4>3 DEF Summed
        <5>2. Lending(x, y, p)
          BY <4>1, <4>3, <5>1, LendingActs
        <5> QED BY <4>3, <5>2 DEF Summed
      <4> QED BY <4>2, <4>3
    <3> QED BY <2>1, <3>1, <3>2, <3>3 DEF Step
  <2>4. ASSUME NEW u \in Tasks
        PROVE  Summed(task[u], worker[u], platform[u])'
    <3>1. Summed(task'[u], worker'[u], platform'[u]) /\ kind' = kind
      BY <2>2, <2>3
    <3> QED BY <3>1 DEF Summed, Claiming, Lending, Balance, At, TakenOf, LentOf
  <2> QED BY <2>4
<1> QED BY <1>1, <1>2

LEMMA SummedInit == Init => \A t \in Tasks : Summed(task[t], worker[t], platform[t])
<1>1. ASSUME Init, NEW t \in Tasks
      PROVE  Claiming(task[t], worker[t], platform[t]) /\ Lending(task[t], worker[t], platform[t])
  <2>1. /\ task[t] = NoTask /\ platform[t] = {}
        /\ \A w \in Workers : worker[t][w].pc = "off"
    BY <1>1 DEF Init, NoWorker
  <2>2. /\ At(worker[t], {"request"}) = {} /\ At(worker[t], Busy) = {}
        /\ At(worker[t], Asking) = {}
        /\ \A w \in Workers : worker[t][w].pc \notin Busy /\ worker[t][w].pc \notin Asking
    BY <2>1 DEF At, Busy, Asking
  <2>3. TakenOf(task[t]) = 0 /\ LentOf(task[t]) = 0
    BY <2>1 DEF TakenOf, LentOf, NoTask
  <2>4. /\ task[t].counts.codes = 0 /\ task[t].counts.failed = 0
        /\ task[t].counts.returned = 0 /\ task[t].counts.borrowed = 0
    BY <2>1 DEF NoTask, NoCounts
  <2>5. IsFiniteSet({}) /\ Cardinality({}) = 0
    BY FS_EmptySet
  <2>6. IsFiniteSet(platform[t]) /\ Cardinality(platform[t]) = 0
    BY <2>1, <2>5
  <2>7. /\ Cardinality(At(worker[t], {"request"})) = 0 /\ Cardinality(At(worker[t], Busy)) = 0
        /\ Cardinality(At(worker[t], Asking)) = 0
    BY <2>2, <2>5
  <2>8. Claiming(task[t], worker[t], platform[t])
    BY <2>3, <2>4, <2>6, <2>7 DEF Claiming
  <2>9. Lending(task[t], worker[t], platform[t])
    BY <2>1, <2>2, <2>3, <2>4, <2>6, <2>7 DEF Lending, Balance
  <2> QED BY <2>8, <2>9
<1> QED BY <1>1 DEF Summed

\* Whatever the platform answers, however the workers take turns and wherever a cancellation
\* falls, the counts of a task that is over add up to the items it took.  A claim task has
\* each as a code or as failed; a life cycle task has borrowed or counted as failed each item
\* it was to borrow, and what is claimed at the platform is what it counts as borrowed and not
\* as returned, but for the failed ones.  The parts fit the whole, for shares that are not
\* negative
THEOREM CountInvCorrect == Spec => []CountInv
<1>1. Init => TypeOK /\ Basics /\ \A t \in Tasks : Summed(task[t], worker[t], platform[t])
  BY TypeInit, BasicsInit, SummedInit
<1>2. /\ TypeOK /\ Basics /\ (\A t \in Tasks : Summed(task[t], worker[t], platform[t]))
      /\ [Next]_vars
      => (\A t \in Tasks : Summed(task[t], worker[t], platform[t]))'
  BY SummedStep
<1>3. TypeOK /\ Basics /\ (\A t \in Tasks : Summed(task[t], worker[t], platform[t])) => CountInv
  <2> SUFFICES ASSUME TypeOK, Basics,
                      \A t \in Tasks : Summed(task[t], worker[t], platform[t])
               PROVE  CountInv
    OBVIOUS
  <2>1. PartsFit
    <3>1. ASSUME NEW s \in Shares, NEW n \in Totals, n > 0, Natural(s)
          PROVE  n \in Nat /\ s \in [claimed : Nat, borrowed : Nat, returned : Nat, expired : Nat]
      BY <3>1, ClaimsAssumption DEF ClaimsAssumption, Natural
    <3> QED BY <3>1, PartsOf DEF PartsFit
  <2>2. ASSUME NEW t \in Tasks, Done(t)
        PROVE  /\ Reported(t) = task[t].counts /\ Taken(t) = TakenOf(task[t])
               /\ At(worker[t], {"request"}) = {} /\ At(worker[t], Busy) = {}
               /\ At(worker[t], Asking) = {}
    <3>1. task[t].reported = task[t].counts /\ \A w \in Workers : worker[t][w].pc = "off"
      BY <2>2 DEF Done, Basics, Shaped
    <3> QED BY <3>1 DEF Reported, Taken, TakenOf, At, Busy, Asking
  <2>3. Cardinality({}) = 0
    BY FS_EmptySet
  <2>4. ASSUME NEW t \in Tasks
        PROVE  /\ task[t].counts.codes \in Nat /\ task[t].counts.failed \in Nat
               /\ task[t].counts.returned \in Nat /\ task[t].counts.borrowed \in Nat
               /\ task[t].next \in Nat /\ task[t].total \in Nat /\ task[t].borrowedEnd \in Int
    BY DEF TypeOK, Counts
  <2>5. ClaimsAccounted
    <3>1. ASSUME kind = "claim", NEW t \in Tasks, Done(t)
          PROVE  /\ Reported(t).codes + Reported(t).failed = Taken(t)
                 /\ Cardinality(platform[t]) <= Reported(t).codes + Reported(t).failed
      <4>1. Claiming(task[t], worker[t], platform[t])
        BY <3>1 DEF Summed
      <4>2. Cardinality(At(worker[t], {"request"})) = 0
        BY <2>2, <2>3, <3>1
      <4> QED BY <2>2, <2>4, <3>1, <4>1, <4>2 DEF Claiming
    <3> QED BY <3>1 DEF ClaimsAccounted
  <2>6. LoansAccounted
    <3>1. ASSUME kind = "lifecycle", NEW t \in Tasks, Done(t)
          PROVE  LET counts == Reported(t)
                     out == Cardinality(platform[t]) IN
                 /\ counts.borrowed <= Lent(t) /\ Lent(t) <= counts.borrowed + counts.failed
                 /\ counts.returned + counts.failed <= Lent(t)
                 /\ out + counts.returned <= counts.borrowed + counts.failed
                 /\ counts.borrowed <= out + counts.returned + counts.failed
      <4>1. Lending(task[t], worker[t], platform[t])
        BY <3>1 DEF Summed
      <4>2. /\ Cardinality(At(worker[t], Busy)) = 0
            /\ Cardinality(At(worker[t], Asking)) = 0
        BY <2>2, <2>3, <3>1
      <4>3. Balance(task[t].counts, LentOf(task[t]), 0, 0, Cardinality(platform[t]))
        BY <4>1, <4>2 DEF Lending
      <4>4. LentOf(task[t]) = Lent(t) /\ LentOf(task[t]) \in Nat
        BY <2>2, <2>4, <3>1 DEF LentOf, Lent, TakenOf
      <4> QED BY <2>2, <2>4, <3>1, <4>3, <4>4 DEF Balance
    <3> QED BY <3>1 DEF LoansAccounted
  <2> QED BY <2>1, <2>5, <2>6 DEF CountInv
<1> QED BY <1>1, <1>2, <1>3, BasicsHold, PTL DEF Spec
=============================================================================
