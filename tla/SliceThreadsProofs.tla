-------------------------- MODULE SliceThreadsProofs --------------------------
(***************************************************************************)
(* Proofs about the slice-threading pool, for any number of workers and    *)
(* any bound on the number of jobs: the inductive invariant, and from it   *)
(* that execute() returns only after finishing all tasks, that no job is   *)
(* run twice and that thread numbers are distinct; that the pool           *)
(* implements TaskPool, leaves nobody asleep, and that its calls end after *)
(* a bounded number of steps.                                              *)
(***************************************************************************)
EXTENDS SliceThreads, FiniteSetTheorems, TLAPS

(* The size of an initial segment of the naturals.                         *)
LEMMA SegmentCount ==
  ASSUME NEW n \in Nat
  PROVE  IsFiniteSet(0 .. n - 1) /\ Cardinality(0 .. n - 1) = n
<1>1. IsFiniteSet(0 .. n - 1) /\ Cardinality(0 .. n - 1) = IF 0 > n - 1 THEN 0 ELSE n - 1 - 0 + 1
  BY FS_Interval
<1>2. QED
  BY <1>1

(* Counting subsets of an initial segment of the naturals.                 *)
LEMMA Counting ==
  ASSUME NEW n \in Nat, NEW S \in SUBSET (0 .. n - 1)
  PROVE  /\ Cardinality(S) \in Nat /\ Cardinality(S) <= n
         /\ Cardinality(S) = n => S = 0 .. n - 1
         /\ Cardinality(S) = 0 <=> S = {}
         /\ \A x \in 0 .. n - 1 : x \notin S => Cardinality(S \cup {x}) = Cardinality(S) + 1
         /\ \A x \in S : Cardinality(S \ {x}) = Cardinality(S) - 1
<1>1. IsFiniteSet(0 .. n - 1) /\ Cardinality(0 .. n - 1) = n
  BY SegmentCount
<1>2. IsFiniteSet(S) /\ Cardinality(S) <= n /\ (Cardinality(S) = n => S = 0 .. n - 1)
  BY <1>1, FS_Subset
<1>3. Cardinality(S) \in Nat
  BY <1>2, FS_CardinalityType
<1>4. Cardinality(S) = 0 <=> S = {}
  BY <1>2, FS_EmptySet
<1>5. ASSUME NEW x \in 0 .. n - 1, x \notin S
      PROVE  Cardinality(S \cup {x}) = Cardinality(S) + 1
  BY <1>2, <1>5, FS_AddElement
<1>6. ASSUME NEW x \in S
      PROVE  Cardinality(S \ {x}) = Cardinality(S) - 1
  BY <1>2, FS_RemoveElement
<1>7. QED
  BY <1>2, <1>3, <1>4, <1>5, <1>6

(* The number of jobs finished when one more is.                           *)
LEMMA CountingOneMore ==
  ASSUME NEW n \in Nat, NEW S \in SUBSET (0 .. n - 1), NEW x \in 0 .. n - 1, x \notin S
  PROVE  Cardinality(S \cup {x}) = Cardinality(S) + 1 /\ Cardinality(S) \in Nat
BY Counting

(* The same for sets of workers.                                           *)
LEMMA CountingWorkers ==
  ASSUME NEW S \in SUBSET Workers
  PROVE  /\ Cardinality(S) \in Nat /\ Cardinality(S) <= ThreadCount
         /\ Cardinality(S) = ThreadCount => S = Workers
         /\ Cardinality(S) = 0 <=> S = {}
         /\ \A x \in Workers : x \notin S => Cardinality(S \cup {x}) = Cardinality(S) + 1
         /\ \A x \in S : Cardinality(S \ {x}) = Cardinality(S) - 1
BY Counting, SliceAssumption DEF Workers

(* The pool before thread_init has created a worker.                       *)
LEMMA InitInv == Init => IInv
<1> SUFFICES ASSUME Init PROVE IInv
  OBVIOUS
<1> USE SliceAssumption DEF Init
<1>1. TypeOK
  <2>1. 0 \in Workers /\ 0 \in 0 .. ThreadCount /\ 0 \in 0 .. ThreadCount + MaxJobs
    BY DEF Workers
  <2>2. wpc \in [Workers -> WorkerLabels] /\ mpc \in MainLabels
    BY DEF WorkerLabels, MainLabels
  <2>3. /\ our_job \in [Workers -> 0 .. ThreadCount + MaxJobs]
        /\ self_id \in [Workers -> Workers] /\ expected \in [Workers -> 0 .. ThreadCount]
    BY <2>1
  <2>4. /\ created \in 0 .. ThreadCount /\ thread_count \in 0 .. ThreadCount
        /\ current_job \in 0 .. ThreadCount + MaxJobs /\ job_count \in 0 .. MaxJobs
    OBVIOUS
  <2>5. done \in BOOLEAN /\ finished \subseteq Jobs
    OBVIOUS
  <2>6. QED
    BY <2>2, <2>3, <2>4, <2>5 DEF TypeOK
<1>2. Life /\ Numbers
  BY DEF Life, Numbers, Entered
<1>3. Entered = {} /\ \A w \in Workers : ~Busy(w)
  BY DEF Entered, Busy
<1>4. Cardinality({}) = 0
  BY FS_EmptySet
<1>5. Starting /\ Executing /\ FirstJobs /\ JobsHeld
  BY <1>3, <1>4 DEF Starting, Executing, FirstJobs, JobsHeld
<1>6. QED
  BY <1>1, <1>2, <1>5 DEF IInv

------------------------------------------------------------------------------
(* The steps of main.                                                      *)
LEMMA CreateInv ==
  ASSUME IInv, Create
  PROVE  IInv'
<1> USE SliceAssumption DEF IInv, Create
<1>0. created \in Workers /\ wpc[created] = "none" /\ job_count = 0
  BY DEF Life, TypeOK, Workers
<1>1. TypeOK'
  <2>1. wpc' \in [Workers -> WorkerLabels]
    BY DEF TypeOK, WorkerLabels
  <2>2. created' \in 0 .. ThreadCount
    BY DEF TypeOK
  <2>3. QED
    BY <2>1, <2>2 DEF TypeOK
<1>2. Entered' = Entered /\ Reporting' = Reporting /\ \A w \in Workers : Busy(w)' <=> Busy(w)
  BY <1>0 DEF TypeOK, Entered, Reporting, Busy
<1>3. Life'
  <2>1. \A w \in Workers : w >= created' => w >= created /\ w # created
    BY DEF TypeOK, Workers
  <2>2. \A w \in Workers : w # created => wpc'[w] = wpc[w]
    BY DEF TypeOK
  <2>3. \A w \in Workers : w >= created' => wpc'[w] = "none"
    BY <2>1, <2>2 DEF Life
  <2>4. \A w \in Workers : wpc'[w] = "exited" => wpc[w] = "exited"
    BY DEF TypeOK
  <2>5. QED
    BY <1>0, <2>3, <2>4 DEF Life
<1>4. Numbers'
  BY <1>0, <1>2 DEF Numbers, TypeOK
<1>5. Starting' /\ Executing' /\ FirstJobs'
  BY <1>0, <1>2 DEF Starting, Executing, FirstJobs
<1>6. JobsHeld'
  BY <1>0, <1>2 DEF Starting, JobsHeld
<1>7. QED
  BY <1>1, <1>3, <1>4, <1>5, <1>6

(* thread_init waits for the workers it created (line 338).                *)
LEMMA ParkInv ==
  ASSUME IInv, ParkAfterInit
  PROVE  IInv'
<1> USE DEF IInv, ParkAfterInit, shared, locals
<1>1. TypeOK' /\ Life'
  BY DEF TypeOK, Life, MainLabels
<1>2. Numbers' /\ Starting' /\ Executing' /\ FirstJobs' /\ JobsHeld'
  BY DEF Life, Numbers, Starting, Executing, FirstJobs, JobsHeld, Entered, Reporting, Busy
<1>3. QED
  BY <1>1, <1>2

(* Main goes on once the last worker has signalled (lines 227-228).        *)
LEMMA UnparkInv ==
  ASSUME IInv, Unpark
  PROVE  IInv'
<1> USE DEF IInv, Unpark, shared, locals
<1>1. TypeOK' /\ Life'
  BY DEF TypeOK, Life, MainLabels
<1>2. Numbers' /\ Starting' /\ Executing' /\ FirstJobs' /\ JobsHeld'
  BY DEF Life, Numbers, Starting, Executing, FirstJobs, JobsHeld, Entered, Reporting, Busy
<1>3. QED
  BY <1>1, <1>2

(* thread_free joins the workers one after the other (lines 241-242).      *)
LEMMA JoinInv ==
  ASSUME IInv, Join
  PROVE  IInv'
<1> USE DEF IInv, Join, shared, locals
<1>1. TypeOK' /\ Life'
  BY DEF TypeOK, Life, MainLabels
<1>2. Numbers' /\ Starting' /\ Executing' /\ FirstJobs' /\ JobsHeld'
  BY DEF Life, Numbers, Starting, Executing, FirstJobs, JobsHeld, Entered, Reporting, Busy
<1>3. QED
  BY <1>1, <1>2

(* When main is out of execute() nobody is busy.                           *)
LEMMA ReadyIdle ==
  ASSUME IInv, mpc \in {"woken", "ready", "join", "freed"}
  PROVE  \A w \in Workers : ~Busy(w)
<1> SUFFICES ASSUME NEW w \in Workers, Busy(w) PROVE FALSE
  OBVIOUS
<1>1. job_count > 0
  BY DEF IInv, Starting, TypeOK
<1>2. finished = 0 .. job_count - 1 /\ Reporting = {}
  BY <1>1 DEF IInv, Executing
<1>3. wpc[w] = "run"
  BY <1>2 DEF Busy, Reporting
<1>4. our_job[w] \in 0 .. ThreadCount + MaxJobs /\ job_count \in 0 .. MaxJobs
  BY DEF IInv, TypeOK
<1>5. our_job[w] < job_count /\ our_job[w] \notin finished
  BY <1>3 DEF IInv, JobsHeld
<1>6. QED
  BY <1>2, <1>4, <1>5, SliceAssumption

(* Publishing a new call (lines 266-275): the counter starts at            *)
(* thread_count.                                                           *)
LEMMA ExecuteInv ==
  ASSUME IInv, Execute
  PROVE  IInv'
<1> USE SliceAssumption DEF IInv, Execute
<1>1. \A w \in Workers : ~Busy(w) /\ wpc[w] # "exited"
  BY ReadyIdle DEF Life
<1>2. /\ \A w \in Workers : /\ wpc'[w] = IF wpc[w] = "blocked" THEN "woken" ELSE wpc[w]
                            /\ ~Busy(w)'
      /\ Entered' = Entered /\ Reporting' = {}
  BY <1>1 DEF TypeOK, Woken, Entered, Reporting, Busy
<1>3. TypeOK'
  BY <1>2 DEF TypeOK, MainLabels, WorkerLabels, Woken, Life, Jobs
<1>4. Life'
  BY <1>2 DEF Life, TypeOK
<1>5. Numbers' /\ job_count' > 0
  BY <1>2 DEF Numbers, TypeOK
<1>6. Starting' /\ FirstJobs' /\ JobsHeld'
  BY <1>2, <1>5 DEF Starting, FirstJobs, JobsHeld
<1>7. Executing'
  <2>1. Cardinality({}) = 0
    BY FS_EmptySet
  <2>2. QED
    BY <1>2, <2>1 DEF Executing, Life
<1>8. QED
  BY <1>3, <1>4, <1>5, <1>6, <1>7

(* thread_free sets done and wakes everybody (lines 235-238).              *)
LEMMA FreeInv ==
  ASSUME IInv, Free
  PROVE  IInv'
<1> USE SliceAssumption DEF IInv, Free
<1>1. \A w \in Workers : ~Busy(w)
  BY ReadyIdle DEF Life
<1>2. /\ \A w \in Workers : /\ wpc'[w] = IF wpc[w] = "blocked" THEN "woken" ELSE wpc[w]
                            /\ ~Busy(w)'
      /\ Entered' = Entered /\ Reporting' = Reporting
  BY <1>1 DEF TypeOK, Woken, Entered, Reporting, Busy
<1>3. TypeOK'
  BY <1>2 DEF TypeOK, MainLabels, WorkerLabels, Woken
<1>4. Life'
  BY <1>2 DEF Life
<1>5. Numbers'
  BY <1>2 DEF Numbers, Life
<1>6. Starting' /\ FirstJobs' /\ JobsHeld' /\ Executing'
  BY <1>2 DEF Starting, FirstJobs, JobsHeld, Executing, Life
<1>7. QED
  BY <1>3, <1>4, <1>5, <1>6

------------------------------------------------------------------------------
(* The steps of a worker.                                                  *)

(* A worker that is busy has a call of execute() to serve: main is parked. *)
LEMMA BusyParked ==
  ASSUME IInv, NEW w \in Workers, Busy(w)
  PROVE  mpc = "parked" /\ job_count > 0 /\ ~done
<1>1. job_count > 0
  BY DEF IInv, Starting, TypeOK
<1>2. mpc \notin {"woken", "ready", "join", "freed"}
  BY ReadyIdle
<1>3. mpc = "parked"
  BY <1>1, <1>2 DEF IInv, TypeOK, MainLabels, Life
<1>4. QED
  BY <1>1, <1>3 DEF IInv, Life

(* When the counter is ahead by every job, all have been reported.         *)
LEMMA AllReported ==
  ASSUME NEW n \in Nat, NEW F \in SUBSET (0 .. n - 1), NEW R \in SUBSET Workers,
         ThreadCount + n + Cardinality(R) = ThreadCount + Cardinality(F)
  PROVE  F = 0 .. n - 1 /\ R = {}
<1>1. Cardinality(F) \in Nat /\ Cardinality(F) <= n /\ (Cardinality(F) = n => F = 0 .. n - 1)
  BY Counting
<1>2. Cardinality(R) \in Nat /\ (Cardinality(R) = 0 <=> R = {})
  BY CountingWorkers
<1>3. Cardinality(F) = n /\ Cardinality(R) = 0
  BY <1>1, <1>2, SliceAssumption
<1>4. QED
  BY <1>1, <1>2, <1>3

(* A worker begins, with our_job beyond every job (line 196).              *)
LEMMA StartInv ==
  ASSUME IInv, NEW w \in Workers, Start(w)
  PROVE  IInv'
<1> USE SliceAssumption DEF IInv, Start, shared
<1>1. job_count = 0 /\ w \notin Entered
  BY DEF Numbers, TypeOK, Entered
<1>2. /\ \A v \in Workers : /\ wpc'[v] = IF v = w THEN "enter" ELSE wpc[v]
                            /\ our_job'[v] = IF v = w THEN 0 ELSE our_job[v]
                            /\ expected'[v] = IF v = w THEN ThreadCount ELSE expected[v]
      /\ Entered' = Entered /\ Reporting' = Reporting
  BY <1>1 DEF TypeOK, Entered, Reporting, Life
<1>3. \A v \in Workers : Busy(v)' <=> Busy(v)
  BY <1>2 DEF Busy
<1>4. TypeOK'
  <2>1. wpc' \in [Workers -> WorkerLabels]
    BY DEF TypeOK, WorkerLabels
  <2>2. /\ our_job' \in [Workers -> 0 .. ThreadCount + MaxJobs]
        /\ expected' \in [Workers -> 0 .. ThreadCount]
    BY <1>1 DEF TypeOK
  <2>3. QED
    BY <2>1, <2>2 DEF TypeOK
<1>5. Life'
  BY <1>1, <1>2 DEF Life
<1>6. Numbers'
  BY <1>1, <1>2 DEF Numbers
<1>7. Starting' /\ Executing' /\ FirstJobs' /\ JobsHeld'
  BY <1>1, <1>2, <1>3 DEF Starting, Executing, FirstJobs, JobsHeld
<1>8. QED
  BY <1>4, <1>5, <1>6, <1>7

(* The number a worker takes is the number of workers before it, so the    *)
(* last one is the one that finds the counter at thread_count.             *)
LEMMA EnterInv ==
  ASSUME IInv, NEW w \in Workers, Enter(w)
  PROVE  IInv'
<1> USE SliceAssumption DEF IInv, Enter, DrawOrWait, LockFree, SignalsLast
<1>1. w \notin Entered /\ Entered \in SUBSET Workers
  BY DEF Entered
<1>2. job_count = 0 /\ mpc = "parked" /\ our_job[w] = 0 /\ expected[w] = ThreadCount
  BY <1>1 DEF Numbers, TypeOK
<1>3. current_job = Cardinality(Entered) /\ finished = {} /\ \A v \in Workers : ~Busy(v)
  BY <1>2 DEF Starting
<1>4. /\ \A v \in Workers : /\ wpc'[v] = IF v = w THEN "blocked" ELSE wpc[v]
                            /\ self_id'[v] = IF v = w THEN current_job ELSE self_id[v]
                            /\ our_job'[v] = our_job[v]
                            /\ ~Busy(v)'
      /\ Entered' = Entered \cup {w}
  BY <1>2, <1>3 DEF TypeOK, Entered, Busy
<1>5. /\ Cardinality(Entered') = current_job + 1 /\ current_job + 1 <= ThreadCount
      /\ current_job + 1 = ThreadCount => Entered' = Workers
  <2>1. Entered' \in SUBSET Workers
    BY <1>1, <1>4
  <2>2. Cardinality(Entered') = current_job + 1
    BY <1>1, <1>3, <1>4, CountingWorkers
  <2>3. QED
    BY <2>1, <2>2, CountingWorkers
<1>6. mpc' = IF current_job + 1 = ThreadCount THEN "woken" ELSE "parked"
  BY <1>2 DEF TypeOK
<1>7. current_job \in Nat /\ current_job' = current_job + 1
  BY DEF TypeOK
<1>8. TypeOK'
  <2>1. wpc' = [wpc EXCEPT ![w] = "blocked"] /\ our_job' = [our_job EXCEPT ![w] = 0]
    BY <1>2
  <2>2. wpc' \in [Workers -> WorkerLabels] /\ our_job' \in [Workers -> 0 .. ThreadCount + MaxJobs]
    BY <2>1 DEF TypeOK, WorkerLabels
  <2>3. current_job \in Workers
    BY <1>5, <1>7 DEF Workers
  <2>4. self_id' \in [Workers -> Workers]
    BY <2>3 DEF TypeOK
  <2>5. mpc' \in MainLabels /\ current_job' \in 0 .. ThreadCount + MaxJobs
    BY <1>5, <1>6, <1>7 DEF MainLabels
  <2>6. QED
    BY <2>2, <2>4, <2>5 DEF TypeOK
<1>9. Life'
  BY <1>2, <1>4, <1>6 DEF Life
<1>10. Numbers'
  <2>1. \A v \in Entered : self_id[v] < current_job /\ self_id[v] \in Nat
    BY <1>1, <1>2 DEF Starting, TypeOK, Workers
  <2>2. \A u, v \in Entered' : u # v => self_id'[u] # self_id'[v]
    BY <1>1, <1>4, <1>7, <2>1 DEF Numbers
  <2>3. \A v \in Workers : wpc'[v] \notin {"none", "start"} => expected'[v] = ThreadCount
    BY <1>2, <1>4 DEF Numbers
  <2>4. \A v \in Workers : wpc'[v] = "enter" => our_job'[v] = 0
    BY <1>4 DEF Numbers
  <2>5. (job_count' > 0 \/ mpc' \notin {"init", "parked"}) => Entered' = Workers
    BY <1>2, <1>5, <1>6
  <2>6. QED
    BY <2>2, <2>3, <2>4, <2>5 DEF Numbers
<1>11. Starting'
  <2>1. \A v \in Entered : self_id[v] < current_job /\ self_id[v] \in Nat
    BY <1>1, <1>2 DEF Starting, TypeOK, Workers
  <2>2. \A v \in Entered' : self_id'[v] < current_job'
    BY <1>1, <1>4, <1>7, <2>1
  <2>3. QED
    BY <1>3, <1>4, <1>5, <1>7, <2>2 DEF Starting
<1>12. Executing' /\ FirstJobs' /\ JobsHeld'
  BY <1>2, <1>4 DEF Executing, FirstJobs, JobsHeld
<1>13. QED
  BY <1>8, <1>9, <1>10, <1>11, <1>12

(* A worker wakes up: to exit, to find its own number is no job, or to run *)
(* the job of its number.                                                  *)
LEMMA ExitInv ==
  ASSUME IInv, NEW w \in Workers, Resume(w), done
  PROVE  IInv'
<1> USE SliceAssumption DEF IInv, Resume
<1>1. \A v \in Workers : ~Busy(v)
  BY ReadyIdle DEF Life
<1>2. /\ \A v \in Workers : /\ wpc'[v] = IF v = w THEN "exited" ELSE wpc[v]
                            /\ our_job'[v] = IF v = w THEN self_id[w] ELSE our_job[v]
                            /\ ~Busy(v)'
      /\ Entered' = Entered /\ Reporting' = Reporting
  BY <1>1 DEF TypeOK, Entered, Reporting, Busy
<1>3. TypeOK'
  <2>1. wpc' \in [Workers -> WorkerLabels]
    BY DEF TypeOK, WorkerLabels
  <2>2. self_id[w] \in 0 .. ThreadCount + MaxJobs
    BY DEF TypeOK, Workers
  <2>3. our_job' \in [Workers -> 0 .. ThreadCount + MaxJobs]
    BY <2>2 DEF TypeOK
  <2>4. QED
    BY <2>1, <2>3 DEF TypeOK
<1>4. Life'
  BY <1>2 DEF Life
<1>5. Numbers'
  BY <1>2 DEF Numbers
<1>6. Starting' /\ Executing' /\ FirstJobs' /\ JobsHeld'
  BY <1>2 DEF Starting, Executing, FirstJobs, JobsHeld
<1>7. QED
  BY <1>3, <1>4, <1>5, <1>6

(* A woken worker whose number is no job of this call waits again.         *)
LEMMA ResumeWaitInv ==
  ASSUME IInv, NEW w \in Workers, Resume(w), ~done, self_id[w] >= job_count
  PROVE  IInv'
<1> USE SliceAssumption DEF IInv, Resume, DrawOrWait, LockFree
<1>1. /\ wpc[w] = "woken" /\ current_job' = current_job
      /\ our_job' = [our_job EXCEPT ![w] = self_id[w]]
      /\ wpc' = [wpc EXCEPT ![w] = "blocked"]
      /\ mpc' = IF SignalsLast(w, current_job) THEN "woken" ELSE mpc
  OBVIOUS
<1>2. /\ \A v \in Workers : /\ wpc'[v] = IF v = w THEN "blocked" ELSE wpc[v]
                            /\ our_job'[v] = IF v = w THEN self_id[w] ELSE our_job[v]
                            /\ Busy(v)' <=> Busy(v)
      /\ Entered' = Entered /\ Reporting' = Reporting /\ w \in Entered /\ ~Busy(w)
  BY <1>1 DEF TypeOK, Entered, Reporting, Busy
<1>3. expected[w] = ThreadCount
  BY <1>1 DEF Numbers
<1>4. TypeOK'
  <2>1. wpc' \in [Workers -> WorkerLabels]
    BY <1>1 DEF TypeOK, WorkerLabels
  <2>2. self_id[w] \in 0 .. ThreadCount + MaxJobs
    BY DEF TypeOK, Workers
  <2>3. our_job' \in [Workers -> 0 .. ThreadCount + MaxJobs]
    BY <1>1, <2>2 DEF TypeOK
  <2>4. mpc' \in MainLabels
    BY <1>1 DEF TypeOK, MainLabels
  <2>5. QED
    BY <1>1, <2>1, <2>3, <2>4 DEF TypeOK
<1>5. Life'
  BY <1>1, <1>2 DEF Life, SignalsLast
<1>6. Starting' /\ FirstJobs' /\ JobsHeld'
  BY <1>1, <1>2 DEF Starting, FirstJobs, JobsHeld
<1>7. CASE ~SignalsLast(w, current_job)
  <2>1. mpc' = mpc
    BY <1>1, <1>7
  <2>2. Numbers' /\ Executing'
    BY <1>1, <1>2, <2>1 DEF Numbers, Executing
  <2>3. QED
    BY <1>4, <1>5, <1>6, <2>2
<1>8. CASE SignalsLast(w, current_job)
  <2>1. mpc' = "woken" /\ current_job = ThreadCount + job_count
    BY <1>1, <1>3, <1>8 DEF SignalsLast
  <2>2. Entered = Workers
    <3>1. CASE job_count = 0
      <4>1. Entered \in SUBSET Workers /\ Cardinality(Entered) = ThreadCount
        BY <2>1, <3>1 DEF Starting, Entered
      <4>2. QED
        BY <4>1, CountingWorkers
    <3>2. CASE job_count > 0
      BY <3>2 DEF Numbers
    <3>3. QED
      BY <3>1, <3>2 DEF TypeOK
  <2>3. Numbers'
    BY <1>2, <2>2 DEF Numbers
  <2>4. job_count > 0 => finished = 0 .. job_count - 1 /\ Reporting = {}
    <3> SUFFICES ASSUME job_count > 0 PROVE finished = 0 .. job_count - 1 /\ Reporting = {}
      OBVIOUS
    <3>1. job_count \in Nat /\ finished \in SUBSET (0 .. job_count - 1) /\ Reporting \in SUBSET Workers
      BY DEF TypeOK, Executing, Reporting
    <3>2. ThreadCount + job_count + Cardinality(Reporting) = ThreadCount + Cardinality(finished)
      BY <2>1 DEF Executing
    <3>3. QED
      BY <3>1, <3>2, AllReported
  <2>5. Executing'
    BY <1>1, <1>2, <2>4 DEF Executing
  <2>6. QED
    BY <1>4, <1>5, <1>6, <2>3, <2>5
<1>9. QED
  BY <1>7, <1>8

(* A woken worker whose number is a job takes it (lines 208, 215).         *)
LEMMA ResumeRunInv ==
  ASSUME IInv, NEW w \in Workers, Resume(w), ~done, self_id[w] < job_count
  PROVE  IInv'
<1> USE SliceAssumption DEF IInv, Resume, DrawOrWait, LockFree
<1>1. self_id[w] \in 0 .. ThreadCount - 1 /\ job_count \in Nat /\ job_count > 0 /\ wpc[w] = "woken"
  BY DEF TypeOK, Workers
<1>2. /\ current_job' = current_job /\ mpc' = mpc
      /\ our_job' = [our_job EXCEPT ![w] = self_id[w]]
      /\ wpc' = [wpc EXCEPT ![w] = "run"]
  BY <1>1
<1>3. /\ \A v \in Workers : /\ wpc'[v] = IF v = w THEN "run" ELSE wpc[v]
                            /\ our_job'[v] = IF v = w THEN self_id[w] ELSE our_job[v]
                            /\ v # w => (Busy(v)' <=> Busy(v))
      /\ Entered' = Entered /\ Reporting' = Reporting /\ w \in Entered /\ Busy(w)'
  BY <1>1, <1>2 DEF TypeOK, Entered, Reporting, Busy
<1>4. TypeOK'
  <2>1. wpc' \in [Workers -> WorkerLabels]
    BY <1>2 DEF TypeOK, WorkerLabels
  <2>2. our_job' \in [Workers -> 0 .. ThreadCount + MaxJobs]
    BY <1>1, <1>2 DEF TypeOK
  <2>3. QED
    BY <1>2, <2>1, <2>2 DEF TypeOK
<1>5. Life'
  BY <1>1, <1>2, <1>3 DEF Life
<1>6. Numbers' /\ Starting' /\ Executing' /\ FirstJobs'
  BY <1>1, <1>2, <1>3 DEF Numbers, Starting, Executing, FirstJobs
<1>7. self_id[w] \notin finished
  BY <1>1 DEF FirstJobs
<1>8. \A v \in Workers \ {w} : Busy(v) => our_job[v] # self_id[w]
  <2> SUFFICES ASSUME NEW v \in Workers \ {w}, Busy(v) PROVE our_job[v] # self_id[w]
    OBVIOUS
  <2>1. v \in Entered
    BY DEF Busy, Entered
  <2>2. self_id[v] # self_id[w]
    BY <1>3, <2>1 DEF Numbers
  <2>3. our_job[v] = self_id[v] \/ our_job[v] \in ThreadCount .. current_job - 1
    BY DEF JobsHeld
  <2>4. QED
    BY <1>1, <2>2, <2>3 DEF TypeOK
<1>9. JobsHeld'
  BY <1>1, <1>2, <1>3, <1>7, <1>8 DEF JobsHeld
<1>10. QED
  BY <1>4, <1>5, <1>6, <1>9

(* The two cases together.                                                 *)
LEMMA ResumeInv ==
  ASSUME IInv, NEW w \in Workers, Resume(w)
  PROVE  IInv'
<1>1. self_id[w] \in Nat /\ job_count \in Nat
  BY SliceAssumption DEF IInv, TypeOK, Workers
<1>2. self_id[w] >= job_count \/ self_id[w] < job_count
  BY <1>1
<1>3. QED
  BY <1>2, ExitInv, ResumeWaitInv, ResumeRunInv

(* A job returns and becomes one of the finished ones, still to be         *)
(* reported: the counter has not moved past it yet.                        *)
LEMMA RunJobInv ==
  ASSUME IInv, NEW w \in Workers, RunJob(w)
  PROVE  IInv'
<1> USE SliceAssumption DEF IInv, RunJob, shared
<1>1. Busy(w) /\ w \in Entered /\ wpc[w] = "run"
  BY DEF Busy, Entered
<1>2. mpc = "parked" /\ job_count > 0 /\ ~done
  BY <1>1, BusyParked
<1>3. /\ our_job[w] \in 0 .. job_count - 1 /\ our_job[w] \notin finished
      /\ self_id[w] \in 0 .. ThreadCount - 1 /\ current_job >= ThreadCount
      /\ current_job \in Nat /\ job_count \in Nat /\ job_count <= MaxJobs
      /\ our_job[w] = self_id[w] \/ our_job[w] \in ThreadCount .. current_job - 1
  <2>1. /\ our_job[w] < job_count /\ our_job[w] \notin finished
        /\ our_job[w] = self_id[w] \/ our_job[w] \in ThreadCount .. current_job - 1
    BY <1>1 DEF JobsHeld
  <2>2. /\ our_job[w] \in 0 .. ThreadCount + MaxJobs /\ self_id[w] \in 0 .. ThreadCount - 1
        /\ current_job \in 0 .. ThreadCount + MaxJobs /\ job_count \in 0 .. MaxJobs
    BY DEF TypeOK, Workers
  <2>3. current_job >= ThreadCount
    BY <1>2 DEF Executing
  <2>4. our_job[w] \in 0 .. job_count - 1
    BY <2>1, <2>2
  <2>5. QED
    BY <2>1, <2>2, <2>3, <2>4
<1>4. /\ \A v \in Workers : /\ wpc'[v] = IF v = w THEN "next" ELSE wpc[v]
                            /\ Busy(v)' <=> Busy(v)
      /\ Entered' = Entered /\ Reporting' = Reporting \cup {w} /\ w \notin Reporting
  BY <1>1 DEF TypeOK, Entered, Reporting, Busy
<1>5. TypeOK'
  <2>1. wpc' \in [Workers -> WorkerLabels]
    BY DEF TypeOK, WorkerLabels
  <2>2. finished' \subseteq Jobs
    <3>1. our_job[w] \in Jobs
      BY <1>3 DEF Jobs
    <3>2. QED
      BY <3>1 DEF TypeOK
  <2>3. QED
    BY <2>1, <2>2 DEF TypeOK
<1>6. Life'
  BY <1>2, <1>4 DEF Life
<1>7. Numbers'
  BY <1>4 DEF Numbers
<1>8. Executing'
  <2>1. finished \in SUBSET (0 .. job_count - 1) /\ Reporting \in SUBSET Workers
    BY <1>2 DEF Executing, Reporting
  <2>2. Cardinality(finished') = Cardinality(finished) + 1 /\ Cardinality(finished) \in Nat
    <3>1. job_count \in Nat /\ our_job[w] \in 0 .. job_count - 1 /\ our_job[w] \notin finished
      BY <1>3
    <3>2. finished \in SUBSET (0 .. job_count - 1)
      BY <2>1
    <3>3. QED
      BY <3>1, <3>2, CountingOneMore
  <2>3. Cardinality(Reporting') = Cardinality(Reporting) + 1 /\ Cardinality(Reporting) \in Nat
    BY <1>4, <2>1, CountingWorkers
  <2>4. current_job + Cardinality(Reporting) = ThreadCount + Cardinality(finished)
    BY <1>2 DEF Executing
  <2>5. current_job' + Cardinality(Reporting') = ThreadCount + Cardinality(finished')
    BY <1>3, <2>2, <2>3, <2>4
  <2>6. finished' \subseteq 0 .. job_count - 1
    BY <1>3, <2>1
  <2>7. \A j \in finished' : j < current_job
    BY <1>2, <1>3 DEF Executing
  <2>8. QED
    BY <1>2, <1>3, <2>5, <2>6, <2>7 DEF Executing
<1>9. Starting'
  BY <1>2 DEF Starting
<1>10. FirstJobs'
  <2> SUFFICES ASSUME NEW v \in Workers, wpc'[v] = "woken" PROVE self_id[v] \notin finished'
    BY DEF FirstJobs
  <2>1. v # w /\ wpc[v] = "woken" /\ v \in Entered
    BY <1>4 DEF Entered
  <2>2. self_id[v] \notin finished
    BY <1>2, <2>1 DEF FirstJobs
  <2>3. self_id[v] # self_id[w] /\ self_id[v] \in 0 .. ThreadCount - 1
    BY <1>1, <2>1 DEF Numbers, TypeOK, Workers
  <2>4. self_id[v] # our_job[w]
    BY <1>3, <2>3
  <2>5. QED
    BY <2>2, <2>4
<1>11. JobsHeld'
  <2>1. \A v \in Workers \ {w} : Busy(v) => our_job[v] # our_job[w]
    BY <1>1 DEF JobsHeld
  <2>2. QED
    BY <1>4, <2>1 DEF JobsHeld
<1>12. QED
  BY <1>5, <1>6, <1>7, <1>8, <1>9, <1>10, <1>11

(* A worker reports the job it ran by moving the counter, and takes the    *)
(* job the counter stood at; or waits, waking main when the counter shows  *)
(* that this report was the last.                                          *)
LEMMA DrawInv ==
  ASSUME IInv, NEW w \in Workers, Draw(w)
  PROVE  IInv'
<1> USE SliceAssumption DEF IInv, Draw, DrawOrWait
<1>1. Busy(w) /\ w \in Entered /\ w \in Reporting /\ wpc[w] = "next" /\ expected[w] = ThreadCount
  BY DEF Busy, Entered, Reporting, Numbers
<1>2. mpc = "parked" /\ job_count > 0 /\ ~done
  BY <1>1, BusyParked
<1>3. current_job \in Nat /\ job_count \in Nat /\ job_count <= MaxJobs /\ current_job >= ThreadCount
  BY <1>2 DEF TypeOK, Executing
<1>4. finished \in SUBSET (0 .. job_count - 1) /\ Reporting \in SUBSET Workers
  BY <1>2 DEF Executing, Reporting
<1>5. /\ current_job + 1 + Cardinality(Reporting \ {w}) = ThreadCount + Cardinality(finished)
      /\ current_job + 1 <= ThreadCount + job_count
  <2>1. Cardinality(Reporting \ {w}) = Cardinality(Reporting) - 1 /\ Cardinality(Reporting) \in Nat
    BY <1>1, <1>4, CountingWorkers
  <2>2. Cardinality(finished) \in Nat /\ Cardinality(finished) <= job_count
    BY <1>3, <1>4, Counting
  <2>3. Cardinality(Reporting \ {w}) \in Nat
    <3>1. Reporting \ {w} \in SUBSET Workers
      BY <1>4
    <3>2. QED
      BY <3>1, CountingWorkers
  <2>4. current_job + Cardinality(Reporting) = ThreadCount + Cardinality(finished)
    BY <1>2 DEF Executing
  <2>5. QED
    BY <1>3, <2>1, <2>2, <2>3, <2>4
<1>6. /\ current_job' = current_job + 1
      /\ our_job' = [our_job EXCEPT ![w] = current_job]
      /\ wpc' = [wpc EXCEPT ![w] = IF current_job >= job_count THEN "blocked" ELSE "run"]
  BY <1>3
<1>7. current_job \in 0 .. ThreadCount + MaxJobs /\ current_job' \in 0 .. ThreadCount + MaxJobs
  BY <1>3, <1>5, <1>6
<1>8. /\ \A v \in Workers :
           /\ wpc'[v] = IF v = w THEN IF current_job >= job_count THEN "blocked" ELSE "run"
                                 ELSE wpc[v]
           /\ our_job'[v] = IF v = w THEN current_job ELSE our_job[v]
           /\ v # w => (Busy(v)' <=> Busy(v))
      /\ Entered' = Entered /\ Reporting' = Reporting \ {w}
  BY <1>1, <1>6 DEF TypeOK, Entered, Reporting, Busy
<1>9. mpc' \in {"parked", "woken"} /\ (mpc' = "woken" => current_job' = ThreadCount + job_count)
  BY <1>1, <1>2, <1>6 DEF SignalsLast
<1>10. TypeOK'
  <2>1. wpc' \in [Workers -> WorkerLabels]
    BY <1>6 DEF TypeOK, WorkerLabels
  <2>2. our_job' \in [Workers -> 0 .. ThreadCount + MaxJobs]
    BY <1>6, <1>7 DEF TypeOK
  <2>3. mpc' \in MainLabels
    BY <1>9 DEF MainLabels
  <2>4. QED
    BY <1>7, <2>1, <2>2, <2>3 DEF TypeOK
<1>11. Life'
  BY <1>2, <1>8, <1>9 DEF Life
<1>12. Numbers'
  <2>1. Entered = Workers
    BY <1>2 DEF Numbers
  <2>2. \A v \in Workers : wpc[v] # "enter" /\ wpc'[v] # "enter"
    BY <1>8, <2>1 DEF Entered
  <2>3. QED
    BY <1>8, <2>1, <2>2 DEF Numbers, Entered
<1>13. Starting'
  BY <1>2 DEF Starting
<1>14. Executing'
  <2>1. current_job' >= ThreadCount /\ \A j \in finished : j < current_job'
    <3>1. \A j \in finished : j < current_job /\ j \in Nat
      BY <1>2, <1>4 DEF Executing
    <3>2. QED
      BY <1>3, <1>6, <3>1
  <2>2. current_job' + Cardinality(Reporting') = ThreadCount + Cardinality(finished)
    BY <1>5, <1>6, <1>8
  <2>3. mpc' # "parked" => finished = 0 .. job_count - 1 /\ Reporting' = {}
    <3> SUFFICES ASSUME mpc' # "parked" PROVE finished = 0 .. job_count - 1 /\ Reporting' = {}
      OBVIOUS
    <3>1. ThreadCount + job_count + Cardinality(Reporting') = ThreadCount + Cardinality(finished)
      BY <1>9, <2>2
    <3>2. Reporting' \in SUBSET Workers
      BY <1>4, <1>8
    <3>3. QED
      BY <1>3, <1>4, <3>1, <3>2, AllReported
  <2>4. QED
    BY <1>4, <2>1, <2>2, <2>3 DEF Executing
<1>15. FirstJobs'
  BY <1>2, <1>8 DEF FirstJobs
<1>16. JobsHeld'
  <2>1. ASSUME NEW v \in Workers, v # w, Busy(v)'
        PROVE  /\ our_job'[v] = our_job[v] /\ our_job[v] < current_job /\ our_job[v] < job_count
               /\ our_job[v] \in finished <=> wpc'[v] = "next"
               /\ our_job[v] = self_id[v] \/ our_job[v] \in ThreadCount .. current_job' - 1
    <3>1. Busy(v) /\ our_job'[v] = our_job[v] /\ wpc'[v] = wpc[v]
      BY <1>8, <2>1
    <3>2. /\ our_job[v] < job_count
          /\ our_job[v] \in finished <=> wpc'[v] = "next"
          /\ our_job[v] = self_id[v] \/ our_job[v] \in ThreadCount .. current_job - 1
      BY <3>1 DEF JobsHeld
    <3>3. self_id[v] \in 0 .. ThreadCount - 1
      BY DEF TypeOK, Workers
    <3>4. our_job[v] < current_job
      BY <1>3, <3>2, <3>3
    <3>5. our_job[v] \in ThreadCount .. current_job - 1 => our_job[v] \in ThreadCount .. current_job' - 1
      BY <1>3, <1>6
    <3>6. QED
      BY <3>1, <3>2, <3>4, <3>5
  <2>2. ASSUME Busy(w)'
        PROVE  /\ our_job'[w] = current_job /\ current_job < job_count /\ wpc'[w] = "run"
               /\ current_job \notin finished /\ current_job \in ThreadCount .. current_job' - 1
    <3>1. wpc'[w] = "run" /\ current_job < job_count
      BY <1>3, <1>8, <2>2 DEF Busy
    <3>2. current_job \notin finished
      BY <1>2, <1>3 DEF Executing
    <3>3. QED
      BY <1>3, <1>6, <1>8, <3>1, <3>2
  <2>3. ASSUME NEW u \in Workers, NEW v \in Workers, u # v, Busy(u)', Busy(v)'
        PROVE  our_job'[u] # our_job'[v]
    <3>1. CASE u # w /\ v # w
      BY <1>8, <2>3, <3>1 DEF JobsHeld
    <3>2. CASE u = w
      BY <1>3, <2>1, <2>2, <2>3, <3>2
    <3>3. CASE v = w
      BY <1>3, <2>1, <2>2, <2>3, <3>3
    <3>4. QED
      BY <3>1, <3>2, <3>3
  <2>4. ASSUME NEW v \in Workers, Busy(v)'
        PROVE  /\ our_job'[v] < job_count'
               /\ our_job'[v] \in finished' <=> wpc'[v] = "next"
               /\ our_job'[v] = self_id'[v] \/ our_job'[v] \in ThreadCount .. current_job' - 1
    BY <2>1, <2>2, <2>4
  <2>5. QED
    BY <2>3, <2>4 DEF JobsHeld
<1>17. QED
  BY <1>10, <1>11, <1>12, <1>13, <1>14, <1>15, <1>16

------------------------------------------------------------------------------
(* Every step preserves the invariant.                                     *)
LEMMA NextInv == IInv /\ [Next]_vars => IInv'
<1>1. ASSUME IInv, Next PROVE IInv'
  <2>1. ASSUME NEW w \in Workers, Worker(w) PROVE IInv'
    BY <1>1, <2>1, StartInv, EnterInv, ResumeInv, RunJobInv, DrawInv DEF Worker
  <2>2. QED
    BY <1>1, <2>1, CreateInv, ParkInv, UnparkInv, ExecuteInv, FreeInv, JoinInv DEF Next
<1>2. ASSUME IInv, UNCHANGED vars PROVE IInv'
  BY <1>2 DEF IInv, vars, TypeOK, Life, Numbers, Starting, Executing, FirstJobs, JobsHeld,
              Entered, Reporting, Busy
<1>3. QED
  BY <1>1, <1>2

(* The invariant holds of the pool whatever ThreadCount and MaxJobs are.   *)
THEOREM InductiveInvariant == Spec => []IInv
BY InitInv, NextInv, PTL DEF Spec

(* Every variable of the pool keeps its type; in particular the counter    *)
(* never runs more than MaxJobs ahead of the number of workers.            *)
THEOREM TypeCorrect == Spec => []TypeOK
<1>1. IInv => TypeOK
  BY DEF IInv
<1>2. QED
  BY <1>1, InductiveInvariant, PTL

(* execute() returns only after finishing all tasks.                       *)
THEOREM ExecuteFinishesAllTasks == Spec => []AllTasksDone
<1>1. IInv => AllTasksDone
  <2> SUFFICES ASSUME IInv, mpc \in {"ready", "join", "freed"}
               PROVE  /\ finished = 0 .. job_count - 1
                      /\ \A w \in Workers : wpc[w] \notin {"run", "next"}
    BY DEF AllTasksDone
  <2>1. \A w \in Workers : wpc[w] \notin {"run", "next"}
    BY ReadyIdle DEF Busy
  <2>2. finished = 0 .. job_count - 1
    <3>1. CASE job_count > 0
      BY <3>1 DEF IInv, Executing
    <3>2. CASE job_count = 0
      BY <3>2 DEF IInv, Starting
    <3>3. QED
      BY <3>1, <3>2 DEF IInv, TypeOK
  <2>3. QED
    BY <2>1, <2>2
<1>2. QED
  BY <1>1, InductiveInvariant, PTL

(* No job of a call is run by two workers, or run again once it returned.  *)
THEOREM NoJobRunsTwice == Spec => []NoJobTwice
<1>1. IInv => NoJobTwice
  <2> SUFFICES ASSUME IInv, NEW w \in Workers, Running(w)
               PROVE  /\ our_job[w] \in (0 .. job_count - 1) \ finished
                      /\ \A v \in Workers \ {w} : Running(v) => our_job[v] # our_job[w]
    BY DEF NoJobTwice
  <2>1. Busy(w) /\ wpc[w] = "run" /\ \A v \in Workers : Running(v) => Busy(v)
    BY DEF Running, Busy
  <2>2. our_job[w] < job_count /\ our_job[w] \notin finished
    BY <2>1 DEF IInv, JobsHeld
  <2>3. our_job[w] \in Nat /\ job_count \in Nat
    BY SliceAssumption DEF IInv, TypeOK
  <2>4. our_job[w] \in (0 .. job_count - 1) \ finished
    BY <2>2, <2>3
  <2>5. \A v \in Workers \ {w} : Running(v) => our_job[v] # our_job[w]
    BY <2>1 DEF IInv, JobsHeld
  <2>6. QED
    BY <2>4, <2>5
<1>2. QED
  BY <1>1, InductiveInvariant, PTL

(* Two jobs that run at the same time have different thread numbers, each  *)
(* below thread_count.                                                     *)
THEOREM ThreadNumbersAreDistinct == Spec => []ThreadNumbersDistinct
<1>1. IInv => ThreadNumbersDistinct
  <2> SUFFICES ASSUME IInv, NEW w \in Workers, Running(w)
               PROVE  /\ self_id[w] < thread_count
                      /\ \A v \in Workers \ {w} : Running(v) => self_id[v] # self_id[w]
    BY DEF ThreadNumbersDistinct
  <2>1. w \in Entered /\ \A v \in Workers : Running(v) => v \in Entered
    BY DEF Running, Entered
  <2>2. self_id[w] < thread_count
    BY SliceAssumption DEF IInv, TypeOK, Life, Workers
  <2>3. QED
    BY <2>1, <2>2 DEF IInv, Numbers
<1>2. QED
  BY <1>1, InductiveInvariant, PTL

------------------------------------------------------------------------------
(* The refinement of TaskPool.                                             *)

(* Steps that begin or end no job and no call.                             *)
LEMMA SameTasks ==
  ASSUME \A w \in Workers : Running(w)' <=> Running(w),
         \A w \in Workers : Running(w) => our_job'[w] = our_job[w] /\ self_id'[w] = self_id[w],
         UNCHANGED <<finished, job_count>>, Calling' = Calling
  PROVE  UNCHANGED Tasks!vars
<1>1. \A k \in Workers : JobsOf(k)' = JobsOf(k)
  BY DEF JobsOf
<1>2. Todo' = Todo
  BY DEF Todo
<1>3. QED
  BY <1>1, <1>2 DEF Tasks!vars

(* Main is out of any call, or done with it, when nobody is busy.          *)
LEMMA NothingTodo ==
  ASSUME IInv, mpc \in {"woken", "ready"}
  PROVE  Todo = {} /\ \A k \in Workers : JobsOf(k) = {}
<1>1. \A w \in Workers : ~Running(w)
  BY ReadyIdle DEF Running, Busy
<1>2. \A k \in Workers : JobsOf(k) = {}
  BY <1>1 DEF JobsOf
<1>3. \A j \in Jobs : j < job_count => j \in finished
  <2>1. job_count \in Nat /\ job_count <= MaxJobs
    BY SliceAssumption DEF IInv, TypeOK
  <2>2. job_count > 0 => finished = 0 .. job_count - 1
    BY DEF IInv, Executing
  <2>3. QED
    BY <2>1, <2>2, SliceAssumption DEF Jobs
<1>4. Todo = {}
  BY <1>3 DEF Todo
<1>5. QED
  BY <1>2, <1>4

(* What the step of one worker leaves to the others.                       *)
Alone(w) ==
  \A v \in Workers \ {w} : UNCHANGED <<wpc[v], our_job[v], self_id[v]>>

(* A worker that goes to the wait, or out of it to the end.                *)
LEMMA WaitMaps ==
  ASSUME NEW w \in Workers, ~Running(w), wpc'[w] # "run", Alone(w),
         UNCHANGED <<finished, job_count>>, Calling' = Calling
  PROVE  UNCHANGED Tasks!vars
<1>1. ASSUME NEW v \in Workers
      PROVE  /\ Running(v)' <=> Running(v)
             /\ Running(v) => our_job'[v] = our_job[v] /\ self_id'[v] = self_id[v]
  <2>1. CASE v = w
    BY <2>1 DEF Running
  <2>2. CASE v # w
    BY <2>2 DEF Running, Alone
  <2>3. QED
    BY <2>1, <2>2
<1>2. QED
  BY <1>1, SameTasks

(* A worker that begins a job: the job has not begun yet and the thread    *)
(* number has no other.                                                    *)
LEMMA BeginMaps ==
  ASSUME IInv, IInv', NEW w \in Workers, ~Running(w), wpc'[w] = "run", Alone(w),
         UNCHANGED <<finished, job_count>>, Calling' = Calling
  PROVE  Tasks!Next
<1>1. \A v \in Workers \ {w} : /\ Running(v)' <=> Running(v)
                               /\ our_job'[v] = our_job[v] /\ self_id'[v] = self_id[v]
  BY DEF Running, Alone
<1>2. PICK k \in Workers : k = self_id'[w]
  BY DEF IInv, TypeOK
<1>3. PICK job \in Nat : job = our_job'[w]
  BY SliceAssumption DEF IInv, TypeOK
<1>4. /\ job < job_count /\ job \notin finished
      /\ \A v \in Workers \ {w} : Running(v) => our_job[v] # job
  <2>1. Busy(w)' /\ \A v \in Workers \ {w} : Running(v) => Busy(v)'
    BY <1>1 DEF Running, Busy
  <2>2. /\ our_job'[w] < job_count' /\ our_job'[w] \notin finished'
        /\ \A v \in Workers \ {w} : Busy(v)' => our_job'[v] # our_job'[w]
    BY <2>1 DEF IInv, JobsHeld
  <2>3. QED
    BY <1>1, <1>3, <2>1, <2>2
<1>5. \A v \in Workers \ {w} : Running(v) => self_id[v] # k
  <2>1. w \in Entered' /\ \A v \in Workers \ {w} : Running(v) => v \in Entered'
    BY <1>1 DEF Running, Entered
  <2>2. \A v \in Entered' : v # w => self_id'[v] # self_id'[w]
    BY <2>1 DEF IInv, Numbers
  <2>3. QED
    BY <1>1, <1>2, <2>1, <2>2
<1>6. job \in Todo
  <2>1. job \in Jobs
    BY <1>4, SliceAssumption DEF Jobs, IInv, TypeOK
  <2>2. QED
    BY <1>4, <2>1 DEF Todo
<1>7. \A v \in Workers : Running(v)' <=> Running(v) \/ v = w
  BY <1>1 DEF Running
<1>8. Todo' = Todo \ {job}
  BY <1>1, <1>3, <1>7 DEF Todo
<1>9. JobsOf(k) = {}
  BY <1>5 DEF JobsOf
<1>10. JobsOf(k)' = {job}
  <2>1. \A v \in Workers : Running(v)' /\ self_id'[v] = k <=> v = w
    BY <1>1, <1>2, <1>5, <1>7
  <2>2. QED
    BY <1>3, <2>1 DEF JobsOf
<1>11. ASSUME NEW i \in Workers, i # k
       PROVE  JobsOf(i)' = JobsOf(i)
  BY <1>1, <1>2, <1>7, <1>11 DEF JobsOf
<1>12. [i \in Workers |-> JobsOf(i)]' = [[i \in Workers |-> JobsOf(i)] EXCEPT ![k] = {job}]
  BY <1>10, <1>11
<1>13. Tasks!Begin(k, job)
  BY <1>6, <1>8, <1>9, <1>12 DEF Tasks!Begin
<1>14. QED
  BY <1>6, <1>13 DEF Tasks!Next

(* A job ends where RunJob counts it as finished.                          *)
LEMMA EndMaps ==
  ASSUME IInv, NEW w \in Workers, RunJob(w)
  PROVE  Tasks!Next
<1>1. /\ Running(w) /\ ~Running(w)' /\ Busy(w) /\ w \in Entered
      /\ \A v \in Workers \ {w} : Running(v)' <=> Running(v)
      /\ \A v \in Workers : Running(v) => Busy(v) /\ v \in Entered
      /\ finished' = finished \cup {our_job[w]}
      /\ UNCHANGED <<mpc, job_count, our_job, self_id>>
  BY DEF RunJob, Running, Busy, Entered, IInv, TypeOK, shared
<1>2. PICK k \in Workers : k = self_id[w]
  BY DEF IInv, TypeOK
<1>3. \A v \in Workers : Running(v) /\ self_id[v] = k <=> v = w
  BY <1>1, <1>2 DEF IInv, Numbers
<1>4. JobsOf(k) # {} /\ JobsOf(k)' = {}
  <2>1. our_job[w] \in JobsOf(k)
    BY <1>3 DEF JobsOf
  <2>2. \A v \in Workers : ~(Running(v)' /\ self_id'[v] = k)
    BY <1>1, <1>3
  <2>3. JobsOf(k)' = {}
    BY <2>2 DEF JobsOf
  <2>4. QED
    BY <2>1, <2>3
<1>5. ASSUME NEW i \in Workers, i # k
      PROVE  JobsOf(i)' = JobsOf(i)
  BY <1>1, <1>2, <1>5 DEF JobsOf
<1>6. [i \in Workers |-> JobsOf(i)]' = [[i \in Workers |-> JobsOf(i)] EXCEPT ![k] = {}]
  BY <1>4, <1>5
<1>7. Todo' = Todo
  BY <1>1 DEF Todo
<1>8. Calling' = Calling
  BY <1>1 DEF Calling
<1>9. Tasks!End(k)
  BY <1>4, <1>6, <1>7, <1>8 DEF Tasks!End
<1>10. QED
  BY <1>9 DEF Tasks!Next

(* Publishing the jobs of a call.                                          *)
LEMMA ExecuteMaps ==
  ASSUME IInv, Execute
  PROVE  Tasks!Next
<1>1. \A w \in Workers : ~Running(w)
  BY ReadyIdle DEF Execute, Running, Busy
<1>2. \A w \in Workers : ~Running(w)'
  BY <1>1 DEF Execute, Woken, Running, IInv, TypeOK
<1>3. PICK n \in 1 .. MaxJobs : job_count' = n
  BY DEF Execute
<1>4. Todo' = 0 .. n - 1
  BY <1>2, <1>3, SliceAssumption DEF Todo, Execute, Jobs
<1>5. Calling = "out" /\ Calling' = "in"
  BY DEF Calling, Execute
<1>6. \A k \in Workers : JobsOf(k) = {} /\ JobsOf(k)' = {}
  BY <1>1, <1>2 DEF JobsOf
<1>7. Tasks!Execute
  BY <1>4, <1>5, <1>6 DEF Tasks!Execute
<1>8. QED
  BY <1>7 DEF Tasks!Next

(* The pool implements TaskPool: whatever order the workers draw jobs in,  *)
(* each job of a call is done once, under a thread number of its own, and  *)
(* the call returns when all are over (avcodec.h:2472-2498).               *)
THEOREM Refinement == Spec => ImplementsTaskPool
<1>1. Init => Tasks!Init
  <2> SUFFICES ASSUME Init PROVE Tasks!Init
    OBVIOUS
  <2>1. Calling = "in" /\ job_count = 0 /\ \A w \in Workers : ~Running(w)
    BY DEF Init, Calling, Running
  <2>2. Todo = {} /\ \A k \in Workers : JobsOf(k) = {}
    BY <2>1 DEF Todo, Jobs, JobsOf
  <2>3. QED
    BY <2>1, <2>2 DEF Tasks!Init
<1>2. ASSUME IInv, IInv', [Next]_vars
      PROVE  [Tasks!Next]_Tasks!vars
  <2> USE DEF shared, locals
  <2>1. ASSUME UNCHANGED <<wpc, our_job, self_id, finished, job_count>>, Calling' = Calling
        PROVE  UNCHANGED Tasks!vars
    BY <2>1, SameTasks DEF Running
  <2>2. ASSUME NEW w \in Workers, ~Running(w), wpc'[w] # "run", Alone(w),
               UNCHANGED <<finished, job_count>>, Calling' = Calling
        PROVE  UNCHANGED Tasks!vars
    BY <2>2, WaitMaps
  <2>3. CASE ParkAfterInit \/ Join
    BY <2>1, <2>3 DEF ParkAfterInit, Join, Calling
  <2>4. CASE Create
    <3>1. created \in Workers /\ wpc[created] = "none"
      BY <1>2, <2>4, SliceAssumption DEF Create, IInv, TypeOK, Life, Workers
    <3>2. wpc'[created] # "run" /\ ~Running(created) /\ Alone(created)
      BY <1>2, <2>4, <3>1 DEF Create, Running, Alone, IInv, TypeOK
    <3>3. Calling' = Calling /\ UNCHANGED <<finished, job_count>>
      BY <2>4 DEF Create, Calling
    <3>4. QED
      BY <2>2, <3>1, <3>2, <3>3
  <2>5. CASE Unpark
    <3>1. Todo = {} /\ \A k \in Workers : JobsOf(k) = {}
      BY <1>2, <2>5, NothingTodo DEF Unpark
    <3>2. \A k \in Workers : JobsOf(k)' = JobsOf(k)
      BY <2>5 DEF Unpark, JobsOf, Running
    <3>3. Todo' = Todo /\ Calling = "in" /\ Calling' = "out"
      BY <2>5 DEF Unpark, Todo, Calling, Running
    <3>4. Tasks!Return
      BY <3>1, <3>2, <3>3 DEF Tasks!Return
    <3>5. QED
      BY <3>4 DEF Tasks!Next
  <2>6. CASE Execute
    BY <1>2, <2>6, ExecuteMaps
  <2>7. CASE Free
    <3>1. \A w \in Workers : Running(w)' <=> Running(w)
      BY <1>2, <2>7 DEF Free, Woken, Running, IInv, TypeOK
    <3>2. \A k \in Workers : JobsOf(k)' = JobsOf(k)
      BY <2>7, <3>1 DEF Free, JobsOf
    <3>3. Todo' = Todo
      BY <2>7, <3>1 DEF Free, Todo
    <3>4. Calling = "out" /\ Calling' = "closed"
      BY <1>2, <2>7 DEF Free, Calling, IInv, Life
    <3>5. Tasks!Close
      BY <3>2, <3>3, <3>4 DEF Tasks!Close
    <3>6. QED
      BY <3>5 DEF Tasks!Next
  <2>8. ASSUME NEW w \in Workers, Start(w)
        PROVE  [Tasks!Next]_Tasks!vars
    <3>1. wpc'[w] # "run" /\ ~Running(w) /\ Alone(w)
      BY <1>2, <2>8 DEF Start, Running, Alone, IInv, TypeOK
    <3>2. Calling' = Calling /\ UNCHANGED <<finished, job_count>>
      BY <2>8 DEF Start, Calling
    <3>3. QED
      BY <2>2, <3>1, <3>2
  <2>9. ASSUME NEW w \in Workers, Enter(w) \/ Resume(w) \/ Draw(w)
        PROVE  [Tasks!Next]_Tasks!vars
    <3>1. ~Running(w) /\ Alone(w)
      BY <1>2, <2>9 DEF Enter, Resume, Draw, DrawOrWait, Running, Alone, IInv, TypeOK
    <3>2. UNCHANGED <<finished, job_count>>
      BY <2>9 DEF Enter, Resume, Draw
    <3>3. Calling' = Calling
      BY <2>9 DEF Enter, Resume, Draw, DrawOrWait, SignalsLast, Calling
    <3>4. CASE wpc'[w] = "run"
      BY <1>2, <3>1, <3>2, <3>3, <3>4, BeginMaps
    <3>5. CASE wpc'[w] # "run"
      BY <2>2, <3>1, <3>2, <3>3, <3>5
    <3>6. QED
      BY <3>4, <3>5
  <2>10. ASSUME NEW w \in Workers, RunJob(w)
         PROVE  [Tasks!Next]_Tasks!vars
    BY <1>2, <2>10, EndMaps
  <2>11. CASE UNCHANGED vars
    BY <2>1, <2>11 DEF vars, Calling
  <2>12. QED
    BY <1>2, <2>3, <2>4, <2>5, <2>6, <2>7, <2>8, <2>9, <2>10, <2>11 DEF Next, Worker
<1>3. QED
  BY <1>1, <1>2, InductiveInvariant, PTL DEF Spec, ImplementsTaskPool, Tasks!Spec

------------------------------------------------------------------------------
(* That nobody is stranded: the numbers of the workers, the jobs in their  *)
(* hands and the counter, step by step.                                    *)
LEMMA InitProgress == Init => Progress
<1> SUFFICES ASSUME Init PROVE Progress
  OBVIOUS
<1>1. NumbersTaken
  BY SliceAssumption DEF Init, NumbersTaken, Workers
<1>2. Awake /\ NoJobLost
  BY SliceAssumption DEF Init, Workers, Awake, NoJobLost
<1>3. QED
  BY <1>1, <1>2 DEF Progress

(* thread_init creates workers before any of them can take the lock.       *)
LEMMA CreateProgress ==
  ASSUME IInv, Progress, Create
  PROVE  Progress'
<1> USE SliceAssumption DEF Progress, Create
<1>1. wpc[created] = "none" /\ job_count = 0 /\ current_job = 0 /\ created \in Workers
  BY DEF IInv, Life, TypeOK, Workers, Awake
<1>2. NumbersTaken'
  BY <1>1 DEF NumbersTaken, Workers, TypeOK
<1>3. Awake'
  <2>1. \A w \in Workers : wpc'[w] = "none" => w >= created'
    BY <1>1 DEF Awake, IInv, TypeOK, Workers
  <2>2. QED
    BY <1>1, <2>1 DEF Awake, IInv, Life
<1>4. NoJobLost'
  BY <1>1 DEF NoJobLost
<1>5. QED
  BY <1>2, <1>3, <1>4

(* Every worker has been created when thread_init waits for them.          *)
LEMMA ParkProgress ==
  ASSUME IInv, Progress, ParkAfterInit
  PROVE  Progress'
<1> USE SliceAssumption DEF Progress, ParkAfterInit, shared, locals
<1>1. job_count = 0 /\ current_job = 0 /\ ~done
  BY DEF IInv, Life, Awake
<1>2. \A w \in Workers : wpc[w] # "none"
  BY DEF Awake, Workers
<1>3. NumbersTaken' /\ Awake' /\ NoJobLost'
  BY <1>1, <1>2 DEF NumbersTaken, Awake, NoJobLost, Entered
<1>4. QED
  BY <1>3

(* Steps of main that neither publish jobs nor wake anybody.               *)
LEMMA UnparkProgress ==
  ASSUME IInv, Progress, Unpark \/ Join
  PROVE  Progress'
<1>1. NumbersTaken' /\ Awake' /\ NoJobLost'
  BY DEF Progress, Unpark, Join, shared, locals, NumbersTaken, Awake, NoJobLost, Entered
<1>2. QED
  BY <1>1 DEF Progress

(* When main is out of execute() the workers wait or are about to.         *)
LEMMA ReadyWaiting ==
  ASSUME IInv, Progress, mpc \in {"woken", "ready", "join", "freed"}
  PROVE  \A w \in Workers : wpc[w] \in {"blocked", "woken", "exited"}
<1>1. \A w \in Workers : wpc[w] \in WorkerLabels /\ ~Busy(w)
  BY ReadyIdle DEF IInv, TypeOK
<1>2. Entered = Workers
  BY DEF IInv, Numbers
<1>3. QED
  BY <1>1, <1>2 DEF Busy, WorkerLabels, Entered

(* execute() wakes every worker, so each first job has its worker.         *)
LEMMA ExecuteProgress ==
  ASSUME IInv, Progress, Execute
  PROVE  Progress'
<1> USE SliceAssumption DEF Progress, Execute
<1>1. \A w \in Workers : wpc[w] \in {"blocked", "woken"}
  BY ReadyWaiting DEF IInv, Life
<1>2. /\ wpc' = [w \in Workers |-> "woken"] /\ Entered' = Workers /\ Entered = Workers
      /\ thread_count = ThreadCount /\ ~done
  BY <1>1 DEF Woken, Entered, IInv, Life
<1>3. job_count > 0 \/ current_job = ThreadCount
  <2>1. Entered \in SUBSET Workers /\ Cardinality(Workers) = ThreadCount
    <3>1. Cardinality(0 .. ThreadCount - 1) = ThreadCount
      BY SegmentCount
    <3>2. QED
      BY <1>2, <3>1 DEF Workers
  <2>2. QED
    BY <1>2, <2>1 DEF IInv, Starting, TypeOK
<1>4. \A i \in Workers : \E w \in Workers : self_id[w] = i
  <2> SUFFICES ASSUME NEW i \in Workers PROVE \E w \in Workers : self_id[w] = i
    OBVIOUS
  <2>1. job_count > 0 \/ i < current_job
    BY <1>3 DEF Workers
  <2>2. QED
    BY <1>2, <2>1 DEF NumbersTaken
<1>5. NumbersTaken'
  BY <1>2, <1>4 DEF NumbersTaken
<1>6. Awake'
  BY <1>2 DEF Awake
<1>7. NoJobLost'
  <2>1. \A j \in 0 .. job_count' - 1 : j < ThreadCount => \E w \in Workers : Holds(w, j)'
    <3> SUFFICES ASSUME NEW j \in 0 .. job_count' - 1, j < ThreadCount
                 PROVE  \E w \in Workers : Holds(w, j)'
      OBVIOUS
    <3>1. j \in Workers
      BY DEF Workers
    <3>2. PICK w \in Workers : self_id[w] = j
      BY <1>4, <3>1
    <3>3. QED
      BY <1>2, <3>2 DEF Holds
  <2>2. QED
    BY <1>2, <2>1 DEF NoJobLost
<1>8. QED
  BY <1>5, <1>6, <1>7

(* thread_free leaves nobody asleep.                                       *)
LEMMA FreeProgress ==
  ASSUME IInv, Progress, Free
  PROVE  Progress'
<1> USE SliceAssumption DEF Progress, Free
<1>1. mpc = "ready"
  BY DEF IInv, Life
<1>2. \A w \in Workers : wpc'[w] \in {"woken", "exited"} /\ (w \in Entered' <=> w \in Entered)
  BY <1>1, ReadyWaiting DEF Woken, Entered
<1>3. NumbersTaken'
  BY <1>2 DEF NumbersTaken, Entered
<1>4. Awake' /\ NoJobLost'
  BY <1>2 DEF Awake, NoJobLost
<1>5. QED
  BY <1>3, <1>4

(* A worker begins.                                                        *)
LEMMA StartProgress ==
  ASSUME IInv, Progress, NEW w \in Workers, Start(w)
  PROVE  Progress'
<1> USE SliceAssumption DEF Progress, Start, shared
<1>1. job_count = 0
  BY DEF IInv, Numbers, TypeOK, Entered
<1>2. /\ \A v \in Workers : wpc'[v] = IF v = w THEN "enter" ELSE wpc[v]
      /\ Entered' = Entered
  BY DEF IInv, TypeOK, Entered
<1>3. NumbersTaken' /\ NoJobLost'
  BY <1>1, <1>2 DEF NumbersTaken, NoJobLost
<1>4. Awake'
  BY <1>2 DEF Awake
<1>5. QED
  BY <1>3, <1>4

(* The worker that takes the last number is the one that wakes main.       *)
LEMMA EnterProgress ==
  ASSUME IInv, Progress, NEW w \in Workers, Enter(w)
  PROVE  Progress'
<1> USE SliceAssumption DEF Progress, Enter, DrawOrWait, LockFree, SignalsLast
<1>1. w \notin Entered /\ Entered \in SUBSET Workers
  BY DEF Entered
<1>2. job_count = 0 /\ mpc = "parked" /\ our_job[w] = 0 /\ expected[w] = ThreadCount /\ ~done
  BY <1>1 DEF IInv, Numbers, Life, TypeOK
<1>3. current_job \in Nat /\ current_job < ThreadCount /\ current_job' = current_job + 1
  BY <1>2 DEF IInv, TypeOK, Awake
<1>4. mpc' = IF current_job + 1 = ThreadCount THEN "woken" ELSE "parked"
  BY <1>2
<1>5. /\ \A v \in Workers : /\ wpc'[v] = IF v = w THEN "blocked" ELSE wpc[v]
                            /\ self_id'[v] = IF v = w THEN current_job ELSE self_id[v]
      /\ Entered' = Entered \cup {w}
  BY <1>2 DEF IInv, TypeOK, Entered
<1>6. NumbersTaken'
  <2> SUFFICES ASSUME NEW i \in Workers, i < current_job + 1
               PROVE  \E v \in Entered' : self_id'[v] = i
    BY <1>2, <1>3 DEF NumbersTaken
  <2>1. CASE i = current_job
    BY <1>5, <2>1
  <2>2. CASE i < current_job
    <3>1. PICK v \in Entered : self_id[v] = i
      BY <2>2 DEF NumbersTaken
    <3>2. QED
      BY <1>1, <1>5, <3>1
  <2>3. QED
    BY <1>3, <2>1, <2>2 DEF Workers
<1>7. Awake'
  BY <1>2, <1>3, <1>4, <1>5 DEF Awake
<1>8. NoJobLost'
  BY <1>2 DEF NoJobLost
<1>9. QED
  BY <1>6, <1>7, <1>8

(* A woken worker exits, waits again or takes the job of its number: no    *)
(* job leaves its hands.                                                   *)
LEMMA ResumeProgress ==
  ASSUME IInv, Progress, NEW w \in Workers, Resume(w)
  PROVE  Progress'
<1> USE SliceAssumption DEF Progress, Resume
<1>1. /\ self_id[w] \in 0 .. ThreadCount - 1 /\ job_count \in Nat /\ current_job \in Nat
      /\ wpc[w] = "woken" /\ mpc # "init"
  BY DEF IInv, TypeOK, Workers, LockFree
<1>2. CASE done
  <2>1. \A v \in Workers : wpc'[v] = IF v = w THEN "exited" ELSE wpc[v]
    BY <1>2 DEF IInv, TypeOK
  <2>2. Entered' = Entered
    BY <1>1, <2>1 DEF Entered
  <2>3. NumbersTaken'
    BY <1>2, <2>2 DEF NumbersTaken
  <2>4. mpc' = mpc /\ mpc # "parked" /\ done' = done /\ created' = created
    BY <1>2 DEF IInv, Life
  <2>5. \A v \in Workers : wpc'[v] \in {"woken", "exited"}
    BY <1>2, <2>1 DEF Awake
  <2>6. Awake'
    BY <1>1, <2>4, <2>5 DEF Awake
  <2>7. NoJobLost'
    BY <2>4 DEF NoJobLost
  <2>8. QED
    BY <2>3, <2>6, <2>7
<1>3. CASE ~done /\ self_id[w] >= job_count
  <2>1. /\ \A v \in Workers : wpc'[v] = IF v = w THEN "blocked" ELSE wpc[v]
        /\ \A v \in Workers : v # w => our_job'[v] = our_job[v]
        /\ current_job' = current_job
        /\ mpc' # "init" /\ (mpc' = "parked" => mpc = "parked")
    BY <1>1, <1>3 DEF IInv, TypeOK, DrawOrWait
  <2>2. Entered' = Entered
    BY <1>1, <2>1 DEF Entered
  <2>3. NumbersTaken'
    BY <2>1, <2>2 DEF NumbersTaken
  <2>4. Awake'
    BY <1>1, <1>3, <2>1 DEF Awake
  <2>5. NoJobLost'
    <3> SUFFICES ASSUME mpc = "parked", job_count > 0
                 PROVE  /\ \A v \in Workers : wpc'[v] = "blocked" => current_job >= job_count
                        /\ \A j \in 0 .. job_count - 1 :
                             j < current_job => j \in finished \/ \E v \in Workers : Holds(v, j)'
      BY <2>1 DEF NoJobLost
    <3>1. current_job >= job_count
      BY <1>1, <1>3 DEF IInv, Executing
    <3>2. \A j \in 0 .. job_count - 1 : \A v \in Workers : Holds(v, j) => Holds(v, j)'
      BY <1>1, <1>3, <2>1 DEF Holds, Busy
    <3>3. QED
      BY <3>1, <3>2 DEF NoJobLost
  <2>6. QED
    BY <2>3, <2>4, <2>5
<1>4. CASE ~done /\ self_id[w] < job_count
  <2>1. /\ \A v \in Workers : /\ wpc'[v] = IF v = w THEN "run" ELSE wpc[v]
                              /\ our_job'[v] = IF v = w THEN self_id[w] ELSE our_job[v]
        /\ current_job' = current_job /\ mpc' = mpc
    BY <1>1, <1>4 DEF IInv, TypeOK, DrawOrWait
  <2>2. Entered' = Entered
    BY <1>1, <2>1 DEF Entered
  <2>3. NumbersTaken'
    BY <2>1, <2>2 DEF NumbersTaken
  <2>4. Awake'
    BY <1>4, <2>1 DEF Awake
  <2>5. \A j \in 0 .. job_count - 1 : \A v \in Workers : Holds(v, j) => Holds(v, j)'
    BY <1>1, <2>1 DEF Holds, Busy
  <2>6. NoJobLost'
    BY <2>1, <2>5 DEF NoJobLost
  <2>7. QED
    BY <2>3, <2>4, <2>6
<1>5. QED
  BY <1>1, <1>2, <1>3, <1>4

(* A job that returns is still in the hands of its worker.                 *)
LEMMA RunJobProgress ==
  ASSUME IInv, Progress, NEW w \in Workers, RunJob(w)
  PROVE  Progress'
<1> USE DEF Progress, RunJob, shared
<1>1. \A v \in Workers : wpc'[v] = IF v = w THEN "next" ELSE wpc[v]
  BY DEF IInv, TypeOK
<1>2. Entered' = Entered /\ \A v \in Workers, j \in Nat : Holds(v, j)' <=> Holds(v, j)
  BY <1>1 DEF Entered, Holds, Busy
<1>3. NumbersTaken' /\ Awake'
  BY <1>1, <1>2 DEF NumbersTaken, Awake
<1>4. NoJobLost'
  BY <1>1, <1>2, SliceAssumption DEF NoJobLost, IInv, TypeOK
<1>5. QED
  BY <1>3, <1>4

(* Moving the counter past a job hands the job to who moves it; the last   *)
(* move wakes main.                                                        *)
LEMMA DrawProgress ==
  ASSUME IInv, Progress, NEW w \in Workers, Draw(w)
  PROVE  Progress'
<1> USE SliceAssumption DEF Progress, Draw, DrawOrWait
<1>1. Busy(w) /\ w \in Reporting /\ wpc[w] = "next" /\ expected[w] = ThreadCount
  BY DEF Busy, Reporting, IInv, Numbers
<1>2. mpc = "parked" /\ job_count > 0 /\ ~done /\ our_job[w] \in finished
  BY <1>1, BusyParked DEF IInv, JobsHeld
<1>3. current_job \in Nat /\ job_count \in Nat /\ current_job >= ThreadCount
  BY <1>2 DEF IInv, TypeOK, Executing
<1>4. /\ current_job' = current_job + 1
      /\ \A v \in Workers :
           /\ wpc'[v] = IF v = w THEN IF current_job >= job_count THEN "blocked" ELSE "run"
                                 ELSE wpc[v]
           /\ our_job'[v] = IF v = w THEN current_job ELSE our_job[v]
      /\ Entered' = Entered
  BY <1>1, <1>3 DEF IInv, TypeOK, Entered
<1>5. NumbersTaken'
  BY <1>2, <1>4 DEF NumbersTaken
<1>6. mpc' = "parked" => current_job + 1 < ThreadCount + job_count
  <2>1. CASE current_job < job_count
    BY <1>3, <2>1
  <2>2. CASE current_job >= job_count
    <3>1. mpc' = IF current_job + 1 = ThreadCount + job_count THEN "woken" ELSE mpc
      BY <1>1, <1>2, <1>3, <2>2 DEF SignalsLast
    <3>2. QED
      BY <1>2, <1>3, <3>1 DEF Awake
  <2>3. QED
    BY <1>3, <2>1, <2>2
<1>7. Awake'
  BY <1>2, <1>4, <1>6 DEF Awake
<1>8. NoJobLost'
  <2> SUFFICES ASSUME mpc' = "parked"
               PROVE  /\ \A v \in Workers : wpc'[v] = "blocked" => current_job + 1 >= job_count
                      /\ \A j \in 0 .. job_count - 1 :
                           j < current_job + 1 => j \in finished \/ \E v \in Workers : Holds(v, j)'
    BY <1>4 DEF NoJobLost
  <2>1. \A v \in Workers : wpc'[v] = "blocked" => current_job + 1 >= job_count
    BY <1>2, <1>3, <1>4 DEF NoJobLost
  <2>2. ASSUME NEW j \in 0 .. job_count - 1, j < current_job + 1, j \notin finished
        PROVE  \E v \in Workers : Holds(v, j)'
    <3>1. CASE j = current_job
      BY <1>3, <1>4, <3>1 DEF Holds, Busy
    <3>2. CASE j < current_job
      <4>1. PICK v \in Workers : Holds(v, j)
        BY <1>2, <2>2, <3>2 DEF NoJobLost
      <4>2. v # w
        BY <1>1, <1>2, <2>2, <4>1 DEF Holds
      <4>3. QED
        BY <1>4, <4>1, <4>2 DEF Holds, Busy
    <3>3. QED
      BY <1>3, <2>2, <3>1, <3>2
  <2>3. QED
    BY <2>1, <2>2
<1>9. QED
  BY <1>5, <1>7, <1>8

(* Every step preserves both parts of the invariant.                       *)
LEMMA NextProgress == IInv /\ Progress /\ [Next]_vars => (IInv /\ Progress)'
<1>1. ASSUME IInv, Progress, Next PROVE Progress'
  <2>1. ASSUME NEW w \in Workers, Worker(w) PROVE Progress'
    BY <1>1, <2>1, StartProgress, EnterProgress, ResumeProgress, RunJobProgress, DrawProgress
       DEF Worker
  <2>2. QED
    BY <1>1, <2>1, CreateProgress, ParkProgress, UnparkProgress, ExecuteProgress, FreeProgress
       DEF Next
<1>2. ASSUME Progress, UNCHANGED vars PROVE Progress'
  BY <1>2 DEF vars, Progress, NumbersTaken, Awake, NoJobLost, Entered, Holds, Busy
<1>3. QED
  BY <1>1, <1>2, NextInv

(* While main sleeps a worker has a step to take that may wake it: if all  *)
(* slept, each job below the counter would have returned, the counter would*)
(* be past every job, and so at the value at which main is woken.          *)
LEMMA SomebodyAwake ==
  ASSUME IInv, Progress, mpc = "parked"
  PROVE  \E w \in Workers : wpc[w] \in {"start", "enter", "woken", "run", "next"}
<1> SUFFICES ASSUME \A w \in Workers : wpc[w] \notin {"start", "enter", "woken", "run", "next"}
             PROVE  FALSE
  OBVIOUS
<1>1. \A w \in Workers : wpc[w] = "blocked"
  <2>1. \A w \in Workers : wpc[w] \in WorkerLabels /\ wpc[w] \notin {"none", "exited"}
    BY DEF IInv, TypeOK, Life, Progress, Awake
  <2>2. QED
    BY <2>1 DEF WorkerLabels
<1>2. Entered = Workers /\ Reporting = {} /\ 0 \in Workers
  BY <1>1, SliceAssumption DEF Entered, Reporting, Workers
<1>3. current_job < ThreadCount + job_count /\ current_job \in Nat /\ job_count \in Nat
  BY DEF Progress, Awake, IInv, TypeOK
<1>4. CASE job_count = 0
  <2>1. current_job = ThreadCount
    <3>1. Cardinality(0 .. ThreadCount - 1) = ThreadCount
      BY SegmentCount, SliceAssumption
    <3>2. QED
      BY <1>2, <1>4, <3>1 DEF IInv, Starting, Workers
  <2>2. QED
    BY <1>3, <1>4, <2>1, SliceAssumption
<1>5. CASE job_count > 0
  <2>1. current_job >= job_count
    BY <1>1, <1>2, <1>5 DEF Progress, NoJobLost
  <2>2. \A j \in 0 .. job_count - 1 : j \in finished
    BY <1>1, <1>3, <1>5, <2>1 DEF Progress, NoJobLost, Holds, Busy
  <2>3. finished = 0 .. job_count - 1
    BY <1>5, <2>2 DEF IInv, Executing
  <2>4. Cardinality(finished) = job_count /\ Cardinality(Reporting) = 0
    <3>1. Cardinality(0 .. job_count - 1) = job_count
      BY <1>3, SegmentCount
    <3>2. QED
      BY <1>2, <2>3, <3>1, FS_EmptySet
  <2>5. current_job = ThreadCount + job_count
    BY <1>3, <1>5, <2>4, SliceAssumption DEF IInv, Executing
  <2>6. QED
    BY <1>3, <2>5, SliceAssumption
<1>6. QED
  BY <1>3, <1>4, <1>5

(* No wake-up of main or of a worker is missed: while execute() or         *)
(* thread_init waits some worker has a step to take, and none sleeps when  *)
(* thread_free joins them.                                                 *)
THEOREM NobodyIsStranded == Spec => []NobodyStranded
<1>1. Init => IInv /\ Progress
  BY InitInv, InitProgress
<1>2. Spec => [](IInv /\ Progress)
  BY <1>1, NextProgress, PTL DEF Spec
<1>3. IInv /\ Progress => NobodyStranded
  <2> SUFFICES ASSUME IInv, Progress PROVE NobodyStranded
    OBVIOUS
  <2>1. mpc = "join" => \A w \in Workers : wpc[w] # "blocked"
    BY DEF IInv, Life, Progress, Awake
  <2>2. QED
    BY <2>1, SomebodyAwake DEF NobodyStranded
<1>4. QED
  BY <1>2, <1>3, PTL
------------------------------------------------------------------------------
(* That a call returns after so many steps.  What a worker still has to do *)
(* before it sleeps or exits, at each label, but for the jobs it draws;    *)
Rank(label) ==
  IF label \in {"none", "woken"} THEN 3
  ELSE IF label \in {"start", "run"} THEN 2
  ELSE IF label \in {"enter", "next"} THEN 1 ELSE 0

(* all of them together,                                                   *)
Ranks ==
  Cardinality(At({"none", "woken", "start", "run", "enter", "next"}))
    + Cardinality(At({"none", "woken", "start", "run"})) + Cardinality(At({"none", "woken"}))

(* and what main has to do.                                                *)
MainSteps == IF mpc = "init" THEN 2 ELSE IF mpc \in {"parked", "woken", "join"} THEN 1 ELSE 0

(* A worker that moves is counted where it goes.                           *)
LEMMA MoveCounts ==
  ASSUME NEW L, NEW w \in Workers, NEW x, TypeOK, wpc' = [wpc EXCEPT ![w] = x]
  PROVE  /\ Cardinality(At(L)) \in Nat /\ Cardinality(At(L)') \in Nat
         /\ x \in L /\ wpc[w] \in L => Cardinality(At(L)') = Cardinality(At(L))
         /\ x \in L /\ wpc[w] \notin L => Cardinality(At(L)') = Cardinality(At(L)) + 1
         /\ x \notin L /\ wpc[w] \in L => Cardinality(At(L)') = Cardinality(At(L)) - 1
         /\ x \notin L /\ wpc[w] \notin L => Cardinality(At(L)') = Cardinality(At(L))
<1>1. wpc'[w] = x /\ \A v \in Workers \ {w} : wpc'[v] = wpc[v]
  BY DEF TypeOK
<1>2. At(L) \in SUBSET Workers /\ At(L)' \in SUBSET Workers
  BY DEF At
<1>3. CASE x \in L <=> wpc[w] \in L
  <2>1. At(L)' = At(L)
    BY <1>1, <1>3 DEF At
  <2>2. QED
    BY <1>2, <1>3, <2>1, CountingWorkers
<1>4. CASE x \in L /\ wpc[w] \notin L
  <2>1. At(L)' = At(L) \cup {w} /\ w \notin At(L)
    BY <1>1, <1>4 DEF At
  <2>2. QED
    BY <1>2, <1>4, <2>1, CountingWorkers
<1>5. CASE x \notin L /\ wpc[w] \in L
  <2>1. At(L)' = At(L) \ {w} /\ w \in At(L)
    BY <1>1, <1>5 DEF At
  <2>2. QED
    BY <1>2, <1>5, <2>1, CountingWorkers
<1>6. QED
  BY <1>3, <1>4, <1>5

(* What a step of one worker changes.                                      *)
LEMMA RanksMove ==
  ASSUME NEW w \in Workers, NEW x, TypeOK, wpc' = [wpc EXCEPT ![w] = x]
  PROVE  Ranks \in Nat /\ Ranks' \in Nat /\ Ranks' = Ranks + Rank(x) - Rank(wpc[w])
<1> DEFINE L1 == {"none", "woken", "start", "run", "enter", "next"}
           L2 == {"none", "woken", "start", "run"}
           L3 == {"none", "woken"}
           R(label) == (IF label \in L1 THEN 1 ELSE 0) + (IF label \in L2 THEN 1 ELSE 0)
                         + (IF label \in L3 THEN 1 ELSE 0)
<1>1. ASSUME NEW L
      PROVE  /\ Cardinality(At(L)) \in Nat /\ Cardinality(At(L)') \in Nat
             /\ Cardinality(At(L)') = Cardinality(At(L)) + (IF x \in L THEN 1 ELSE 0)
                                        - (IF wpc[w] \in L THEN 1 ELSE 0)
  <2> DEFINE m == Cardinality(At(L))
             n == Cardinality(At(L)')
  <2>1. /\ m \in Nat /\ n \in Nat
        /\ x \in L /\ wpc[w] \in L => n = m
        /\ x \in L /\ wpc[w] \notin L => n = m + 1
        /\ x \notin L /\ wpc[w] \in L => n = m - 1
        /\ x \notin L /\ wpc[w] \notin L => n = m
    BY MoveCounts
  <2> HIDE DEF m, n
  <2>2. n = m + (IF x \in L THEN 1 ELSE 0) - (IF wpc[w] \in L THEN 1 ELSE 0)
    BY <2>1
  <2>3. QED
    BY <2>1, <2>2 DEF m, n
<1>2. \A label : R(label) = Rank(label)
  BY DEF Rank
<1>3. /\ Cardinality(At(L1)) \in Nat /\ Cardinality(At(L1)') \in Nat
      /\ Cardinality(At(L1)') = Cardinality(At(L1)) + (IF x \in L1 THEN 1 ELSE 0)
                                  - (IF wpc[w] \in L1 THEN 1 ELSE 0)
  BY <1>1
<1>4. /\ Cardinality(At(L2)) \in Nat /\ Cardinality(At(L2)') \in Nat
      /\ Cardinality(At(L2)') = Cardinality(At(L2)) + (IF x \in L2 THEN 1 ELSE 0)
                                  - (IF wpc[w] \in L2 THEN 1 ELSE 0)
  BY <1>1
<1>5. /\ Cardinality(At(L3)) \in Nat /\ Cardinality(At(L3)') \in Nat
      /\ Cardinality(At(L3)') = Cardinality(At(L3)) + (IF x \in L3 THEN 1 ELSE 0)
                                  - (IF wpc[w] \in L3 THEN 1 ELSE 0)
  BY <1>1
<1>6. /\ Ranks = Cardinality(At(L1)) + Cardinality(At(L2)) + Cardinality(At(L3))
      /\ Ranks' = Cardinality(At(L1)') + Cardinality(At(L2)') + Cardinality(At(L3)')
  BY DEF Ranks
<1> HIDE DEF L1, L2, L3
<1>7. Ranks' = Ranks + R(x) - R(wpc[w]) /\ Ranks \in Nat /\ Ranks' \in Nat
  BY <1>3, <1>4, <1>5, <1>6
<1>8. QED
  BY <1>2, <1>7

(* The bound is a number, and no worker counts for more than three steps.  *)
Counted ==
  /\ StepsLeft = 2 * Undrawn + Ranks + MainSteps /\ Undrawn \in Nat /\ job_count \in Nat
  /\ Ranks \in Nat /\ Ranks <= 3 * ThreadCount /\ MainSteps \in Nat /\ StepsLeft \in Nat

LEMMA StepsAreCounted ==
  ASSUME IInv
  PROVE  Counted
<1> USE DEF Counted
<1>0. MainSteps \in 0 .. 2
  BY DEF MainSteps
<1>1. StepsLeft = 2 * Undrawn + Ranks + MainSteps /\ Undrawn \in Int
  <2> DEFINE a == Cardinality(At({"none", "woken", "start", "run", "enter", "next"}))
             b == Cardinality(At({"none", "woken", "start", "run"}))
             c == Cardinality(At({"none", "woken"}))
  <2>1. a \in Nat /\ b \in Nat /\ c \in Nat
    BY CountingWorkers DEF At
  <2>2. Undrawn \in Int
    BY SliceAssumption DEF Undrawn, IInv, TypeOK
  <2>3. StepsLeft = 2 * Undrawn + a + b + c + MainSteps /\ Ranks = a + b + c
    BY DEF StepsLeft, Ranks, MainSteps
  <2> HIDE DEF a, b, c
  <2>4. QED
    BY <1>0, <2>1, <2>2, <2>3
<1>2. Ranks \in 0 .. 3 * ThreadCount
  BY CountingWorkers, SliceAssumption DEF Ranks, At
<1>3. current_job \in Nat /\ job_count \in Nat
  BY DEF IInv, TypeOK
<1>4. CASE job_count = 0
  <2>1. Entered \in SUBSET Workers
    BY DEF Entered
  <2>2. current_job <= ThreadCount
    BY <1>4, <2>1, CountingWorkers DEF IInv, Starting
  <2>3. Undrawn >= 0
    BY <1>3, <1>4, <2>2, SliceAssumption DEF Undrawn
  <2>4. QED
    BY <1>0, <1>1, <1>2, <1>3, <2>3
<1>5. CASE job_count > 0
  <2>1. Reporting \in SUBSET Workers /\ finished \in SUBSET (0 .. job_count - 1)
    BY <1>5 DEF Reporting, IInv, Executing
  <2>2. Cardinality(Reporting) \in Nat /\ Cardinality(finished) <= job_count
        /\ Cardinality(finished) \in Nat
    BY <1>3, <2>1, CountingWorkers, Counting
  <2>3. current_job + Cardinality(Reporting) = ThreadCount + Cardinality(finished)
    BY <1>5 DEF IInv, Executing
  <2>4. Undrawn >= 0
    BY <1>3, <2>2, <2>3, SliceAssumption DEF Undrawn
  <2>5. QED
    BY <1>0, <1>1, <1>2, <1>3, <2>4
<1>6. QED
  BY <1>3, <1>4, <1>5

(* The worker's part: it gets nearer to its wait, or draws another job.    *)
LEMMA WorkerGetsOn ==
  ASSUME IInv, NEW w \in Workers, Worker(w)
  PROVE  /\ \/ Ranks' < Ranks /\ Undrawn' = Undrawn
            \/ Ranks' <= Ranks + 1 /\ Undrawn' = Undrawn - 1
         /\ MainSteps' = MainSteps /\ (mpc = "ready" => mpc' = "ready")
         /\ job_count' = job_count
<1>1. /\ TypeOK /\ current_job \in Int /\ job_count \in Int /\ ThreadCount \in Int
      /\ current_job' = current_job /\ job_count' = job_count => Undrawn' = Undrawn
      /\ current_job' = current_job + 1 /\ job_count' = job_count => Undrawn' = Undrawn - 1
  BY SliceAssumption DEF IInv, TypeOK, Undrawn
<1>2. ASSUME NEW x, wpc' = [wpc EXCEPT ![w] = x]
      PROVE  Ranks \in Nat /\ Ranks' \in Nat /\ Ranks' = Ranks + Rank(x) - Rank(wpc[w])
  BY <1>1, <1>2, RanksMove
<1>3. ASSUME NEW job, NEW cur, DrawOrWait(w, job, cur)
      PROVE  /\ Ranks \in Nat /\ Ranks' \in Nat /\ Ranks' <= Ranks + 2 - Rank(wpc[w])
             /\ current_job' = cur
             /\ MainSteps' = MainSteps /\ (mpc = "ready" => mpc' = "ready")
  <2>1. PICK x \in {"blocked", "run"} : wpc' = [wpc EXCEPT ![w] = x]
    BY <1>3 DEF DrawOrWait
  <2>2. Rank(x) <= 2 /\ Rank(x) \in Nat /\ Rank(wpc[w]) \in Nat
    BY DEF Rank
  <2>3. mpc' = mpc \/ (mpc = "parked" /\ mpc' = "woken")
    BY <1>3 DEF DrawOrWait, SignalsLast
  <2>4. MainSteps' = MainSteps /\ (mpc = "ready" => mpc' = "ready")
    BY <2>3 DEF MainSteps
  <2>5. Ranks \in Nat /\ Ranks' \in Nat /\ Ranks' = Ranks + Rank(x) - Rank(wpc[w])
    BY <1>2, <2>1
  <2>6. QED
    BY <1>3, <2>2, <2>4, <2>5 DEF DrawOrWait
<1>4. CASE Start(w)
  <2>1. Ranks \in Nat /\ Ranks' \in Nat /\ Ranks' = Ranks + Rank("enter") - Rank("start")
    BY <1>2, <1>4 DEF Start
  <2>2. QED
    BY <1>1, <1>4, <2>1 DEF Start, shared, Rank, MainSteps
<1>5. CASE Enter(w)
  BY <1>1, <1>3, <1>5 DEF Enter, Rank
<1>6. CASE Resume(w)
  <2>1. CASE done
    BY <1>1, <1>2, <1>6, <2>1 DEF Resume, Rank, MainSteps
  <2>2. CASE ~done
    BY <1>1, <1>3, <1>6, <2>2 DEF Resume, Rank
  <2>3. QED
    BY <2>1, <2>2
<1>7. CASE RunJob(w)
  <2>1. Ranks \in Nat /\ Ranks' \in Nat /\ Ranks' = Ranks + Rank("next") - Rank("run")
    BY <1>2, <1>7 DEF RunJob
  <2>2. QED
    BY <1>1, <1>7, <2>1 DEF RunJob, shared, Rank, MainSteps
<1>8. CASE Draw(w)
  BY <1>1, <1>3, <1>8 DEF Draw, Rank
<1>9. QED
  BY <1>4, <1>5, <1>6, <1>7, <1>8 DEF Worker

(* The steps of main: creating the workers and returning count, and what   *)
(* begins a call has few enough steps ahead.                               *)
LEMMA MainGetsOn ==
  ASSUME IInv, Create \/ ParkAfterInit \/ Unpark \/ Join
  PROVE  /\ Ranks' + MainSteps' < Ranks + MainSteps
         /\ Undrawn' = Undrawn /\ mpc # "ready"
<1>1. TypeOK /\ Ranks \in Nat
  BY StepsAreCounted, SliceAssumption DEF IInv, Counted
<1>2. CASE Create
  <2>1. created \in Workers /\ wpc[created] = "none"
    BY <1>1, <1>2 DEF IInv, Life, TypeOK, Create, Workers
  <2>2. Ranks' = Ranks + Rank("start") - Rank(wpc[created])
    BY <1>1, <1>2, <2>1, RanksMove DEF Create
  <2>3. QED
    BY <1>1, <1>2, <2>1, <2>2 DEF Create, Rank, MainSteps, Undrawn
<1>3. CASE ParkAfterInit \/ Unpark \/ Join
  <2>1. Ranks' = Ranks
    BY <1>3 DEF ParkAfterInit, Unpark, Join, locals, Ranks, At
  <2>2. QED
    BY <1>1, <1>3, <2>1 DEF ParkAfterInit, Unpark, Join, shared, MainSteps, Undrawn
<1>4. QED
  BY <1>2, <1>3

(* However the threads are scheduled, thread_init is over after at most    *)
(* 5 thread_count + 2 steps of all threads, a call of execute() with n     *)
(* jobs after 2 n + 3 thread_count + 1 and thread_free after               *)
(* 3 thread_count + 1; and until then, with NobodyIsStranded, some thread  *)
(* can take one.                                                           *)
StepOfACall ==
  [IF mpc = "ready" /\ mpc' # "ready"
   THEN StepsLeft' <= 3 * ThreadCount + 1 + (IF mpc' = "parked" THEN 2 * job_count' ELSE 0)
   ELSE StepsLeft' \in 0 .. StepsLeft - 1]_vars

THEOREM CallsRunOut == Spec => StepsRunOut
<1>1. ASSUME IInv, Counted, Counted', [Next]_vars
      PROVE  StepOfACall
  <2> USE DEF StepOfACall
  <2>1. /\ StepsLeft = 2 * Undrawn + Ranks + MainSteps /\ Undrawn \in Nat
        /\ Ranks \in Nat /\ Ranks <= 3 * ThreadCount /\ MainSteps \in Nat /\ StepsLeft \in Nat
    BY <1>1 DEF Counted
  <2>2. /\ StepsLeft' = 2 * Undrawn' + Ranks' + MainSteps' /\ Undrawn' \in Nat
        /\ Ranks' \in Nat /\ Ranks' <= 3 * ThreadCount /\ MainSteps' \in Nat /\ StepsLeft' \in Nat
    BY <1>1 DEF Counted
  <2>3. PICK u \in Nat, r \in Nat, m \in Nat, s \in Nat,
             v \in Nat, q \in Nat, n \in Nat, t \in Nat, jobs \in Nat :
             /\ u = Undrawn /\ r = Ranks /\ m = MainSteps /\ s = StepsLeft
             /\ v = Undrawn' /\ q = Ranks' /\ n = MainSteps' /\ t = StepsLeft'
             /\ jobs = job_count'
    <3>1. /\ Undrawn \in Nat /\ Ranks \in Nat /\ MainSteps \in Nat /\ StepsLeft \in Nat
          /\ Undrawn' \in Nat /\ Ranks' \in Nat /\ MainSteps' \in Nat /\ StepsLeft' \in Nat
          /\ job_count' \in Nat
      BY <1>1, <2>1, <2>2 DEF Counted
    <3>2. QED
      BY <3>1, Zenon
  <2>4. s = 2 * u + r + m /\ t = 2 * v + q + n /\ q <= 3 * ThreadCount /\ ThreadCount \in Nat
    BY <2>1, <2>2, <2>3, SliceAssumption
  <2>5. ASSUME NEW w \in Workers, Worker(w)
        PROVE  StepsLeft' \in 0 .. StepsLeft - 1 /\ (mpc = "ready" => mpc' = "ready")
    <3>1. /\ \/ Ranks' < Ranks /\ Undrawn' = Undrawn
             \/ Ranks' <= Ranks + 1 /\ Undrawn' = Undrawn - 1
          /\ MainSteps' = MainSteps /\ (mpc = "ready" => mpc' = "ready")
          /\ job_count' = job_count
      BY <1>1, <2>5, WorkerGetsOn
    <3>2. n = m
      BY <2>3, <3>1, Zenon
    <3> SUFFICES t \in 0 .. s - 1
      BY <2>3, <3>1
    <3>3. CASE Ranks' < Ranks /\ Undrawn' = Undrawn
      <4>1. q < r /\ v = u
        BY <2>3, <3>3, Zenon
      <4>2. QED
        BY <2>4, <3>2, <4>1
    <3>4. CASE Ranks' <= Ranks + 1 /\ Undrawn' = Undrawn - 1
      <4>1. q <= r + 1 /\ v = u - 1
        BY <2>3, <3>4, Zenon
      <4>2. QED
        BY <2>4, <3>2, <4>1
    <3>5. QED
      BY <3>1, <3>3, <3>4
  <2>6. CASE Create \/ ParkAfterInit \/ Unpark \/ Join
    <3>1. /\ Ranks' + MainSteps' < Ranks + MainSteps
          /\ Undrawn' = Undrawn /\ mpc # "ready"
      BY <1>1, <2>6, MainGetsOn
    <3>2. q + n < r + m /\ v = u
      BY <2>3, <3>1
    <3>3. t \in 0 .. s - 1
      BY <2>4, <3>2
    <3>4. QED
      BY <2>3, <3>1, <3>3
  <2>7. CASE Execute \/ Free
    <3>1. mpc = "ready" /\ mpc' # "ready" /\ MainSteps' = 1
      BY <1>1, <2>7 DEF Execute, Free, IInv, Life, MainSteps
    <3>2. /\ current_job' \in Nat
          /\ \/ mpc' = "parked" /\ current_job' = ThreadCount
             \/ mpc' # "parked" /\ current_job' = ThreadCount + job_count'
      <4>1. CASE Execute
        BY <1>1, <4>1, SliceAssumption DEF Execute, IInv, Life
      <4>2. CASE Free /\ job_count > 0
        <5>1. /\ finished = 0 .. job_count - 1 /\ Reporting = {} /\ job_count \in Nat
              /\ current_job + Cardinality(Reporting) = ThreadCount + Cardinality(finished)
              /\ current_job \in Nat
          BY <1>1, <3>1, <4>2 DEF IInv, Executing, TypeOK
        <5>2. Cardinality(finished) = job_count /\ Cardinality(Reporting) = 0
          BY <5>1, SegmentCount, FS_EmptySet
        <5>3. QED
          BY <4>2, <5>1, <5>2, SliceAssumption DEF Free
      <4>3. CASE Free /\ job_count = 0
        <5>1. /\ Entered = Workers /\ current_job = Cardinality(Entered)
              /\ current_job' = current_job /\ job_count' = 0 /\ mpc' = "join"
          BY <1>1, <3>1, <4>3 DEF Free, IInv, Numbers, Starting
        <5>2. Cardinality(Workers) = ThreadCount
          BY SegmentCount, SliceAssumption DEF Workers
        <5>3. QED
          BY <5>1, <5>2, SliceAssumption
      <4>4. QED
        <5>1. job_count \in Nat
          BY <1>1 DEF Counted
        <5>2. QED
          BY <2>7, <4>1, <4>2, <4>3, <5>1
    <3>3. PICK c \in Nat : c = current_job'
      BY <3>2
    <3>4. /\ v = ThreadCount + jobs - c /\ n = 1
          /\ (mpc' = "parked" /\ c = ThreadCount) \/ (mpc' # "parked" /\ c = ThreadCount + jobs)
      BY <2>3, <3>1, <3>2, <3>3 DEF Undrawn
    <3>5. t <= 3 * ThreadCount + 1 + (IF mpc' = "parked" THEN 2 * jobs ELSE 0)
      BY <2>4, <3>4
    <3>6. QED
      BY <2>3, <3>1, <3>5
  <2>8. QED
    BY <1>1, <2>5, <2>6, <2>7 DEF Next
<1>2. IInv => Counted
  BY StepsAreCounted
<1>3. Init => StepsLeft <= 5 * ThreadCount + 2
  <2> SUFFICES ASSUME Init PROVE StepsLeft <= 5 * ThreadCount + 2
    OBVIOUS
  <2>1. /\ StepsLeft = 2 * Undrawn + Ranks + MainSteps
        /\ Ranks \in Nat /\ Ranks <= 3 * ThreadCount
    BY InitInv, StepsAreCounted DEF Counted
  <2>2. MainSteps = 2 /\ Undrawn = ThreadCount
    BY SliceAssumption DEF Init, MainSteps, Undrawn
  <2>3. QED
    BY <2>1, <2>2, SliceAssumption
<1>4. Spec => Init /\ [][Next]_vars
  BY DEF Spec
<1>5. QED
  BY <1>1, <1>2, <1>3, <1>4, InductiveInvariant, PTL DEF StepsRunOut, StepOfACall
==============================================================================
