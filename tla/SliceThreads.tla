----------------------------- MODULE SliceThreads -----------------------------
(***************************************************************************)
(* The slice-threading pool of libavcodec/pthread.c (lines 67-82, 192-343):*)
(* a codec thread ("main") that creates the workers, hands them the jobs   *)
(* of one execute() call at a time and waits for the last, and workers     *)
(* that draw jobs from a shared counter.  One critical section under       *)
(* current_job_lock is one action: nothing inside it blocks except the     *)
(* wait that ends it.  The lock is held across actions only while          *)
(* thread_init creates the workers.  A condition variable is the set of    *)
(* threads blocked on it (module CondVar).  Spec is the pool when every    *)
(* thread can be created and waits end only by a signal; the variants at   *)
(* the end add what the code meets elsewhere: wake-ups without a signal,   *)
(* which POSIX allows and W32Cond rules out, and a pthread_create that     *)
(* fails.                                                                  *)
(***************************************************************************)
EXTENDS Integers, FiniteSets

CONSTANTS ThreadCount,      \* avctx->thread_count, after thread_init chose it
          MaxJobs           \* bound on job_count

ASSUME SliceAssumption ==
  /\ ThreadCount \in Nat /\ ThreadCount >= 2
  /\ MaxJobs \in Nat \ {0}

Workers == 0 .. ThreadCount - 1
Jobs    == 0 .. MaxJobs - 1

VARIABLES
  mpc,                      \* where main is
  created,                  \* workers created so far
  thread_count,             \* avctx->thread_count
  current_job, job_count, done,
  wpc,                      \* where each worker is
  our_job, self_id,         \* its locals
  expected,                 \* its local copy of thread_count
  finished                  \* jobs of the present execute() that have returned

vars == <<mpc, created, thread_count, current_job, job_count, done,
          wpc, our_job, self_id, expected, finished>>

MainLabels   == {"init", "parked", "woken", "ready", "failed", "join", "freed"}
WorkerLabels == {"none", "start", "enter", "blocked", "woken", "run", "next", "exited"}

TypeOK ==
  /\ mpc \in MainLabels
  /\ created \in 0 .. ThreadCount
  /\ thread_count \in 0 .. ThreadCount
  /\ current_job \in 0 .. ThreadCount + MaxJobs
  /\ job_count \in 0 .. MaxJobs
  /\ done \in BOOLEAN
  /\ wpc \in [Workers -> WorkerLabels]
  /\ our_job \in [Workers -> 0 .. ThreadCount + MaxJobs]
  /\ self_id \in [Workers -> Workers]
  /\ expected \in [Workers -> 0 .. ThreadCount]
  /\ finished \subseteq Jobs

Init ==
  /\ mpc = "init" /\ created = 0 /\ thread_count = ThreadCount
  /\ current_job = 0 /\ job_count = 0 /\ done = FALSE
  /\ wpc = [w \in Workers |-> "none"]
  /\ our_job = [w \in Workers |-> 0]
  /\ self_id = [w \in Workers |-> 0]
  /\ expected = [w \in Workers |-> 0]
  /\ finished = {}

LockFree == mpc # "init"

shared == <<created, thread_count, current_job, job_count, done>>
locals == <<wpc, our_job, self_id, expected>>

------------------------------------------------------------------------------
(* thread_init, lines 328-337: create the workers, then park.              *)
Create ==
  /\ mpc = "init" /\ created < ThreadCount
  /\ created' = created + 1
  /\ wpc' = [wpc EXCEPT ![created] = "start"]
  /\ UNCHANGED <<mpc, thread_count, current_job, job_count, done,
                 our_job, self_id, expected, finished>>

ParkAfterInit ==
  /\ mpc = "init" /\ created = ThreadCount
  /\ mpc' = "parked"
  /\ UNCHANGED <<shared, locals, finished>>

(* The return from the wait in avcodec_thread_park_workers, lines 225-229. *)
Unpark ==
  /\ mpc = "woken"
  /\ mpc' = "ready"
  /\ UNCHANGED <<shared, locals, finished>>

(* avcodec_thread_execute, lines 256-280: publish the jobs, wake everybody *)
(* and park.                                                               *)
Woken(pcs) == [w \in Workers |-> IF pcs[w] = "blocked" THEN "woken" ELSE pcs[w]]

(* Publishes the jobs without restarting the counter.                      *)
ExecuteNoRestart ==
  /\ mpc = "ready"
  /\ \E n \in 1 .. MaxJobs : job_count' = n
  /\ wpc' = Woken(wpc)
  /\ finished' = {}
  /\ mpc' = "parked"
  /\ UNCHANGED <<created, thread_count, current_job, done, our_job, self_id, expected>>

Execute ==
  /\ mpc = "ready"
  /\ \E n \in 1 .. MaxJobs : job_count' = n
  /\ current_job' = thread_count
  /\ wpc' = Woken(wpc)
  /\ finished' = {}
  /\ mpc' = "parked"
  /\ UNCHANGED <<created, thread_count, done, our_job, self_id, expected>>

(* thread_free, lines 231-249.                                             *)
FreeNoBroadcast ==                  \* sets done without waking the workers
  /\ mpc \in {"ready", "failed"}
  /\ done' = TRUE
  /\ mpc' = "join"
  /\ UNCHANGED <<created, thread_count, current_job, job_count, locals, finished>>

Free ==
  /\ mpc \in {"ready", "failed"}
  /\ done' = TRUE
  /\ wpc' = Woken(wpc)
  /\ mpc' = "join"
  /\ UNCHANGED <<created, thread_count, current_job, job_count,
                 our_job, self_id, expected, finished>>

Join ==
  /\ mpc = "join"
  /\ \A w \in 0 .. thread_count - 1 : wpc[w] = "exited"
  /\ mpc' = "freed"
  /\ UNCHANGED <<shared, locals, finished>>

------------------------------------------------------------------------------
(* worker, lines 192-198: what it reads before it takes the lock.          *)
Start(w) ==
  /\ wpc[w] = "start"
  /\ our_job'  = [our_job EXCEPT ![w] = job_count]
  /\ expected' = [expected EXCEPT ![w] = thread_count]
  /\ wpc' = [wpc EXCEPT ![w] = "enter"]
  /\ UNCHANGED <<mpc, shared, self_id, finished>>

(* Lines 202-219 with the lock held, from the test of the inner loop to    *)
(* the wait or to the unlock before the job: cur is current_job by then.   *)
SignalsLastNoOffset(w, cur) == mpc = "parked" /\ cur = job_count   \* forgets the offset

SignalsLast(w, cur) == mpc = "parked" /\ cur = expected[w] + job_count

DrawOrWait(w, job, cur) ==
  /\ our_job' = [our_job EXCEPT ![w] = job]
  /\ current_job' = cur
  /\ IF job >= job_count
     THEN /\ wpc' = [wpc EXCEPT ![w] = "blocked"]
          /\ mpc' = IF SignalsLast(w, cur) THEN "woken" ELSE mpc
     ELSE /\ wpc' = [wpc EXCEPT ![w] = "run"]
          /\ UNCHANGED mpc

Enter(w) ==
  /\ wpc[w] = "enter" /\ LockFree
  /\ self_id' = [self_id EXCEPT ![w] = current_job]
  /\ DrawOrWait(w, our_job[w], current_job + 1)
  /\ UNCHANGED <<created, thread_count, job_count, done, expected, finished>>

Resume(w) ==
  /\ wpc[w] = "woken" /\ LockFree
  /\ IF done
     THEN /\ wpc' = [wpc EXCEPT ![w] = "exited"]
          /\ our_job' = [our_job EXCEPT ![w] = self_id[w]]
          /\ UNCHANGED <<mpc, current_job>>
     ELSE DrawOrWait(w, self_id[w], current_job)
  /\ UNCHANGED <<created, thread_count, job_count, done, self_id, expected, finished>>

(* Lines 217-221: the job runs outside the lock; then draw the next one.   *)
RunJob(w) ==
  /\ wpc[w] = "run"
  /\ wpc' = [wpc EXCEPT ![w] = "next"]
  /\ finished' = finished \cup {our_job[w]}
  /\ UNCHANGED <<mpc, shared, our_job, self_id, expected>>

(* Reads the counter but lets the next worker read the same value.         *)
DrawSame(w) ==
  /\ wpc[w] = "next" /\ LockFree
  /\ DrawOrWait(w, current_job, current_job)
  /\ UNCHANGED <<created, thread_count, job_count, done, self_id, expected, finished>>

Draw(w) ==
  /\ wpc[w] = "next" /\ LockFree
  /\ DrawOrWait(w, current_job, current_job + 1)
  /\ UNCHANGED <<created, thread_count, job_count, done, self_id, expected, finished>>

Worker(w) == Start(w) \/ Enter(w) \/ Resume(w) \/ RunJob(w) \/ Draw(w)

Next ==
  \/ Create \/ ParkAfterInit \/ Unpark \/ Execute \/ Free \/ Join
  \/ \E w \in Workers : Worker(w)

Spec == Init /\ [][Next]_vars

(* Every created thread is scheduled, jobs return, and main finishes what  *)
(* it is inside of; whether it calls again is up to the codec.             *)
Fairness == /\ \A w \in Workers : WF_vars(Worker(w))
            /\ WF_vars(Create \/ ParkAfterInit \/ Unpark \/ Join)
            /\ WF_vars(mpc = "failed" /\ Free)

FairSpec == Spec /\ Fairness

(* Lines 331-334: pthread_create fails, thread_count becomes the number of *)
(* workers that exist, and the pool is freed.                              *)
CreateFails ==
  /\ mpc = "init" /\ created < ThreadCount
  /\ mpc' = "failed" /\ thread_count' = created
  /\ UNCHANGED <<created, current_job, job_count, done, locals, finished>>

FailingSpec == Init /\ [][Next \/ CreateFails]_vars /\ Fairness

(* Wake-ups without a signal: neither wait is in a loop that would notice  *)
(* (line 227; lines 207-208 overwrite the condition the loop tests).       *)
SpuriousMain ==
  /\ mpc = "parked" /\ mpc' = "woken"
  /\ UNCHANGED <<shared, locals, finished>>

SpuriousWorker(w) ==
  /\ wpc[w] = "blocked"
  /\ wpc' = [wpc EXCEPT ![w] = "woken"]
  /\ UNCHANGED <<mpc, shared, our_job, self_id, expected, finished>>

SpuriousSpec == Init /\ [][Next \/ SpuriousMain \/ \E w \in Workers : SpuriousWorker(w)]_vars

------------------------------------------------------------------------------
Running(w) == wpc[w] = "run"

(* execute() "will return only after finishing all tasks" (avcodec.h:2474, *)
(* 2485): when main runs again, every job of the call has returned, and no *)
(* worker still runs one (rets may point into the caller's frame, line     *)
(* 272) or has yet to report one.                                          *)
AllTasksDone ==
  mpc \in {"ready", "join", "freed"} =>
    /\ finished = 0 .. job_count - 1
    /\ \A w \in Workers : wpc[w] \notin {"run", "next"}

(* No job is run twice, by two workers or by one again (avcodec.h:2493),   *)
(* although first jobs are taken by worker number (line 208) and later     *)
(* ones from the counter (line 221).                                       *)
NoJobTwice ==
  \A w \in Workers : Running(w) =>
    /\ our_job[w] \in (0 .. job_count - 1) \ finished
    /\ \A v \in Workers \ {w} : Running(v) => our_job[v] # our_job[w]

(* "no two instances of func executing at the same time will have the same *)
(* threadnr", which is below thread_count (avcodec.h:2494-2495).           *)
ThreadNumbersDistinct ==
  \A w \in Workers : Running(w) =>
    /\ self_id[w] < thread_count
    /\ \A v \in Workers \ {w} : Running(v) => self_id[v] # self_id[w]

(* All of these at once: the pool implements TaskPool, where a job is one  *)
(* that has not begun, or in the hands of one thread number, or over, and  *)
(* a call returns when all are over.                                       *)
Calling ==
  IF mpc = "ready" THEN "out" ELSE IF mpc \in {"join", "freed"} THEN "closed" ELSE "in"
Todo ==
  {j \in Jobs : /\ j < job_count /\ j \notin finished
                /\ \A w \in Workers : Running(w) => our_job[w] # j}
JobsOf(k) == {our_job[w] : w \in {v \in Workers : Running(v) /\ self_id[v] = k}}
Tasks == INSTANCE TaskPool WITH
  Threads <- Workers, call <- Calling, todo <- Todo, running <- [k \in Workers |-> JobsOf(k)]
ImplementsTaskPool == Tasks!Spec

(* The call of execute() (and of thread_init) returns: the last worker to  *)
(* find nothing left to draw wakes main (lines 203-205, 227).              *)
ExecuteReturns == mpc = "parked" ~> mpc = "ready"

(* thread_free joins every worker (lines 236-242).                         *)
FreeReturns == mpc = "join" ~> mpc = "freed"

(* Both calls of the pool return.                                          *)
CallsReturn == ExecuteReturns /\ FreeReturns

(* No wake-up is missed, the safety behind both: while main sleeps in      *)
(* execute() or thread_init some worker still has a step to take, and no   *)
(* worker sleeps when main joins the workers.                              *)
NobodyStranded ==
  /\ mpc = "parked" => \E w \in Workers : wpc[w] \in {"start", "enter", "woken", "run", "next"}
  /\ mpc = "join" => \A w \in Workers : wpc[w] # "blocked"
(* However the threads are scheduled every call returns, although workers *)
(* come back to the same wait (lines 203-215): all the threads together    *)
(* take at most five steps for each worker and two of main in thread_init, *)
(* three for each worker, one of main and two for each job in execute(),   *)
(* and as many without jobs in thread_free.  StepsLeft is no more than     *)
(* that when a call begins and goes down with every other step.            *)
At(labels) == {w \in Workers : wpc[w] \in labels}
Undrawn == ThreadCount + job_count - current_job
StepsLeft ==
  2 * Undrawn
    + Cardinality(At({"none", "woken", "start", "run", "enter", "next"}))
    + Cardinality(At({"none", "woken", "start", "run"}))
    + Cardinality(At({"none", "woken"}))
    + (IF mpc = "init" THEN 2 ELSE IF mpc \in {"parked", "woken", "join"} THEN 1 ELSE 0)
StepsRunOut ==
  /\ StepsLeft <= 5 * ThreadCount + 2
  /\ [][IF mpc = "ready" /\ mpc' # "ready"
        THEN StepsLeft' <= 3 * ThreadCount + 1 + (IF mpc' = "parked" THEN 2 * job_count' ELSE 0)
        ELSE StepsLeft' \in 0 .. StepsLeft - 1]_vars

------------------------------------------------------------------------------
(* The inductive strengthening of the invariants.  Everything rests on the *)
(* meaning of the counter: while the pool starts, current_job counts the   *)
(* workers that have a number; during an execute() it is ahead of          *)
(* thread_count by the jobs that have been finished and reported.          *)
Entered   == {w \in Workers : wpc[w] \notin {"none", "start", "enter"}}
Reporting == {w \in Workers : wpc[w] = "next"}
Busy(w)   == wpc[w] \in {"run", "next"}

Life ==
  /\ mpc # "failed" /\ thread_count = ThreadCount
  /\ mpc = "init" => job_count = 0 /\ \A w \in Workers : w >= created => wpc[w] = "none"
  /\ done <=> mpc \in {"join", "freed"}
  /\ \A w \in Workers : wpc[w] = "exited" => done

Numbers ==
  /\ \A w \in Workers : wpc[w] = "enter" => our_job[w] = 0
  /\ \A w \in Workers : wpc[w] \notin {"none", "start"} => expected[w] = ThreadCount
  /\ \A v, w \in Entered : v # w => self_id[v] # self_id[w]
  /\ (job_count > 0 \/ mpc \notin {"init", "parked"}) => Entered = Workers

Starting ==
  job_count = 0 =>
    /\ finished = {} /\ \A w \in Workers : ~Busy(w)
    /\ current_job = Cardinality(Entered)
    /\ \A w \in Entered : self_id[w] < current_job

Executing ==
  job_count > 0 =>
    /\ current_job >= ThreadCount
    /\ current_job + Cardinality(Reporting) = ThreadCount + Cardinality(finished)
    /\ finished \subseteq 0 .. job_count - 1
    /\ \A j \in finished : j < current_job
    /\ mpc # "parked" => finished = 0 .. job_count - 1 /\ Reporting = {}

FirstJobs ==
  job_count > 0 /\ ~done =>
    \A w \in Workers : wpc[w] = "woken" => self_id[w] \notin finished

JobsHeld ==
  \A w \in Workers : Busy(w) =>
    /\ our_job[w] < job_count
    /\ our_job[w] \in finished <=> wpc[w] = "next"
    /\ our_job[w] = self_id[w] \/ our_job[w] \in ThreadCount .. current_job - 1
    /\ \A v \in Workers \ {w} : Busy(v) => our_job[v] # our_job[w]

(* A job below the counter that has not returned is in somebody's hands:   *)
(* it is running, or it is the first job of a worker that is waking up.    *)
Holds(w, j) == (Busy(w) /\ our_job[w] = j) \/ (wpc[w] = "woken" /\ self_id[w] = j)

NumbersTaken ==
  \A i \in Workers : (job_count > 0 \/ i < current_job) => \E w \in Entered : self_id[w] = i

Awake ==
  /\ mpc = "init" => current_job = 0
  /\ \A w \in Workers : wpc[w] = "none" => mpc = "init" /\ w >= created
  /\ mpc = "parked" => current_job < ThreadCount + job_count
  /\ done => \A w \in Workers : wpc[w] \in {"woken", "exited"}

NoJobLost ==
  mpc = "parked" /\ job_count > 0 =>
    /\ \A w \in Workers : wpc[w] = "blocked" => current_job >= job_count
    /\ \A j \in 0 .. job_count - 1 :
         j < current_job => j \in finished \/ \E w \in Workers : Holds(w, j)

IInv == TypeOK /\ Life /\ Numbers /\ Starting /\ Executing /\ FirstJobs /\ JobsHeld

(* What IInv needs besides to be told that nobody is stranded.             *)
Progress == NumbersTaken /\ Awake /\ NoJobLost
==============================================================================
