------------------------------- MODULE CondVar -------------------------------
(***************************************************************************)
(* What the codec threads rely on when they call pthread_cond_wait,        *)
(* pthread_cond_signal and pthread_cond_broadcast: a condition variable    *)
(* with one mutex, in which a signal wakes exactly one blocked thread (if  *)
(* there is one), a broadcast wakes all of them, and nobody wakes up       *)
(* without one.  The last point is more than POSIX promises; the parking   *)
(* wait of libavcodec/pthread.c (line 227) needs it.                       *)
(***************************************************************************)
CONSTANT Threads            \* the threads that share the condition variable

VARIABLES
  loc,                      \* where each thread is with respect to the mutex
  call                      \* the signal or broadcast a thread is executing

vars == <<loc, call>>

Locations == {"out", "in", "blocked", "woken"}
Calls     == {"none", "signal", "broadcast", "done"}

TypeOK ==
  /\ loc  \in [Threads -> Locations]
  /\ call \in [Threads -> Calls]

Init ==
  /\ loc  = [t \in Threads |-> "out"]
  /\ call = [t \in Threads |-> "none"]

Blocked   == {t \in Threads : loc[t] = "blocked"}
MutexFree == \A t \in Threads : loc[t] # "in"

(* Taking, releasing and retaking the mutex.                               *)
Lock(t) ==
  /\ loc[t] = "out" /\ call[t] = "none" /\ MutexFree
  /\ loc' = [loc EXCEPT ![t] = "in"]
  /\ UNCHANGED call

Unlock(t) ==
  /\ loc[t] = "in" /\ call[t] = "none"
  /\ loc' = [loc EXCEPT ![t] = "out"]
  /\ UNCHANGED call

(* pthread_cond_wait: the mutex is released and the thread blocked in one  *)
(* step; the call ends when the woken thread has the mutex again.          *)
Wait(t) ==
  /\ loc[t] = "in" /\ call[t] = "none"
  /\ loc' = [loc EXCEPT ![t] = "blocked"]
  /\ UNCHANGED call

Reacquire(t) ==
  /\ loc[t] = "woken" /\ MutexFree
  /\ loc' = [loc EXCEPT ![t] = "in"]
  /\ UNCHANGED call

(* A signal or a broadcast is called, takes effect at one instant, and     *)
(* returns; the caller may or may not hold the mutex.                      *)
Begin(t, kind) ==
  /\ loc[t] \in {"out", "in"} /\ call[t] = "none"
  /\ call' = [call EXCEPT ![t] = kind]
  /\ UNCHANGED loc

Signal(t) ==
  /\ call[t] = "signal"
  /\ call' = [call EXCEPT ![t] = "done"]
  /\ \/ Blocked = {} /\ UNCHANGED loc
     \/ \E u \in Blocked : loc' = [loc EXCEPT ![u] = "woken"]

Broadcast(t) ==
  /\ call[t] = "broadcast"
  /\ call' = [call EXCEPT ![t] = "done"]
  /\ loc' = [u \in Threads |-> IF u \in Blocked THEN "woken" ELSE loc[u]]

Return(t) ==
  /\ call[t] = "done"
  /\ call' = [call EXCEPT ![t] = "none"]
  /\ UNCHANGED loc

Next ==
  \E t \in Threads :
    \/ Lock(t) \/ Unlock(t) \/ Wait(t) \/ Reacquire(t)
    \/ \E kind \in {"signal", "broadcast"} : Begin(t, kind)
    \/ Signal(t) \/ Broadcast(t) \/ Return(t)

Spec == Init /\ [][Next]_vars
==============================================================================
