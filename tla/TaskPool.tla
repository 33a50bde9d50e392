------------------------------- MODULE TaskPool -------------------------------
(***************************************************************************)
(* What AVCodecContext.execute and execute2 promise to a codec             *)
(* (avcodec.h:2472-2498): a call with n jobs has each of the jobs 0 .. n-1 *)
(* done once, each under a thread number that no other job has meanwhile,  *)
(* and returns when all of them are over; the pool is closed between two   *)
(* calls.  Which thread does which job, and when, is left open.            *)
(***************************************************************************)
EXTENDS Integers

CONSTANTS Threads,          \* the thread numbers
          MaxJobs           \* bound on the jobs of a call

VARIABLES call,             \* "in" one, "out" of any, or "closed"
          todo,             \* jobs of the call that have not begun
          running           \* the job under way, if any, of each thread number

vars == <<call, todo, running>>

(* The pool is made by a call that has no jobs.                            *)
Init == call = "in" /\ todo = {} /\ running = [k \in Threads |-> {}]

Execute ==
  /\ call = "out" /\ call' = "in"
  /\ \E n \in 1 .. MaxJobs : todo' = 0 .. n - 1
  /\ UNCHANGED running

Begin(k, job) ==
  /\ job \in todo /\ running[k] = {}
  /\ todo' = todo \ {job}
  /\ running' = [running EXCEPT ![k] = {job}]
  /\ UNCHANGED call

End(k) ==
  /\ running[k] # {}
  /\ running' = [running EXCEPT ![k] = {}]
  /\ UNCHANGED <<call, todo>>

Return ==
  /\ call = "in" /\ todo = {} /\ \A k \in Threads : running[k] = {}
  /\ call' = "out"
  /\ UNCHANGED <<todo, running>>

Close == call = "out" /\ call' = "closed" /\ UNCHANGED <<todo, running>>

Next ==
  \/ Execute \/ Return \/ Close
  \/ \E k \in Threads : End(k) \/ \E job \in todo : Begin(k, job)

Spec == Init /\ [][Next]_vars
==============================================================================
