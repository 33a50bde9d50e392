------------------------------- MODULE W32Cond -------------------------------
(***************************************************************************)
(* The condition variable of libavcodec/w32pthreads.h when the system has  *)
(* no native one (always on the Xbox 360, lines 286-290): two internal     *)
(* critical sections, a counter of waiters, a semaphore that lets waiters  *)
(* go and a manual-reset event by which they tell the waker they have      *)
(* gone.  One action is one system call or one access to the shared fields *)
(* together with the unlock that follows it.  The clients (any number of   *)
(* threads, one external mutex) lock, unlock, wait, signal and broadcast   *)
(* in any order; a signal may be sent with or without the mutex.           *)
(***************************************************************************)
EXTENDS Integers, FiniteSets

CONSTANTS Threads,          \* the threads that use the condition variable
          NoThread          \* "owned by nobody"

ASSUME ThreadsAssumption == IsFiniteSet(Threads) /\ NoThread \notin Threads

VARIABLES
  pc,                       \* the next statement of each thread
  mutex,                    \* owner of the mutex passed to pthread_cond_wait
  mtx_broadcast,            \* owner of win32_cond_t.mtx_broadcast
  mtx_waiter_count,         \* owner of win32_cond_t.mtx_waiter_count
  waiter_count, semaphore, waiters_done, is_broadcast

vars == <<pc, mutex, mtx_broadcast, mtx_waiter_count,
          waiter_count, semaphore, waiters_done, is_broadcast>>

WaitLabels == {"wait_mb", "wait_wc", "wait_inc", "wait_mbo", "wait_unlock",
               "wait_sem", "wake_wc", "wake_dec", "wake_set", "wake_lock"}
SignalLabels == {"sig_mb", "sig_wc", "sig_read", "sig_release", "sig_done",
                 "sig_reset", "sig_mbo"}
BroadcastLabels == {"bc_mb", "bc_wc", "bc_release", "bc_done", "bc_reset",
                    "bc_clear", "bc_mbo"}
Labels == {"out", "in"} \cup WaitLabels \cup SignalLabels \cup BroadcastLabels

MaybeThread == Threads \cup {NoThread}

SleepLabels == {"wait_mbo", "wait_unlock", "wait_sem"}
TakenLabels == {"wake_wc", "wake_dec"}

(* The waiters that have no semaphore unit yet, and all the waiters that   *)
(* waiter_count stands for: counted in, not yet counted out.               *)
Sleeping == {t \in Threads : pc[t] \in SleepLabels}
Counted  == {t \in Threads : pc[t] \in SleepLabels \cup TakenLabels}

TypeOK ==
  /\ pc \in [Threads -> Labels]
  /\ mutex \in MaybeThread
  /\ mtx_broadcast \in MaybeThread
  /\ mtx_waiter_count \in MaybeThread
  /\ waiter_count \in 0 .. Cardinality(Threads)
  /\ semaphore \in 0 .. Cardinality(Threads)
  /\ waiters_done \in BOOLEAN
  /\ is_broadcast \in BOOLEAN

Init ==
  /\ pc = [t \in Threads |-> "out"]
  /\ mutex = NoThread /\ mtx_broadcast = NoThread /\ mtx_waiter_count = NoThread
  /\ waiter_count = 0 /\ semaphore = 0
  /\ waiters_done = FALSE /\ is_broadcast = FALSE

Step(t, from, to) == pc[t] = from /\ pc' = [pc EXCEPT ![t] = to]
Enter(m, t)       == m = NoThread /\ m' = t
Leave(m, t)       == m = t /\ m' = NoThread

fields == <<waiter_count, semaphore, waiters_done, is_broadcast>>

------------------------------------------------------------------------------
(* The client code around the condition variable.                          *)
ClientLock(t) ==
  /\ Step(t, "out", "in") /\ Enter(mutex, t)
  /\ UNCHANGED <<mtx_broadcast, mtx_waiter_count, fields>>

ClientUnlock(t) ==
  /\ Step(t, "in", "out") /\ Leave(mutex, t)
  /\ UNCHANGED <<mtx_broadcast, mtx_waiter_count, fields>>

Call(t) ==
  /\ \/ Step(t, "in", "wait_mb")
     \/ \E from \in {"in", "out"}, to \in {"sig_mb", "bc_mb"} : Step(t, from, to)
  /\ UNCHANGED <<mutex, mtx_broadcast, mtx_waiter_count, fields>>

(* A signal or broadcast returns to where it was called from.              *)
CallerLabel(t) == IF mutex = t THEN "in" ELSE "out"

------------------------------------------------------------------------------
(* The two internal critical sections, entered alike by the three calls.   *)
EnterBroadcast(t) ==
  /\ \/ Step(t, "wait_mb", "wait_wc")
     \/ Step(t, "sig_mb", "sig_wc")
     \/ Step(t, "bc_mb", "bc_wc")
  /\ Enter(mtx_broadcast, t)
  /\ UNCHANGED <<mutex, mtx_waiter_count, fields>>

EnterWaiterCount(t) ==
  /\ \/ Step(t, "wait_wc", "wait_inc")
     \/ Step(t, "wake_wc", "wake_dec")
     \/ Step(t, "sig_wc", "sig_read")
     \/ Step(t, "bc_wc", "bc_release")
  /\ Enter(mtx_waiter_count, t)
  /\ UNCHANGED <<mutex, mtx_broadcast, fields>>

LeaveBroadcast(t) ==
  /\ \/ Step(t, "wait_mbo", "wait_unlock")
     \/ Step(t, "sig_mbo", CallerLabel(t))
     \/ Step(t, "bc_mbo", CallerLabel(t))
  /\ Leave(mtx_broadcast, t)
  /\ UNCHANGED <<mutex, mtx_waiter_count, fields>>

------------------------------------------------------------------------------
(* pthread_cond_wait, lines 225-244.                                       *)
CountIn(t) ==
  /\ Step(t, "wait_inc", "wait_mbo") /\ Leave(mtx_waiter_count, t)
  /\ waiter_count' = waiter_count + 1
  /\ UNCHANGED <<mutex, mtx_broadcast, semaphore, waiters_done, is_broadcast>>

UnlockExternal(t) ==
  /\ Step(t, "wait_unlock", "wait_sem") /\ Leave(mutex, t)
  /\ UNCHANGED <<mtx_broadcast, mtx_waiter_count, fields>>

TakeSemaphore(t) ==
  /\ Step(t, "wait_sem", "wake_wc")
  /\ semaphore > 0 /\ semaphore' = semaphore - 1
  /\ UNCHANGED <<mutex, mtx_broadcast, mtx_waiter_count, waiter_count,
                 waiters_done, is_broadcast>>

(* Forgets that a lone waiter woken by a signal is not the last one.       *)
CountOutLastOnly(t) ==
  /\ Step(t, "wake_dec", IF waiter_count = 1 THEN "wake_set" ELSE "wake_lock")
  /\ Leave(mtx_waiter_count, t)
  /\ waiter_count' = waiter_count - 1
  /\ UNCHANGED <<mutex, mtx_broadcast, semaphore, waiters_done, is_broadcast>>

(* Never counts a waiter out.                                              *)
CountOutNever(t) ==
  /\ Step(t, "wake_dec", "wake_set")
  /\ Leave(mtx_waiter_count, t)
  /\ UNCHANGED <<mutex, mtx_broadcast, fields>>

(* last_waiter = !waiter_count || !is_broadcast, after the decrement.      *)
CountOut(t) ==
  /\ Step(t, "wake_dec",
          IF waiter_count = 1 \/ ~is_broadcast THEN "wake_set" ELSE "wake_lock")
  /\ Leave(mtx_waiter_count, t)
  /\ waiter_count' = waiter_count - 1
  /\ UNCHANGED <<mutex, mtx_broadcast, semaphore, waiters_done, is_broadcast>>

SetDone(t) ==
  /\ Step(t, "wake_set", "wake_lock")
  /\ waiters_done' = TRUE
  /\ UNCHANGED <<mutex, mtx_broadcast, mtx_waiter_count, waiter_count,
                 semaphore, is_broadcast>>

LockExternal(t) ==
  /\ Step(t, "wake_lock", "in") /\ Enter(mutex, t)
  /\ UNCHANGED <<mtx_broadcast, mtx_waiter_count, fields>>

------------------------------------------------------------------------------
(* pthread_cond_signal, lines 247-270.                                     *)
ReadWaiters(t) ==
  /\ Step(t, "sig_read", IF waiter_count # 0 THEN "sig_release" ELSE "sig_mbo")
  /\ Leave(mtx_waiter_count, t)
  /\ UNCHANGED <<mutex, mtx_broadcast, fields>>

ReleaseOne(t) ==
  /\ Step(t, "sig_release", "sig_done")
  /\ semaphore' = semaphore + 1
  /\ UNCHANGED <<mutex, mtx_broadcast, mtx_waiter_count, waiter_count,
                 waiters_done, is_broadcast>>

(* Releases mtx_broadcast before the woken waiter has acknowledged.        *)
WaitDoneBroadcastOnly(t) ==
  /\ \/ Step(t, "sig_done", "sig_reset")
     \/ waiters_done /\ Step(t, "bc_done", "bc_reset")
  /\ UNCHANGED <<mutex, mtx_broadcast, mtx_waiter_count, fields>>

(* Both wakers wait for the event; it stays set until it is reset.         *)
WaitDone(t) ==
  /\ waiters_done
  /\ Step(t, "sig_done", "sig_reset") \/ Step(t, "bc_done", "bc_reset")
  /\ UNCHANGED <<mutex, mtx_broadcast, mtx_waiter_count, fields>>

(* Resets the event for a broadcast only.                                  *)
ResetDoneBroadcastOnly(t) ==
  /\ \/ Step(t, "sig_reset", "sig_mbo") /\ UNCHANGED waiters_done
     \/ Step(t, "bc_reset", "bc_clear") /\ waiters_done' = FALSE
  /\ UNCHANGED <<mutex, mtx_broadcast, mtx_waiter_count, waiter_count,
                 semaphore, is_broadcast>>

ResetDone(t) ==
  /\ Step(t, "sig_reset", "sig_mbo") \/ Step(t, "bc_reset", "bc_clear")
  /\ waiters_done' = FALSE
  /\ UNCHANGED <<mutex, mtx_broadcast, mtx_waiter_count, waiter_count,
                 semaphore, is_broadcast>>

------------------------------------------------------------------------------
(* pthread_cond_broadcast, lines 184-213.                                  *)
ReleaseAll(t) ==
  /\ Step(t, "bc_release", IF waiter_count # 0 THEN "bc_done" ELSE "bc_mbo")
  /\ Leave(mtx_waiter_count, t)
  /\ semaphore' = semaphore + waiter_count
  /\ is_broadcast' = (is_broadcast \/ waiter_count # 0)
  /\ UNCHANGED <<mutex, mtx_broadcast, waiter_count, waiters_done>>

ClearBroadcastForgets(t) ==             \* leaves the broadcast mode on
  /\ Step(t, "bc_clear", "bc_mbo")
  /\ UNCHANGED <<mutex, mtx_broadcast, mtx_waiter_count, fields>>

ClearBroadcast(t) ==
  /\ Step(t, "bc_clear", "bc_mbo")
  /\ is_broadcast' = FALSE
  /\ UNCHANGED <<mutex, mtx_broadcast, mtx_waiter_count, waiter_count,
                 semaphore, waiters_done>>

------------------------------------------------------------------------------
(* What a thread does by itself once it is inside one of the calls.        *)
Internal(t) ==
  \/ EnterBroadcast(t) \/ EnterWaiterCount(t) \/ LeaveBroadcast(t)
  \/ CountIn(t) \/ UnlockExternal(t) \/ TakeSemaphore(t) \/ CountOut(t)
  \/ SetDone(t) \/ LockExternal(t)
  \/ ReadWaiters(t) \/ ReleaseOne(t) \/ WaitDone(t) \/ ResetDone(t)
  \/ ReleaseAll(t) \/ ClearBroadcast(t)

Next == \E t \in Threads :
          ClientLock(t) \/ ClientUnlock(t) \/ Call(t) \/ Internal(t)

Spec == Init /\ [][Next]_vars

(* A thread inside a call is scheduled; nothing is assumed of the clients. *)
FairSpec == Spec /\ \A t \in Threads : WF_vars(Internal(t))

------------------------------------------------------------------------------
(* Between two calls nothing is left over: no semaphore unit that a later  *)
(* waiter could steal, no event that would let a later waker go too early, *)
(* no broadcast mode (lines 209, 253-270 leave it so).                     *)
NothingLeftOver ==
  mtx_broadcast = NoThread => semaphore = 0 /\ ~waiters_done /\ ~is_broadcast

(* The semaphore never holds more units than there are waiters still to    *)
(* take one, so no unit is left for a thread that starts to wait after the *)
(* call that released it (lines 205, 264).                                 *)
UnitsHaveTakers == semaphore <= Cardinality(Sleeping)

(* A waker that holds mtx_broadcast gets out of its call: the waiter it    *)
(* let go always sets the event it waits for (lines 207, 265).             *)
WakerReturns ==
  \A t \in Threads :
    pc[t] \in {"sig_release", "sig_done", "bc_done"} ~> pc[t] \in {"in", "out"}

(* Which threads can go on in their call without the clients' mutex: the   *)
(* internal section, the unit or the event they need next is there.        *)
CanStep(t) ==
  \/ pc[t] \in {"wait_mb", "sig_mb", "bc_mb"} /\ mtx_broadcast = NoThread
  \/ pc[t] \in {"wait_wc", "wake_wc", "sig_wc", "bc_wc"} /\ mtx_waiter_count = NoThread
  \/ pc[t] = "wait_sem" /\ semaphore > 0
  \/ pc[t] \in {"sig_done", "bc_done"} /\ waiters_done
  \/ pc[t] \in {"wait_inc", "wait_mbo", "wait_unlock", "wake_dec", "wake_set", "sig_read",
                "sig_release", "sig_reset", "sig_mbo", "bc_release", "bc_reset", "bc_clear",
                "bc_mbo"}

(* The calls do not block each other, although one that wants to wait      *)
(* takes mtx_broadcast with the clients' mutex held (line 225), a waker    *)
(* keeps it until its waiter has answered, and waiters and wakers share    *)
(* mtx_waiter_count: as long as any call is waiting for something else     *)
(* than a wake-up or the clients' mutex, one of them can go on, whatever   *)
(* the clients do.                                                         *)
CallsGoOn ==
  (\E t \in Threads : pc[t] \notin {"in", "out", "wait_sem", "wake_lock"}) =>
    \E t \in Threads : CanStep(t)

------------------------------------------------------------------------------
(* The strengthening of the invariants that is inductive: who owns which   *)
(* critical section, whom waiter_count counts, and how far the handshake   *)
(* between the waker in progress (if any) and its waiters has got.         *)
HoldsBroadcast   == {"wait_wc", "wait_inc", "wait_mbo"}
                    \cup (SignalLabels \ {"sig_mb"}) \cup (BroadcastLabels \ {"bc_mb"})
HoldsWaiterCount == {"wait_inc", "wake_dec", "sig_read", "bc_release"}
HoldsMutex       == {"in", "wait_mb", "wait_wc", "wait_inc", "wait_mbo", "wait_unlock"}
MayHoldMutex     == HoldsMutex \cup SignalLabels \cup BroadcastLabels

Ownership ==
  \A t \in Threads :
    /\ mtx_broadcast = t <=> pc[t] \in HoldsBroadcast
    /\ mtx_waiter_count = t <=> pc[t] \in HoldsWaiterCount
    /\ pc[t] \in HoldsMutex => mutex = t
    /\ mutex = t => pc[t] \in MayHoldMutex

Counting ==
  /\ waiter_count = Cardinality(Counted)
  /\ \A t \in Threads : pc[t] = "sig_release" => Sleeping # {}

(* A thread that took a unit and has not set the event.                    *)
Leaving(t) == pc[t] \in TakenLabels \cup {"wake_set"}
NoneLeaving == \A t \in Threads : ~Leaving(t)

Waking == {"sig_done", "sig_reset", "bc_done", "bc_reset", "bc_clear"}

NoWaker ==
  (\A t \in Threads : pc[t] \notin Waking) =>
     semaphore = 0 /\ ~waiters_done /\ ~is_broadcast /\ NoneLeaving

SignalHandshake ==
  (\E t \in Threads : pc[t] = "sig_done") =>
     /\ ~is_broadcast
     /\ \/ semaphore = 1 /\ ~waiters_done /\ NoneLeaving /\ Sleeping # {}
        \/ /\ semaphore = 0 /\ ~waiters_done
           /\ \E u \in Threads : Leaving(u) /\ \A v \in Threads \ {u} : ~Leaving(v)
        \/ semaphore = 0 /\ waiters_done /\ NoneLeaving

BroadcastHandshake ==
  (\E t \in Threads : pc[t] = "bc_done") =>
     /\ is_broadcast /\ semaphore = Cardinality(Sleeping)
     /\ \/ /\ waiter_count > 0 /\ ~waiters_done
           /\ \A u \in Threads : pc[u] # "wake_set"
        \/ /\ waiter_count = 0 /\ ~waiters_done
           /\ \E u \in Threads : pc[u] = "wake_set" /\ \A v \in Threads \ {u} : ~Leaving(v)
        \/ waiter_count = 0 /\ waiters_done /\ NoneLeaving

ResetHandshake ==
  \A t \in Threads :
    pc[t] \in {"sig_reset", "bc_reset", "bc_clear"} =>
      /\ semaphore = 0 /\ NoneLeaving
      /\ waiters_done <=> pc[t] # "bc_clear"
      /\ is_broadcast <=> pc[t] # "sig_reset"
      /\ pc[t] # "sig_reset" => waiter_count = 0

IInv == /\ TypeOK /\ Ownership /\ Counting
        /\ NoWaker /\ SignalHandshake /\ BroadcastHandshake /\ ResetHandshake

------------------------------------------------------------------------------
(* The condition variable this implements.  A wait takes effect when the   *)
(* waiter is counted, a broadcast when the units are released, a signal    *)
(* when its unit is taken.                                                 *)
AbstractLoc(t) ==
  CASE pc[t] \in {"wait_mbo", "wait_unlock", "wait_sem"} ->
         IF is_broadcast THEN "woken" ELSE "blocked"
    [] pc[t] \in {"wake_wc", "wake_dec", "wake_set", "wake_lock"} -> "woken"
    [] OTHER -> IF mutex = t THEN "in" ELSE "out"

AbstractCall(t) ==
  CASE pc[t] \in {"sig_mb", "sig_wc", "sig_read", "sig_release"} -> "signal"
    [] pc[t] = "sig_done" -> IF semaphore = 0 THEN "done" ELSE "signal"
    [] pc[t] \in {"bc_mb", "bc_wc", "bc_release"} -> "broadcast"
    [] pc[t] \in {"sig_reset", "sig_mbo", "bc_done", "bc_reset", "bc_clear", "bc_mbo"} -> "done"
    [] OTHER -> "none"

Abstract == INSTANCE CondVar WITH
  loc  <- [t \in Threads |-> AbstractLoc(t)],
  call <- [t \in Threads |-> AbstractCall(t)]

(* Every behaviour of the emulation is one of the condition variable: no   *)
(* lost, stolen or spurious wake-up.                                       *)
ImplementsCondVar == Abstract!Spec
==============================================================================
