---------------------------- MODULE W32CondProofs ----------------------------
(***************************************************************************)
(* Proofs about the emulated condition variable, for any finite set of     *)
(* threads: the inductive invariant, that its calls do not block each      *)
(* other, and that the emulation implements CondVar.                       *)
(***************************************************************************)
EXTENDS W32Cond, FiniteSetTheorems, TLAPS

(* Sets of threads are finite, and counting one in or out changes the      *)
(* cardinality by one.                                                     *)
LEMMA CardinalityFacts ==
  ASSUME NEW S \in SUBSET Threads
  PROVE  /\ IsFiniteSet(S)
         /\ Cardinality(S) \in Nat
         /\ Cardinality(S) <= Cardinality(Threads)
         /\ Cardinality(S) = 0 <=> S = {}
         /\ \A t \in Threads : t \notin S => Cardinality(S \cup {t}) = Cardinality(S) + 1
         /\ \A t \in S : Cardinality(S \ {t}) = Cardinality(S) - 1
<1>1. IsFiniteSet(S) /\ Cardinality(S) <= Cardinality(Threads)
  BY ThreadsAssumption, FS_Subset
<1>2. Cardinality(S) \in Nat
  BY <1>1, FS_CardinalityType
<1>3. Cardinality(S) = 0 <=> S = {}
  BY <1>1, FS_EmptySet
<1>4. ASSUME NEW t \in Threads, t \notin S
      PROVE  Cardinality(S \cup {t}) = Cardinality(S) + 1
  BY <1>1, <1>4, FS_AddElement
<1>5. ASSUME NEW t \in S
      PROVE  Cardinality(S \ {t}) = Cardinality(S) - 1
  BY <1>1, FS_RemoveElement
<1>6. QED
  BY <1>1, <1>2, <1>3, <1>4, <1>5

------------------------------------------------------------------------------
(* The owners of the two internal critical sections and of the external    *)
(* mutex are where the labels say.                                         *)
LEMMA OwnershipStep ==
  ASSUME TypeOK, Ownership, Next
  PROVE  Ownership'
<1> USE ThreadsAssumption DEF TypeOK, Ownership, Step, Enter, Leave, MaybeThread,
        HoldsBroadcast, HoldsWaiterCount, HoldsMutex, MayHoldMutex, fields,
        Labels, WaitLabels, SignalLabels, BroadcastLabels
<1>1. PICK t \in Threads :
        ClientLock(t) \/ ClientUnlock(t) \/ Call(t) \/ Internal(t)
  BY DEF Next
<1>2. CASE ClientLock(t)
  BY <1>2 DEF ClientLock
<1>3. CASE ClientUnlock(t)
  BY <1>3 DEF ClientUnlock
<1>4. CASE Call(t)
  BY <1>4 DEF Call
<1>5. CASE EnterBroadcast(t)
  BY <1>5 DEF EnterBroadcast
<1>6. CASE EnterWaiterCount(t)
  BY <1>6 DEF EnterWaiterCount
<1>7. CASE LeaveBroadcast(t)
  BY <1>7 DEF LeaveBroadcast, CallerLabel
<1>8. CASE CountIn(t) \/ UnlockExternal(t) \/ TakeSemaphore(t) \/ CountOut(t)
  BY <1>8 DEF CountIn, UnlockExternal, TakeSemaphore, CountOut
<1>9. CASE SetDone(t) \/ LockExternal(t) \/ ReadWaiters(t) \/ ReleaseOne(t)
  BY <1>9 DEF SetDone, LockExternal, ReadWaiters, ReleaseOne
<1>10. CASE WaitDone(t) \/ ResetDone(t) \/ ReleaseAll(t) \/ ClearBroadcast(t)
  BY <1>10 DEF WaitDone, ResetDone, ReleaseAll, ClearBroadcast
<1>11. QED
  BY <1>1, <1>2, <1>3, <1>4, <1>5, <1>6, <1>7, <1>8, <1>9, <1>10 DEF Internal

(* At most one thread is inside the part of a call that mtx_broadcast      *)
(* protects, so at most one is handing over a wake-up.                     *)
LEMMA OneWaker ==
  ASSUME Ownership, NEW t \in Threads, pc[t] \in HoldsBroadcast,
         NEW u \in Threads, u # t
  PROVE  pc[u] \notin HoldsBroadcast /\ pc[u] \notin Waking
BY DEF Ownership, HoldsBroadcast, Waking, SignalLabels, BroadcastLabels

(* How the sets of waiters change in each step.                            *)
LEMMA CountInSets ==
  ASSUME TypeOK, NEW t \in Threads, CountIn(t)
  PROVE  /\ t \notin Counted  /\ Counted'  = Counted \cup {t}
         /\ t \notin Sleeping /\ Sleeping' = Sleeping \cup {t}
BY DEF TypeOK, CountIn, Step, Counted, Sleeping, SleepLabels, TakenLabels

(* Taking a unit moves a thread from those that sleep to those woken; it   *)
(* stays counted.                                                          *)
LEMMA TakeSets ==
  ASSUME TypeOK, NEW t \in Threads, TakeSemaphore(t)
  PROVE  t \in Sleeping /\ Sleeping' = Sleeping \ {t} /\ Counted' = Counted
BY DEF TypeOK, TakeSemaphore, Step, Counted, Sleeping, SleepLabels, TakenLabels

(* Counting out takes a thread from both the woken and the counted.        *)
LEMMA CountOutSets ==
  ASSUME TypeOK, NEW t \in Threads, CountOut(t)
  PROVE  t \in Counted /\ Counted' = Counted \ {t} /\ Sleeping' = Sleeping
BY DEF TypeOK, CountOut, Step, Counted, Sleeping, SleepLabels, TakenLabels

(* The steps that change neither the sets nor the counter.                 *)
Neutral(t) ==
  \/ ClientLock(t) \/ ClientUnlock(t) \/ Call(t)
  \/ EnterBroadcast(t) \/ EnterWaiterCount(t) \/ LeaveBroadcast(t)
  \/ UnlockExternal(t) \/ SetDone(t) \/ LockExternal(t)
  \/ ReadWaiters(t) \/ ReleaseOne(t) \/ WaitDone(t) \/ ResetDone(t)
  \/ ReleaseAll(t) \/ ClearBroadcast(t)

(* Every other step leaves the sets of waiters alone.                      *)
LEMMA NeutralSets ==
  ASSUME TypeOK, NEW t \in Threads, Neutral(t)
  PROVE  Counted' = Counted /\ Sleeping' = Sleeping /\ waiter_count' = waiter_count
<1> USE DEF TypeOK, Step, Counted, Sleeping, SleepLabels, TakenLabels, fields
<1>4. CASE ClientLock(t) \/ ClientUnlock(t) \/ Call(t)
  BY <1>4 DEF ClientLock, ClientUnlock, Call
<1>5. CASE EnterBroadcast(t) \/ EnterWaiterCount(t)
  BY <1>5 DEF EnterBroadcast, EnterWaiterCount
<1>6. CASE LeaveBroadcast(t)
  BY <1>6 DEF LeaveBroadcast, CallerLabel
<1>7. CASE UnlockExternal(t) \/ SetDone(t) \/ LockExternal(t)
  BY <1>7 DEF UnlockExternal, SetDone, LockExternal
<1>8. CASE ReadWaiters(t) \/ ReleaseOne(t) \/ WaitDone(t) \/ ResetDone(t)
  BY <1>8 DEF ReadWaiters, ReleaseOne, WaitDone, ResetDone
<1>9. CASE ReleaseAll(t) \/ ClearBroadcast(t)
  BY <1>9 DEF ReleaseAll, ClearBroadcast
<1>10. QED
  BY <1>4, <1>5, <1>6, <1>7, <1>8, <1>9 DEF Neutral

(* Whoever is inside that part before it has released anything finds the   *)
(* handshake fields at rest.                                               *)
LEMMA AtRest ==
  ASSUME Ownership, NoWaker, NEW t \in Threads,
         pc[t] \in HoldsBroadcast \ Waking
  PROVE  semaphore = 0 /\ ~waiters_done /\ ~is_broadcast /\ NoneLeaving
BY OneWaker DEF NoWaker, HoldsBroadcast, Waking

(* The counter follows the set it counts, and a waker that saw a waiter    *)
(* still has one to wake when it releases its unit.                        *)
LEMMA CountingStep ==
  ASSUME IInv, Next
  PROVE  Counting'
<1> USE DEF IInv, TypeOK
<1>1. PICK t \in Threads : Neutral(t) \/ CountIn(t) \/ CountOut(t) \/ TakeSemaphore(t)
  BY DEF Next, Internal, Neutral
<1>2. Counted \in SUBSET Threads /\ Sleeping \in SUBSET Threads
  BY DEF Counted, Sleeping
<1>3. waiter_count' = Cardinality(Counted')
  <2>1. CASE Neutral(t)
    BY <2>1, NeutralSets DEF Counting
  <2>2. CASE CountIn(t)
    BY <2>2, <1>2, CountInSets, CardinalityFacts DEF Counting, CountIn
  <2>3. CASE CountOut(t)
    BY <2>3, <1>2, CountOutSets, CardinalityFacts DEF Counting, CountOut
  <2>4. CASE TakeSemaphore(t)
    BY <2>4, TakeSets DEF Counting, TakeSemaphore
  <2>5. QED
    BY <1>1, <2>1, <2>2, <2>3, <2>4
<1>4. ASSUME NEW s \in Threads, pc'[s] = "sig_release"
      PROVE  Sleeping' # {}
  <2> USE DEF HoldsBroadcast, SignalLabels, Waking
  <2>1. CASE pc[s] = "sig_release"
    <3>1. Sleeping # {} /\ semaphore = 0
      BY <2>1, AtRest DEF Counting
    <3>2. ~TakeSemaphore(t)
      BY <3>1 DEF TakeSemaphore
    <3>3. QED
      BY <1>1, <3>1, <3>2, NeutralSets, CountInSets, CountOutSets
  <2>2. CASE pc[s] # "sig_release"
    <3>1. ReadWaiters(s) /\ waiter_count # 0
      BY <1>4, <2>2 DEF Next, Internal, ClientLock, ClientUnlock, Call, CallerLabel,
         EnterBroadcast, EnterWaiterCount, LeaveBroadcast, CountIn, UnlockExternal,
         TakeSemaphore, CountOut, SetDone, LockExternal, ReadWaiters, ReleaseOne,
         WaitDone, ResetDone, ReleaseAll, ClearBroadcast, Step
    <3>2. Counted # {}
      BY <3>1, <1>2, CardinalityFacts DEF Counting
    <3>3. NoneLeaving
      BY <3>1, AtRest DEF ReadWaiters, Step
    <3>4. Sleeping # {} /\ Sleeping' = Sleeping
      BY <3>1, <3>2, <3>3, NeutralSets DEF Counted, Sleeping, NoneLeaving, Leaving, Neutral
    <3>5. QED
      BY <3>4
  <2>3. QED
    BY <2>1, <2>2
<1>5. QED
  BY <1>3, <1>4 DEF Counting

(* The counters and the number of threads are natural numbers.             *)
LEMMA CountersAreNaturals ==
  ASSUME IInv
  PROVE  /\ Cardinality(Threads) \in Nat
         /\ waiter_count \in Nat /\ semaphore \in Nat
<1>1. Cardinality(Threads) \in Nat
  BY CardinalityFacts
<1>2. QED
  BY <1>1 DEF IInv, TypeOK

(* A counter at zero means that no thread is counted.                      *)
LEMMA NobodyCounted ==
  ASSUME IInv, waiter_count = 0
  PROVE  Counted = {} /\ Sleeping = {}
<1>1. Counted \in SUBSET Threads /\ Sleeping \subseteq Counted
  BY DEF Counted, Sleeping
<1>2. Cardinality(Counted) = 0
  BY DEF IInv, Counting
<1>3. Counted = {}
  BY <1>1, <1>2, CardinalityFacts
<1>4. QED
  BY <1>1, <1>3

(* Types: the two counters stay within the number of threads.              *)
LEMMA TypeStep ==
  ASSUME IInv, Next, Counting'
  PROVE  TypeOK'
<1>1. PICK t \in Threads :
        ClientLock(t) \/ ClientUnlock(t) \/ Call(t) \/ Internal(t)
  BY DEF Next
<1> DEFINE N == Cardinality(Threads)
<1>2. N \in Nat /\ IsFiniteSet(Threads) /\ N >= 1
  BY ThreadsAssumption, CardinalityFacts, FS_CardinalityType
<1>3. waiter_count' \in 0 .. N
  <2>1. Counted' \in SUBSET Threads
    BY DEF Counted
  <2>2. Cardinality(Counted') \in Nat /\ Cardinality(Counted') <= N
    BY <2>1, CardinalityFacts
  <2>3. QED
    BY <1>2, <2>2 DEF Counting
<1>4. semaphore' \in 0 .. N
  <2> USE DEF IInv, TypeOK, fields
  <2>1. CASE ReleaseOne(t)
    BY <2>1, <1>2, AtRest DEF ReleaseOne, Step, HoldsBroadcast, SignalLabels, Waking
  <2>2. CASE ReleaseAll(t)
    BY <2>2, <1>2, AtRest DEF ReleaseAll, Step, HoldsBroadcast, BroadcastLabels, Waking
  <2>3. CASE TakeSemaphore(t)
    BY <2>3, <1>2 DEF TakeSemaphore
  <2>4. CASE UNCHANGED semaphore
    BY <2>4
  <2>5. QED
    BY <1>1, <2>1, <2>2, <2>3, <2>4 DEF Internal, ClientLock, ClientUnlock, Call,
       EnterBroadcast, EnterWaiterCount, LeaveBroadcast, CountIn, UnlockExternal,
       CountOut, SetDone, LockExternal, ReadWaiters, WaitDone, ResetDone, ClearBroadcast
<1>5. pc' \in [Threads -> Labels]
  BY <1>1 DEF IInv, TypeOK, Labels, WaitLabels, SignalLabels, BroadcastLabels, Step,
     Internal, ClientLock, ClientUnlock, Call, CallerLabel,
     EnterBroadcast, EnterWaiterCount, LeaveBroadcast, CountIn, UnlockExternal,
     TakeSemaphore, CountOut, SetDone, LockExternal, ReadWaiters, ReleaseOne,
     WaitDone, ResetDone, ReleaseAll, ClearBroadcast
<1>6. /\ mutex' \in MaybeThread /\ mtx_broadcast' \in MaybeThread
      /\ mtx_waiter_count' \in MaybeThread
      /\ waiters_done' \in BOOLEAN /\ is_broadcast' \in BOOLEAN
  BY <1>1 DEF IInv, TypeOK, MaybeThread, Enter, Leave, fields,
     Internal, ClientLock, ClientUnlock, Call,
     EnterBroadcast, EnterWaiterCount, LeaveBroadcast, CountIn, UnlockExternal,
     TakeSemaphore, CountOut, SetDone, LockExternal, ReadWaiters, ReleaseOne,
     WaitDone, ResetDone, ReleaseAll, ClearBroadcast
<1>7. QED
  BY <1>3, <1>4, <1>5, <1>6 DEF TypeOK

------------------------------------------------------------------------------
(* The handshake between a waker and its waiters, one lemma per kind of    *)
(* step.                                                                   *)
Handshake == NoWaker /\ SignalHandshake /\ BroadcastHandshake /\ ResetHandshake

(* Steps that change no label the handshake looks at.                      *)
Unrelated(t) ==
  \/ ClientLock(t) \/ ClientUnlock(t) \/ Call(t)
  \/ EnterBroadcast(t) \/ EnterWaiterCount(t) \/ LeaveBroadcast(t)
  \/ UnlockExternal(t) \/ LockExternal(t) \/ ReadWaiters(t)

(* A step that touches neither waiters nor waker leaves the handshake      *)
(* alone.                                                                  *)
LEMMA UnrelatedHandshake ==
  ASSUME IInv, NEW t \in Threads, Unrelated(t)
  PROVE  Handshake'
<1>1. Sleeping' = Sleeping /\ waiter_count' = waiter_count
  BY NeutralSets DEF Unrelated, Neutral, IInv
<1>2. /\ semaphore' = semaphore /\ waiters_done' = waiters_done
      /\ is_broadcast' = is_broadcast
  BY DEF Unrelated, ClientLock, ClientUnlock, Call, EnterBroadcast, EnterWaiterCount,
     LeaveBroadcast, UnlockExternal, LockExternal, ReadWaiters, fields
<1>3. ASSUME NEW u \in Threads
      PROVE  /\ pc'[u] \in Waking \/ pc[u] \in Waking => pc'[u] = pc[u]
             /\ pc'[u] = "wake_set" <=> pc[u] = "wake_set"
             /\ pc'[u] \in TakenLabels <=> pc[u] \in TakenLabels
  BY DEF IInv, TypeOK, Unrelated, ClientLock, ClientUnlock, Call, EnterBroadcast,
     EnterWaiterCount, LeaveBroadcast, UnlockExternal, LockExternal, ReadWaiters,
     Step, CallerLabel, Waking, TakenLabels
<1>4. \A u \in Threads : Leaving(u)' <=> Leaving(u)
  BY <1>3 DEF Leaving
<1>5. NoneLeaving' <=> NoneLeaving
  BY <1>4 DEF NoneLeaving
<1>6. NoWaker'
  BY <1>2, <1>3, <1>5 DEF IInv, NoWaker
<1>7. SignalHandshake'
  BY <1>1, <1>2, <1>3, <1>4, <1>5 DEF IInv, SignalHandshake, Waking
<1>8. BroadcastHandshake'
  BY <1>1, <1>2, <1>3, <1>4, <1>5 DEF IInv, BroadcastHandshake, Waking
<1>9. ResetHandshake'
  BY <1>1, <1>2, <1>3, <1>5 DEF IInv, ResetHandshake, Waking
<1>10. QED
  BY <1>6, <1>7, <1>8, <1>9 DEF Handshake

(* A thread that counts itself in excludes a waker, so it meets no         *)
(* handshake.                                                              *)
LEMMA CountInHandshake ==
  ASSUME IInv, NEW t \in Threads, CountIn(t)
  PROVE  Handshake'
<1> USE DEF IInv, CountIn, Step, HoldsBroadcast, Waking
<1>1. semaphore = 0 /\ ~waiters_done /\ ~is_broadcast /\ NoneLeaving
  BY AtRest
<1>2. \A u \in Threads : pc'[u] \notin Waking
  BY OneWaker DEF TypeOK
<1>3. NoneLeaving'
  BY <1>1 DEF NoneLeaving, Leaving, TakenLabels, TypeOK
<1>4. QED
  BY <1>1, <1>2, <1>3 DEF Handshake, NoWaker, SignalHandshake, BroadcastHandshake,
     ResetHandshake

(* Releasing the units begins the handshake (lines 205, 264).              *)
LEMMA ReleaseHandshake ==
  ASSUME IInv, NEW t \in Threads, ReleaseOne(t) \/ ReleaseAll(t)
  PROVE  Handshake'
<1> USE DEF IInv, Step, Waking
<1>1. pc[t] \in HoldsBroadcast \ Waking
  BY DEF ReleaseOne, ReleaseAll, HoldsBroadcast, SignalLabels, BroadcastLabels
<1>2. semaphore = 0 /\ ~waiters_done /\ ~is_broadcast /\ NoneLeaving
  BY <1>1, AtRest
<1>3. \A u \in Threads \ {t} : pc'[u] \notin Waking
  BY <1>1, OneWaker DEF TypeOK, ReleaseOne, ReleaseAll
<1>4. NoneLeaving' /\ waiters_done' = waiters_done /\ waiter_count' = waiter_count
  BY <1>2 DEF NoneLeaving, Leaving, TakenLabels, TypeOK, ReleaseOne, ReleaseAll
<1>5. Sleeping' = Sleeping
  BY NeutralSets DEF Neutral
<1>6. CASE ReleaseOne(t)
  <2>1. pc'[t] = "sig_done" /\ semaphore' = 1 /\ ~is_broadcast'
    BY <1>2, <1>6 DEF ReleaseOne, TypeOK
  <2>2. Sleeping # {}
    BY <1>6 DEF ReleaseOne, Counting
  <2>3. QED
    BY <1>2, <1>3, <1>4, <1>5, <2>1, <2>2 DEF Handshake, NoWaker, SignalHandshake,
       BroadcastHandshake, ResetHandshake
<1>7. CASE ReleaseAll(t) /\ waiter_count = 0
  <2>1. pc'[t] = "bc_mbo" /\ semaphore' = 0 /\ ~is_broadcast'
    BY <1>2, <1>7 DEF ReleaseAll, TypeOK
  <2>2. QED
    BY <1>2, <1>3, <1>4, <2>1 DEF Handshake, NoWaker, SignalHandshake,
       BroadcastHandshake, ResetHandshake
<1>8. CASE ReleaseAll(t) /\ waiter_count # 0
  <2>0. is_broadcast'
    BY <1>8 DEF ReleaseAll
  <2>1. pc'[t] = "bc_done" /\ semaphore' = waiter_count /\ waiter_count > 0
    BY <1>2, <1>8, CountersAreNaturals DEF ReleaseAll, TypeOK
  <2>2. Counted = Sleeping
    BY <1>2 DEF NoneLeaving, Leaving, Counted, Sleeping
  <2>3. \A u \in Threads : pc'[u] # "wake_set"
    BY <1>4 DEF NoneLeaving, Leaving
  <2>4. QED
    BY <1>2, <1>3, <1>4, <1>5, <2>0, <2>1, <2>2, <2>3 DEF Handshake, NoWaker, SignalHandshake,
       BroadcastHandshake, ResetHandshake, Counting
<1>9. QED
  BY <1>6, <1>7, <1>8

(* There is at most one thread with a label in Waking.                     *)
LEMMA WakerUnique ==
  ASSUME Ownership, NEW s \in Threads, pc[s] \in Waking,
         NEW u \in Threads, u # s
  PROVE  pc[u] \notin Waking
BY OneWaker DEF Waking, HoldsBroadcast, SignalLabels, BroadcastLabels

(* Taking a unit keeps the sum of units and woken threads.                 *)
LEMMA TakeHandshake ==
  ASSUME IInv, NEW t \in Threads, TakeSemaphore(t)
  PROVE  Handshake'
<1> USE DEF IInv
<1>1. /\ semaphore > 0 /\ semaphore' = semaphore - 1
      /\ pc[t] = "wait_sem" /\ pc'[t] = "wake_wc"
      /\ \A u \in Threads \ {t} : pc'[u] = pc[u]
      /\ UNCHANGED <<waiters_done, is_broadcast, waiter_count>>
  BY DEF TakeSemaphore, Step, TypeOK
<1>2. PICK s \in Threads : pc[s] \in Waking /\ s # t
  BY <1>1 DEF NoWaker, Waking
<1>3. \A u \in Threads : pc'[u] \in Waking <=> u = s
  BY <1>1, <1>2, WakerUnique DEF Waking
<1>4. pc[s] \in {"sig_done", "bc_done"} /\ pc'[s] = pc[s]
  BY <1>1, <1>2 DEF ResetHandshake, Waking
<1>5. NoWaker' /\ ResetHandshake'
  BY <1>3, <1>4 DEF NoWaker, ResetHandshake, Waking
<1>6. CASE pc[s] = "sig_done"
  <2>1. semaphore' = 0 /\ ~waiters_done' /\ NoneLeaving /\ ~is_broadcast'
    BY <1>1, <1>6 DEF SignalHandshake
  <2>2. Leaving(t)' /\ \A u \in Threads \ {t} : ~Leaving(u)'
    BY <1>1, <2>1 DEF NoneLeaving, Leaving, TakenLabels
  <2>3. SignalHandshake'
    BY <2>1, <2>2 DEF SignalHandshake
  <2>4. BroadcastHandshake'
    BY <1>3, <1>4, <1>6 DEF BroadcastHandshake, Waking
  <2>5. QED
    BY <1>5, <2>3, <2>4 DEF Handshake
<1>7. CASE pc[s] = "bc_done"
  <2>1. semaphore' = Cardinality(Sleeping') /\ is_broadcast'
    <3>1. t \in Sleeping /\ Sleeping' = Sleeping \ {t} /\ Sleeping \in SUBSET Threads
      BY TakeSets DEF Sleeping
    <3>2. Cardinality(Sleeping') = Cardinality(Sleeping) - 1
      BY <3>1, CardinalityFacts
    <3>3. QED
      BY <1>1, <1>7, <3>2 DEF BroadcastHandshake
  <2>2. waiter_count # 0
    <3>1. Counted # {} /\ Counted \in SUBSET Threads
      BY <1>1 DEF Counted, SleepLabels
    <3>2. QED
      BY <3>1, CardinalityFacts DEF Counting
  <2>3. ~waiters_done' /\ \A u \in Threads : pc'[u] # "wake_set"
    BY <1>1, <1>7, <2>2 DEF BroadcastHandshake
  <2>4. BroadcastHandshake'
    BY <1>1, <2>1, <2>2, <2>3, CountersAreNaturals DEF BroadcastHandshake
  <2>5. SignalHandshake'
    BY <1>3, <1>4, <1>7 DEF SignalHandshake, Waking
  <2>6. QED
    BY <1>5, <2>4, <2>5 DEF Handshake
<1>8. QED
  BY <1>4, <1>6, <1>7

(* The waiter that counts itself out last is the one that will set the     *)
(* event.                                                                  *)
LEMMA CountOutHandshake ==
  ASSUME IInv, NEW t \in Threads, CountOut(t)
  PROVE  Handshake'
<1> USE DEF IInv
<1>1. /\ pc[t] = "wake_dec" /\ Leaving(t)
      /\ pc'[t] = IF waiter_count = 1 \/ ~is_broadcast THEN "wake_set" ELSE "wake_lock"
      /\ \A u \in Threads \ {t} : pc'[u] = pc[u]
      /\ waiter_count' = waiter_count - 1
      /\ UNCHANGED <<semaphore, waiters_done, is_broadcast>>
      /\ Sleeping' = Sleeping
  BY CountOutSets DEF CountOut, Step, TypeOK, Leaving, TakenLabels
<1>2. PICK s \in Threads : pc[s] \in Waking /\ s # t
  BY <1>1 DEF NoWaker, Waking, NoneLeaving
<1>3. \A u \in Threads : pc'[u] \in Waking <=> u = s
  BY <1>1, <1>2, WakerUnique DEF Waking
<1>4. pc[s] \in {"sig_done", "bc_done"} /\ pc'[s] = pc[s]
  BY <1>1, <1>2 DEF ResetHandshake, Waking, NoneLeaving
<1>5. NoWaker' /\ ResetHandshake'
  BY <1>3, <1>4 DEF NoWaker, ResetHandshake, Waking
<1>6. CASE pc[s] = "sig_done"
  <2>1. semaphore = 0 /\ ~waiters_done /\ ~is_broadcast
        /\ \A v \in Threads \ {t} : ~Leaving(v)
    BY <1>1, <1>6 DEF SignalHandshake, NoneLeaving
  <2>2. Leaving(t)' /\ \A u \in Threads \ {t} : ~Leaving(u)'
    BY <1>1, <2>1 DEF Leaving
  <2>3. SignalHandshake'
    BY <1>1, <2>1, <2>2 DEF SignalHandshake
  <2>4. BroadcastHandshake'
    BY <1>3, <1>4, <1>6 DEF BroadcastHandshake, Waking
  <2>5. QED
    BY <1>5, <2>3, <2>4 DEF Handshake
<1>7. CASE pc[s] = "bc_done"
  <2>1. Counted \in SUBSET Threads /\ t \in Counted /\ Counted' = Counted \ {t}
    BY CountOutSets DEF Counted
  <2>2. waiter_count > 0 /\ waiter_count' = Cardinality(Counted')
    BY <1>1, <2>1, CardinalityFacts DEF Counting
  <2>3. is_broadcast /\ ~waiters_done /\ \A u \in Threads : pc[u] # "wake_set"
    BY <1>7, <2>2 DEF BroadcastHandshake
  <2>4. semaphore' = Cardinality(Sleeping') /\ is_broadcast'
    BY <1>1, <1>7 DEF BroadcastHandshake
  <2>5. CASE waiter_count = 1
    <3>1. Counted' = {} /\ waiter_count' = 0
      BY <1>1, <2>1, <2>2, <2>5, CardinalityFacts
    <3>2. \A v \in Threads \ {t} : ~Leaving(v)'
      BY <1>1, <2>3, <3>1 DEF Leaving, Counted
    <3>3. BroadcastHandshake'
      BY <1>1, <2>3, <2>4, <2>5, <3>1, <3>2 DEF BroadcastHandshake
    <3>4. QED
      BY <1>3, <1>4, <1>5, <1>7, <3>3 DEF Handshake, SignalHandshake, Waking
  <2>6. CASE waiter_count # 1
    <3>1. pc'[t] = "wake_lock" /\ waiter_count' > 0
      BY <1>1, <2>2, <2>3, <2>6, CountersAreNaturals
    <3>2. BroadcastHandshake'
      BY <1>1, <2>3, <2>4, <3>1 DEF BroadcastHandshake
    <3>3. QED
      BY <1>3, <1>4, <1>5, <1>7, <3>2 DEF Handshake, SignalHandshake, Waking
  <2>7. QED
    BY <2>5, <2>6
<1>8. QED
  BY <1>4, <1>6, <1>7

(* Setting the event ends the work of the waiters.                         *)
LEMMA SetDoneHandshake ==
  ASSUME IInv, NEW t \in Threads, SetDone(t)
  PROVE  Handshake'
<1> USE DEF IInv
<1>1. /\ pc[t] = "wake_set" /\ Leaving(t) /\ pc'[t] = "wake_lock"
      /\ \A u \in Threads \ {t} : pc'[u] = pc[u]
      /\ waiters_done'
      /\ UNCHANGED <<semaphore, waiter_count, is_broadcast>>
      /\ Sleeping' = Sleeping
  BY NeutralSets DEF Neutral, SetDone, Step, TypeOK, Leaving
<1>2. PICK s \in Threads : pc[s] \in Waking /\ s # t
  BY <1>1 DEF NoWaker, Waking, NoneLeaving
<1>3. \A u \in Threads : pc'[u] \in Waking <=> u = s
  BY <1>1, <1>2, WakerUnique DEF Waking
<1>4. pc[s] \in {"sig_done", "bc_done"} /\ pc'[s] = pc[s]
  BY <1>1, <1>2 DEF ResetHandshake, Waking, NoneLeaving
<1>5. NoWaker' /\ ResetHandshake'
  BY <1>3, <1>4 DEF NoWaker, ResetHandshake, Waking
<1>6. CASE pc[s] = "sig_done"
  <2>1. semaphore = 0 /\ ~is_broadcast /\ \A v \in Threads \ {t} : ~Leaving(v)
    BY <1>1, <1>6 DEF SignalHandshake, NoneLeaving
  <2>2. NoneLeaving'
    BY <1>1, <2>1 DEF NoneLeaving, Leaving, TakenLabels
  <2>3. QED
    BY <1>1, <1>3, <1>4, <1>5, <1>6, <2>1, <2>2 DEF Handshake, SignalHandshake,
       BroadcastHandshake, Waking
<1>7. CASE pc[s] = "bc_done"
  <2>1. /\ waiter_count = 0 /\ is_broadcast /\ semaphore = Cardinality(Sleeping)
        /\ \A v \in Threads \ {t} : ~Leaving(v)
    BY <1>1, <1>7 DEF BroadcastHandshake, NoneLeaving
  <2>2. NoneLeaving'
    BY <1>1, <2>1 DEF NoneLeaving, Leaving, TakenLabels
  <2>3. QED
    BY <1>1, <1>3, <1>4, <1>5, <1>7, <2>1, <2>2 DEF Handshake, SignalHandshake,
       BroadcastHandshake, Waking
<1>8. QED
  BY <1>4, <1>6, <1>7

(* The waker that saw the event puts every field to rest (lines 207-212,   *)
(* 265-269).                                                               *)
LEMMA FinishHandshake ==
  ASSUME IInv, NEW t \in Threads, WaitDone(t) \/ ResetDone(t) \/ ClearBroadcast(t)
  PROVE  Handshake'
<1> USE DEF IInv, Waking
<1>1. pc[t] \in Waking
  BY DEF WaitDone, ResetDone, ClearBroadcast, Step
<1>2. \A u \in Threads \ {t} : pc'[u] = pc[u] /\ pc'[u] \notin Waking
  BY <1>1, WakerUnique DEF WaitDone, ResetDone, ClearBroadcast, Step, TypeOK
<1>3. waiter_count' = waiter_count /\ semaphore' = semaphore /\ Sleeping' = Sleeping
  BY NeutralSets DEF Neutral, WaitDone, ResetDone, ClearBroadcast, fields
<1>4. semaphore = 0 /\ NoneLeaving
  <2>1. CASE WaitDone(t) /\ pc[t] = "sig_done"
    BY <2>1 DEF WaitDone, SignalHandshake
  <2>2. CASE WaitDone(t) /\ pc[t] = "bc_done"
    <3>1. semaphore = Cardinality(Sleeping) /\ waiter_count = 0 /\ NoneLeaving
      BY <2>2 DEF WaitDone, BroadcastHandshake
    <3>2. Sleeping = {}
      BY <3>1, CardinalityFacts DEF Counting, Counted, Sleeping
    <3>3. QED
      BY <3>1, <3>2, CardinalityFacts
  <2>3. CASE ResetDone(t) \/ ClearBroadcast(t)
    BY <2>3 DEF ResetDone, ClearBroadcast, Step, ResetHandshake
  <2>4. QED
    BY <2>1, <2>2, <2>3 DEF WaitDone, Step
<1>5. NoneLeaving'
  BY <1>2, <1>4 DEF NoneLeaving, Leaving, TakenLabels, WaitDone, ResetDone,
     ClearBroadcast, Step, TypeOK
<1>6. CASE WaitDone(t) /\ pc[t] = "sig_done"
  <2>1. pc'[t] = "sig_reset" /\ waiters_done' /\ ~is_broadcast'
    BY <1>6 DEF WaitDone, Step, TypeOK, fields, SignalHandshake
  <2>2. QED
    BY <1>2, <1>3, <1>4, <1>5, <2>1 DEF Handshake, NoWaker, SignalHandshake,
       BroadcastHandshake, ResetHandshake
<1>7. CASE WaitDone(t) /\ pc[t] = "bc_done"
  <2>1. pc'[t] = "bc_reset" /\ waiters_done' /\ is_broadcast' /\ waiter_count = 0
    BY <1>7 DEF WaitDone, Step, TypeOK, fields, BroadcastHandshake
  <2>2. QED
    BY <1>2, <1>3, <1>4, <1>5, <2>1 DEF Handshake, NoWaker, SignalHandshake,
       BroadcastHandshake, ResetHandshake
<1>8. CASE ResetDone(t) /\ pc[t] = "sig_reset"
  <2>1. pc'[t] = "sig_mbo" /\ ~waiters_done' /\ ~is_broadcast'
    BY <1>8 DEF ResetDone, Step, TypeOK, ResetHandshake
  <2>2. QED
    BY <1>2, <1>3, <1>4, <1>5, <2>1 DEF Handshake, NoWaker, SignalHandshake,
       BroadcastHandshake, ResetHandshake
<1>9. CASE ResetDone(t) /\ pc[t] = "bc_reset"
  <2>1. pc'[t] = "bc_clear" /\ ~waiters_done' /\ is_broadcast' /\ waiter_count = 0
    BY <1>9 DEF ResetDone, Step, TypeOK, ResetHandshake
  <2>2. QED
    BY <1>2, <1>3, <1>4, <1>5, <2>1 DEF Handshake, NoWaker, SignalHandshake,
       BroadcastHandshake, ResetHandshake
<1>10. CASE ClearBroadcast(t)
  <2>1. pc'[t] = "bc_mbo" /\ ~waiters_done' /\ ~is_broadcast'
    BY <1>10 DEF ClearBroadcast, Step, TypeOK, ResetHandshake
  <2>2. QED
    BY <1>2, <1>3, <1>4, <1>5, <2>1 DEF Handshake, NoWaker, SignalHandshake,
       BroadcastHandshake, ResetHandshake
<1>11. QED
  BY <1>6, <1>7, <1>8, <1>9, <1>10 DEF WaitDone, ResetDone, Step

------------------------------------------------------------------------------
(* A condition variable that was just initialised satisfies the invariant. *)
LEMMA InitInv == Init => IInv
<1> SUFFICES ASSUME Init PROVE IInv
  OBVIOUS
<1>1. Counted = {} /\ Sleeping = {}
  BY DEF Init, Counted, Sleeping, SleepLabels, TakenLabels
<1>2. Cardinality({}) = 0 /\ Cardinality(Threads) \in Nat
  BY CardinalityFacts, FS_EmptySet
<1>3. TypeOK
  <2>1. waiter_count \in 0 .. Cardinality(Threads) /\ semaphore \in 0 .. Cardinality(Threads)
    BY <1>2 DEF Init
  <2>2. waiters_done \in BOOLEAN /\ is_broadcast \in BOOLEAN
    BY DEF Init
  <2>3. pc \in [Threads -> Labels]
    BY DEF Init, Labels
  <2>4. QED
    BY <2>1, <2>2, <2>3 DEF Init, TypeOK, MaybeThread
<1>4. Ownership
  BY ThreadsAssumption DEF Init, Ownership, HoldsBroadcast, HoldsWaiterCount, HoldsMutex,
     SignalLabels, BroadcastLabels
<1>5. Counting
  BY <1>1, <1>2 DEF Init, Counting
<1>6. NoWaker /\ SignalHandshake /\ BroadcastHandshake /\ ResetHandshake
  BY DEF Init, NoWaker, SignalHandshake, BroadcastHandshake, ResetHandshake,
     NoneLeaving, Leaving, TakenLabels
<1>7. QED
  BY <1>3, <1>4, <1>5, <1>6 DEF IInv

(* Every step preserves it.                                                *)
LEMMA NextInv == IInv /\ [Next]_vars => IInv'
<1> SUFFICES ASSUME IInv, [Next]_vars PROVE IInv'
  OBVIOUS
<1>1. CASE Next
  <2>1. Ownership'
    BY <1>1, OwnershipStep DEF IInv
  <2>2. Counting'
    BY <1>1, CountingStep
  <2>3. TypeOK'
    BY <1>1, <2>2, TypeStep
  <2>4. Handshake'
    BY <1>1, UnrelatedHandshake, CountInHandshake, ReleaseHandshake, TakeHandshake,
       CountOutHandshake, SetDoneHandshake, FinishHandshake DEF Next, Internal, Unrelated
  <2>5. QED
    BY <2>1, <2>2, <2>3, <2>4 DEF IInv, Handshake
<1>2. CASE UNCHANGED vars
  BY <1>2 DEF vars, IInv, TypeOK, Ownership, Counting, Counted, Sleeping, NoWaker,
     SignalHandshake, BroadcastHandshake, ResetHandshake, NoneLeaving, Leaving
<1>3. QED
  BY <1>1, <1>2

(* The invariant holds in every reachable state, for every finite set of   *)
(* threads (w32pthreads.h, lines 184-270).                                 *)
THEOREM InductiveInvariant == Spec => []IInv
BY InitInv, NextInv, PTL DEF Spec

(* The fields keep their types: in particular neither the waiter counter   *)
(* nor the semaphore can pass the number of threads (lines 205, 226, 236). *)
THEOREM TypeCorrect == Spec => []TypeOK
<1>1. IInv => TypeOK
  BY DEF IInv
<1>2. QED
  BY <1>1, InductiveInvariant, PTL

(* No semaphore unit, event or broadcast mode survives the call that made  *)
(* it (lines 207-212, 264-269).                                            *)
THEOREM NothingIsLeftOver == Spec => []NothingLeftOver
<1>1. IInv => NothingLeftOver
  <2> SUFFICES ASSUME IInv, mtx_broadcast = NoThread
               PROVE  semaphore = 0 /\ ~waiters_done /\ ~is_broadcast
    BY DEF NothingLeftOver
  <2>1. \A t \in Threads : pc[t] \notin Waking
    BY ThreadsAssumption DEF IInv, Ownership, Waking, HoldsBroadcast, SignalLabels,
       BroadcastLabels
  <2>2. QED
    BY <2>1 DEF IInv, NoWaker
<1>2. QED
  BY <1>1, InductiveInvariant, PTL

(* A unit in the semaphore always has a waiter to take it (lines 205, 264).*)
THEOREM UnitsAlwaysHaveTakers == Spec => []UnitsHaveTakers
<1>1. IInv => UnitsHaveTakers
  <2> SUFFICES ASSUME IInv PROVE semaphore <= Cardinality(Sleeping)
    BY DEF UnitsHaveTakers
  <2>0. Sleeping \in SUBSET Threads
    BY DEF Sleeping
  <2>1. Cardinality(Sleeping) \in Nat /\ (Sleeping # {} => Cardinality(Sleeping) >= 1)
    BY <2>0, CardinalityFacts
  <2>2. \/ semaphore \in {0, 1} /\ (semaphore = 1 => Sleeping # {})
        \/ semaphore = Cardinality(Sleeping)
    BY DEF IInv, NoWaker, SignalHandshake, BroadcastHandshake, ResetHandshake, Waking
  <2>3. QED
    BY <2>1, <2>2
<1>2. QED
  BY <1>1, InductiveInvariant, PTL

------------------------------------------------------------------------------
(* The refinement, one lemma per kind of step.                             *)
Stutters == UNCHANGED <<[t \in Threads |-> AbstractLoc(t)], [t \in Threads |-> AbstractCall(t)]>>

(* Internal steps that the abstract condition variable does not see.       *)
LEMMA StutterSteps ==
  ASSUME IInv, NEW t \in Threads,
         \/ EnterBroadcast(t) \/ EnterWaiterCount(t) \/ UnlockExternal(t)
         \/ CountOut(t) \/ SetDone(t) \/ WaitDone(t) \/ ResetDone(t) \/ ReleaseOne(t)
  PROVE  Stutters
<1>1. ASSUME NEW u \in Threads
      PROVE  AbstractLoc(u)' = AbstractLoc(u)
  BY ThreadsAssumption DEF IInv, TypeOK, Ownership, AbstractLoc, Step, Enter, Leave, fields,
     EnterBroadcast, EnterWaiterCount, UnlockExternal, CountOut, SetDone, WaitDone,
     ResetDone, ReleaseOne, HoldsMutex, MayHoldMutex, SignalLabels, BroadcastLabels
<1>2. ASSUME NEW u \in Threads
      PROVE  AbstractCall(u)' = AbstractCall(u)
  <2> USE DEF IInv, TypeOK, AbstractCall, Step, fields
  <2>1. CASE ReleaseOne(t)
    <3>1. semaphore = 0 /\ pc[t] = "sig_release" /\ pc'[t] = "sig_done"
      BY <2>1, AtRest DEF ReleaseOne, HoldsBroadcast, SignalLabels, Waking
    <3>2. u # t => pc'[u] = pc[u] /\ pc[u] # "sig_done"
      BY <2>1, <3>1, OneWaker DEF ReleaseOne, HoldsBroadcast, SignalLabels, Waking
    <3>3. QED
      BY <2>1, <3>1, <3>2 DEF ReleaseOne
  <2>2. CASE WaitDone(t)
    <3>1. pc[t] = "sig_done" => semaphore = 0
      BY <2>2 DEF WaitDone, SignalHandshake
    <3>2. QED
      BY <2>2, <3>1 DEF WaitDone
  <2>3. CASE EnterBroadcast(t) \/ EnterWaiterCount(t) \/ UnlockExternal(t)
    BY <2>3 DEF EnterBroadcast, EnterWaiterCount, UnlockExternal
  <2>4. CASE CountOut(t) \/ SetDone(t) \/ ResetDone(t)
    BY <2>4 DEF CountOut, SetDone, ResetDone
  <2>5. QED
    BY <2>1, <2>2, <2>3, <2>4
<1>3. QED
  BY <1>1, <1>2 DEF Stutters

(* A thread is abstractly in the critical section only if it owns the      *)
(* external mutex.                                                         *)
LEMMA AbstractOwner ==
  ASSUME NEW t \in Threads, AbstractLoc(t) = "in"
  PROVE  mutex = t
BY DEF AbstractLoc

(* Locking and unlocking map to locking and unlocking.                     *)
LEMMA MutexSteps ==
  ASSUME IInv, NEW t \in Threads,
         ClientLock(t) \/ ClientUnlock(t) \/ LockExternal(t)
  PROVE  Abstract!Lock(t) \/ Abstract!Unlock(t) \/ Abstract!Reacquire(t)
<1> USE DEF IInv, TypeOK, Step, Enter, Leave, fields
<1>1. \A u \in Threads : AbstractCall(u)' = AbstractCall(u)
  BY DEF AbstractCall, ClientLock, ClientUnlock, LockExternal
<1>2. \A u \in Threads \ {t} : AbstractLoc(u)' = AbstractLoc(u)
  BY ThreadsAssumption DEF AbstractLoc, ClientLock, ClientUnlock, LockExternal
<1>3. AbstractCall(t) = "none"
  BY DEF AbstractCall, ClientLock, ClientUnlock, LockExternal
<1>4. CASE ClientLock(t)
  <2>1. AbstractLoc(t) = "out" /\ AbstractLoc(t)' = "in" /\ mutex = NoThread
    BY <1>4, ThreadsAssumption DEF AbstractLoc, ClientLock
  <2>2. \A u \in Threads : AbstractLoc(u) # "in"
    BY <2>1, AbstractOwner, ThreadsAssumption
  <2>3. QED
    BY <1>1, <1>2, <1>3, <2>1, <2>2 DEF Abstract!Lock, Abstract!MutexFree
<1>5. CASE ClientUnlock(t)
  <2>1. AbstractLoc(t) = "in" /\ AbstractLoc(t)' = "out"
    BY <1>5, ThreadsAssumption DEF AbstractLoc, ClientUnlock
  <2>2. QED
    BY <1>1, <1>2, <1>3, <2>1 DEF Abstract!Unlock
<1>6. CASE LockExternal(t)
  <2>1. AbstractLoc(t) = "woken" /\ AbstractLoc(t)' = "in" /\ mutex = NoThread
    BY <1>6, ThreadsAssumption DEF AbstractLoc, LockExternal
  <2>2. \A u \in Threads : AbstractLoc(u) # "in"
    BY <2>1, AbstractOwner, ThreadsAssumption
  <2>3. QED
    BY <1>1, <1>2, <2>1, <2>2 DEF Abstract!Reacquire, Abstract!MutexFree
<1>7. QED
  BY <1>4, <1>5, <1>6

(* Entering a call maps to entering it, or to nothing.                     *)
LEMMA CallStep ==
  ASSUME IInv, NEW t \in Threads, Call(t)
  PROVE  Stutters \/ \E kind \in {"signal", "broadcast"} : Abstract!Begin(t, kind)
<1> USE DEF IInv, TypeOK, Step, fields
<1>1. \A u \in Threads : AbstractLoc(u)' = AbstractLoc(u)
  BY DEF AbstractLoc, Call, Ownership, HoldsMutex
<1>2. \A u \in Threads \ {t} : AbstractCall(u)' = AbstractCall(u)
  BY DEF AbstractCall, Call
<1>3. AbstractLoc(t) \in {"out", "in"} /\ AbstractCall(t) = "none"
  BY DEF AbstractLoc, AbstractCall, Call
<1>4. AbstractCall(t)' = "none" \/ AbstractCall(t)' \in {"signal", "broadcast"}
  BY DEF AbstractCall, Call
<1>5. QED
  BY <1>1, <1>2, <1>3, <1>4 DEF Stutters, Abstract!Begin

(* Leaving a call maps to returning from it, or to nothing.                *)
LEMMA ReturnStep ==
  ASSUME IInv, NEW t \in Threads, LeaveBroadcast(t)
  PROVE  Stutters \/ Abstract!Return(t)
<1> USE DEF IInv, TypeOK, Step, fields, LeaveBroadcast, CallerLabel
<1>1. \A u \in Threads : AbstractLoc(u)' = AbstractLoc(u)
  BY DEF AbstractLoc
<1>2. \A u \in Threads \ {t} : AbstractCall(u)' = AbstractCall(u)
  BY DEF AbstractCall
<1>3. CASE pc[t] = "wait_mbo"
  BY <1>1, <1>2, <1>3 DEF Stutters, AbstractCall
<1>4. CASE pc[t] # "wait_mbo"
  <2>1. AbstractCall(t) = "done" /\ AbstractCall(t)' = "none"
    BY <1>4 DEF AbstractCall
  <2>2. QED
    BY <1>1, <1>2, <2>1 DEF Abstract!Return
<1>5. QED
  BY <1>3, <1>4

(* Counting in, with mtx_broadcast held, maps to starting to wait.         *)
LEMMA WaitStep ==
  ASSUME IInv, NEW t \in Threads, CountIn(t)
  PROVE  Abstract!Wait(t)
<1> USE DEF IInv, TypeOK, Step, fields, CountIn
<1>1. ~is_broadcast
  BY AtRest DEF HoldsBroadcast, Waking
<1>2. \A u \in Threads \ {t} : AbstractLoc(u)' = AbstractLoc(u)
  BY DEF AbstractLoc
<1>3. \A u \in Threads : AbstractCall(u)' = AbstractCall(u)
  BY DEF AbstractCall
<1>4. /\ AbstractLoc(t) = "in" /\ AbstractLoc(t)' = "blocked"
      /\ AbstractCall(t) = "none"
  BY <1>1 DEF AbstractLoc, AbstractCall, Ownership, HoldsMutex
<1>5. QED
  BY <1>2, <1>3, <1>4 DEF Abstract!Wait

(* Abstractly blocked threads are sleeping ones, and all of them unless a  *)
(* broadcast is under way.                                                 *)
LEMMA AbstractBlocked ==
  ASSUME NEW t \in Threads
  PROVE  AbstractLoc(t) = "blocked" <=> t \in Sleeping /\ ~is_broadcast
BY DEF AbstractLoc, Sleeping, SleepLabels

(* Taking a unit released by a signal maps to the choice of the thread it  *)
(* wakes.                                                                  *)
LEMMA TakeStep ==
  ASSUME IInv, NEW t \in Threads, TakeSemaphore(t)
  PROVE  Stutters \/ \E s \in Threads : Abstract!Signal(s)
<1> USE DEF IInv, TypeOK, Step, TakeSemaphore
<1>1. \A u \in Threads \ {t} : AbstractLoc(u)' = AbstractLoc(u)
  BY DEF AbstractLoc
<1>2. AbstractLoc(t)' = "woken"
  BY DEF AbstractLoc
<1>3. PICK s \in Threads : pc[s] \in Waking /\ s # t
  BY DEF NoWaker, Waking
<1>4. pc[s] \in {"sig_done", "bc_done"}
  BY <1>3 DEF ResetHandshake, Waking
<1>5. \A u \in Threads \ {s} : AbstractCall(u)' = AbstractCall(u)
  BY <1>3, WakerUnique DEF AbstractCall, Waking
<1>6. CASE pc[s] = "sig_done"
  <2>1. ~is_broadcast /\ semaphore = 1 /\ semaphore' = 0
    BY <1>6 DEF SignalHandshake
  <2>2. AbstractCall(s) = "signal" /\ AbstractCall(s)' = "done"
    BY <1>3, <1>6, <2>1 DEF AbstractCall
  <2>3. AbstractLoc(t) = "blocked"
    BY <2>1 DEF AbstractLoc
  <2>4. QED
    BY <1>1, <1>2, <1>5, <2>2, <2>3 DEF Abstract!Signal, Abstract!Blocked
<1>7. CASE pc[s] = "bc_done"
  <2>1. AbstractLoc(t) = "woken"
    BY <1>7 DEF AbstractLoc, BroadcastHandshake
  <2>2. AbstractCall(s)' = AbstractCall(s)
    BY <1>3, <1>7 DEF AbstractCall
  <2>3. QED
    BY <1>1, <1>2, <1>5, <2>1, <2>2 DEF Stutters
<1>8. QED
  BY <1>4, <1>6, <1>7

(* A signal that reads no waiter maps to a signal without effect.          *)
LEMMA ReadStep ==
  ASSUME IInv, NEW t \in Threads, ReadWaiters(t)
  PROVE  Stutters \/ Abstract!Signal(t)
<1> USE DEF IInv, TypeOK, Step, fields, ReadWaiters
<1>1. \A u \in Threads : AbstractLoc(u)' = AbstractLoc(u)
  BY DEF AbstractLoc
<1>2. \A u \in Threads \ {t} : AbstractCall(u)' = AbstractCall(u)
  BY DEF AbstractCall
<1>3. CASE waiter_count = 0
  <2>1. Counted = {}
    BY <1>3, CardinalityFacts DEF Counting, Counted
  <2>2. \A u \in Threads : AbstractLoc(u) # "blocked"
    BY <2>1, AbstractBlocked DEF Counted, Sleeping
  <2>3. AbstractCall(t) = "signal" /\ AbstractCall(t)' = "done"
    BY <1>3 DEF AbstractCall
  <2>4. QED
    BY <1>1, <1>2, <2>2, <2>3 DEF Abstract!Signal, Abstract!Blocked
<1>4. CASE waiter_count # 0
  BY <1>1, <1>2, <1>4 DEF AbstractCall, Stutters
<1>5. QED
  BY <1>3, <1>4

(* Releasing all the units maps to waking all the waiters.                 *)
LEMMA BroadcastStep ==
  ASSUME IInv, NEW t \in Threads, ReleaseAll(t)
  PROVE  Abstract!Broadcast(t)
<1> USE DEF IInv, TypeOK, Step, fields
<1>1. semaphore = 0 /\ ~waiters_done /\ ~is_broadcast /\ pc[t] = "bc_release"
  BY AtRest DEF HoldsBroadcast, BroadcastLabels, Waking, ReleaseAll
<1>2. \A u \in Threads \ {t} : AbstractCall(u)' = AbstractCall(u)
  BY <1>1, OneWaker DEF AbstractCall, ReleaseAll, HoldsBroadcast, SignalLabels, BroadcastLabels
<1>3. AbstractCall(t) = "broadcast" /\ AbstractCall(t)' = "done"
  BY <1>1 DEF AbstractCall, ReleaseAll
<1>4. ASSUME NEW u \in Threads
      PROVE  AbstractLoc(u)' = IF AbstractLoc(u) = "blocked" THEN "woken" ELSE AbstractLoc(u)
  <2>1. CASE waiter_count = 0
    <3>0. ~is_broadcast'
      BY <1>1, <2>1 DEF ReleaseAll
    <3>1. Sleeping = {}
      BY <2>1, NobodyCounted
    <3>2. AbstractLoc(u)' = AbstractLoc(u)
      BY <1>1, <2>1, <3>0 DEF AbstractLoc, ReleaseAll
    <3>3. QED
      BY <3>1, <3>2, AbstractBlocked
  <2>2. CASE waiter_count # 0
    <3>1. is_broadcast'
      BY <2>2 DEF ReleaseAll
    <3>2. QED
      BY <1>1, <3>1 DEF AbstractLoc, ReleaseAll
  <2>3. QED
    BY <2>1, <2>2
<1>5. QED
  BY <1>2, <1>3, <1>4 DEF Abstract!Broadcast, Abstract!Blocked

(* Leaving broadcast mode changes nothing abstract.                        *)
LEMMA ClearStep ==
  ASSUME IInv, NEW t \in Threads, ClearBroadcast(t)
  PROVE  Stutters
<1> USE DEF IInv, TypeOK, Step, ClearBroadcast
<1>1. waiter_count = 0 /\ pc[t] = "bc_clear"
  BY DEF ResetHandshake
<1>2. Sleeping = {}
  BY <1>1, NobodyCounted
<1>3. \A u \in Threads : AbstractLoc(u)' = AbstractLoc(u)
  BY <1>2 DEF AbstractLoc, Sleeping, SleepLabels
<1>4. \A u \in Threads : AbstractCall(u)' = AbstractCall(u)
  BY <1>1 DEF AbstractCall
<1>5. QED
  BY <1>3, <1>4 DEF Stutters

(* The emulation of lines 184-270 is a condition variable: no wake-up is   *)
(* lost, stolen or spurious, for every finite set of threads.              *)
THEOREM Refinement == Spec => ImplementsCondVar
<1>1. Init => Abstract!Init
  <2> SUFFICES ASSUME Init PROVE Abstract!Init
    OBVIOUS
  <2>1. \A t \in Threads : AbstractLoc(t) = "out" /\ AbstractCall(t) = "none"
    BY ThreadsAssumption DEF Init, AbstractLoc, AbstractCall
  <2>2. QED
    BY <2>1 DEF Abstract!Init
<1>2. IInv /\ [Next]_vars => [Abstract!Next]_(Abstract!vars)
  <2> SUFFICES ASSUME IInv, [Next]_vars PROVE Abstract!Next \/ Stutters
    BY DEF Abstract!vars, Stutters
  <2>1. ASSUME NEW t \in Threads,
               ClientLock(t) \/ ClientUnlock(t) \/ Call(t) \/ Internal(t)
        PROVE  Abstract!Next \/ Stutters
    BY <2>1, StutterSteps, MutexSteps, CallStep, ReturnStep, WaitStep, TakeStep, ReadStep,
       BroadcastStep, ClearStep DEF Internal, Abstract!Next
  <2>2. CASE UNCHANGED vars
    BY <2>2 DEF vars, Stutters, AbstractLoc, AbstractCall
  <2>3. QED
    BY <2>1, <2>2 DEF Next
<1>3. QED
  BY <1>1, <1>2, InductiveInvariant, PTL DEF Spec, ImplementsCondVar, Abstract!Spec

(* Whoever waits for a critical section or for an answer waits for a       *)
(* thread that can go on: mtx_waiter_count is held for one step only, and  *)
(* the waker that holds mtx_broadcast has let a waiter go that still has   *)
(* to answer.                                                              *)
THEOREM CallsNeverBlockEachOther == Spec => []CallsGoOn
<1>1. IInv => CallsGoOn
  <2> SUFFICES ASSUME IInv, NEW t \in Threads,
                      pc[t] \notin {"in", "out", "wait_sem", "wake_lock"}
               PROVE  \E u \in Threads : CanStep(u)
    BY DEF CallsGoOn
  <2>1. \A u \in Threads : pc[u] \in Labels
    BY DEF IInv, TypeOK
  <2>2. ASSUME NEW u \in Threads,
               pc[u] \in {"wait_wc", "wake_wc", "sig_wc", "bc_wc"} \cup HoldsWaiterCount
        PROVE  \E v \in Threads : CanStep(v)
    <3>1. CASE mtx_waiter_count = NoThread
      BY <2>2, <3>1 DEF CanStep, HoldsWaiterCount
    <3>2. CASE mtx_waiter_count # NoThread
      <4>1. PICK v \in Threads : mtx_waiter_count = v
        BY <3>2 DEF IInv, TypeOK, MaybeThread
      <4>2. pc[v] \in HoldsWaiterCount
        BY <4>1 DEF IInv, Ownership
      <4>3. QED
        BY <4>2 DEF CanStep, HoldsWaiterCount
    <3>3. QED
      BY <3>1, <3>2
  <2>3. ASSUME NEW u \in Threads, Leaving(u) \/ (u \in Sleeping /\ semaphore > 0)
        PROVE  \E v \in Threads : CanStep(v)
    <3>1. CASE u \in Sleeping /\ semaphore > 0
      BY <3>1 DEF Sleeping, SleepLabels, CanStep
    <3>2. CASE pc[u] \in TakenLabels
      BY <2>2, <3>2 DEF TakenLabels, HoldsWaiterCount
    <3>3. CASE pc[u] = "wake_set"
      BY <3>3 DEF CanStep
    <3>4. QED
      BY <2>3, <3>1, <3>2, <3>3 DEF Leaving
  <2>4. ASSUME NEW u \in Threads, pc[u] \in {"sig_done", "bc_done"}
        PROVE  \E v \in Threads : CanStep(v)
    <3>1. CASE waiters_done
      BY <2>4, <3>1 DEF CanStep
    <3>2. CASE pc[u] = "sig_done" /\ ~waiters_done
      <4>1. \/ semaphore = 1 /\ Sleeping # {}
            \/ \E v \in Threads : Leaving(v)
        BY <3>2 DEF IInv, SignalHandshake
      <4>2. Sleeping \subseteq Threads
        BY DEF Sleeping
      <4>3. QED
        BY <2>3, <4>1, <4>2
    <3>3. CASE pc[u] = "bc_done" /\ ~waiters_done
      <4>1. semaphore = Cardinality(Sleeping) /\ Sleeping \in SUBSET Threads
        BY <3>3 DEF IInv, BroadcastHandshake, Sleeping
      <4>2. CASE waiter_count > 0
        <5>1. Cardinality(Counted) > 0 /\ Counted \in SUBSET Threads
          BY <4>2 DEF IInv, Counting, Counted
        <5>2. PICK v \in Threads : v \in Counted
          BY <5>1, CardinalityFacts
        <5>3. v \in Sleeping => semaphore > 0
          BY <4>1, CardinalityFacts
        <5>4. QED
          BY <2>3, <5>2, <5>3 DEF Counted, Sleeping, Leaving
      <4>3. CASE \E v \in Threads : pc[v] = "wake_set"
        BY <2>3, <4>3 DEF Leaving
      <4>4. QED
        BY <3>3, <4>2, <4>3 DEF IInv, BroadcastHandshake
    <3>4. QED
      BY <2>4, <3>1, <3>2, <3>3
  <2>5. ASSUME NEW u \in Threads, pc[u] \in HoldsBroadcast
        PROVE  \E v \in Threads : CanStep(v)
    BY <2>2, <2>4, <2>5 DEF HoldsBroadcast, HoldsWaiterCount, SignalLabels, BroadcastLabels,
         CanStep
  <2>6. CASE pc[t] \in {"wait_mb", "sig_mb", "bc_mb"}
    <3>1. CASE mtx_broadcast = NoThread
      BY <2>6, <3>1 DEF CanStep
    <3>2. CASE mtx_broadcast # NoThread
      <4>1. PICK u \in Threads : mtx_broadcast = u
        BY <3>2 DEF IInv, TypeOK, MaybeThread
      <4>2. pc[u] \in HoldsBroadcast
        BY <4>1 DEF IInv, Ownership
      <4>3. QED
        BY <2>5, <4>2
    <3>3. QED
      BY <3>1, <3>2
  <2>7. CASE pc[t] \in HoldsBroadcast \cup TakenLabels
    BY <2>2, <2>5, <2>7 DEF TakenLabels, HoldsWaiterCount
  <2>8. CASE pc[t] \in {"wait_unlock", "wake_set"}
    BY <2>8 DEF CanStep
  <2>9. QED
    BY <2>1, <2>6, <2>7, <2>8 DEF Labels, WaitLabels, SignalLabels, BroadcastLabels,
         HoldsBroadcast, TakenLabels
<1>2. QED
  BY <1>1, InductiveInvariant, PTL
==============================================================================
