------------------------------ MODULE BufferPool ------------------------------
(***************************************************************************)
(* The reference-counted buffers of a pool, libavutil/buffer.c: a lock-free*)
(* list of free entries that any thread may take from or return to, and a  *)
(* count that says when the pool itself can go.  Each atomic operation is  *)
(* one action.  Between them a thread touches only entries of its own list *)
(* (ExclusiveEntries), so that a chain of next pointers is a sequence and  *)
(* appending one chain to another is part of the action that obtained it.  *)
(* What is not modelled: buffers made by av_buffer_alloc and av_buffer_    *)
(* create outside a pool, which have the same counts and no list, and      *)
(* av_buffer_realloc, which never reallocates a pool's buffer.             *)
(***************************************************************************)
EXTENDS Integers, FiniteSets, SequencesExt

CONSTANTS Threads,
          Entries,          \* BufferPoolEntry objects: a bound on those allocated
          NoEntry           \* NULL

ASSUME PoolAssumption ==
  IsFiniteSet(Threads) /\ IsFiniteSet(Entries) /\ NoEntry \notin Entries

VARIABLES
  pool,                     \* pool->pool, the list of free entries
  refcount,                 \* pool->refcount
  alive,                    \* the pool has not been freed
  callers,                  \* the client has not called av_buffer_pool_uninit
  allocated,                \* entries that exist
  count,                    \* refcount of the AVBuffer of each entry
  holds,                    \* the entries each thread has a reference to
  pc, op,                   \* where each thread is, and in which call
  list,                     \* its private list: buf of add_to_pool
  entry,                    \* the entry it works on
  cur                       \* its local in get_pool

shared == <<pool, refcount, alive, callers, allocated>>
vars   == <<shared, count, holds, pc, op, list, entry, cur>>

PoolLabels == {"take", "append", "put", "create", "alloc", "count", "drop", "free"}

TypeOK ==
  /\ pool \in Seq(Entries) /\ refcount \in Nat /\ alive \in BOOLEAN /\ callers \in BOOLEAN
  /\ allocated \subseteq Entries
  /\ count \in [Entries -> Nat]
  /\ holds \in [Threads -> SUBSET Entries]
  /\ pc \in [Threads -> PoolLabels \cup {"idle", "write", "copy"}]
  /\ op \in [Threads -> {"none", "get", "undo", "release"}]
  /\ list \in [Threads -> Seq(Entries)]
  /\ entry \in [Threads -> Entries \cup {NoEntry}]
  /\ cur \in [Threads -> Entries \cup {NoEntry}]

(* av_buffer_pool_init.                                                    *)
Init ==
  /\ pool = <<>> /\ refcount = 1 /\ alive = TRUE /\ callers = TRUE /\ allocated = {}
  /\ count = [e \in Entries |-> 0]
  /\ holds = [t \in Threads |-> {}]
  /\ pc = [t \in Threads |-> "idle"] /\ op = [t \in Threads |-> "none"]
  /\ list = [t \in Threads |-> <<>>]
  /\ entry = [t \in Threads |-> NoEntry] /\ cur = [t \in Threads |-> NoEntry]

Goto(t, label) == pc' = [pc EXCEPT ![t] = label]
Return(t) == /\ Goto(t, "idle")
             /\ op' = [op EXCEPT ![t] = "none"]
             /\ entry' = [entry EXCEPT ![t] = NoEntry]
Top(s) == IF s = <<>> THEN NoEntry ELSE Head(s)

------------------------------------------------------------------------------
(* av_buffer_pool_get, lines 314-337.                                      *)
Get(t) ==
  /\ pc[t] = "idle" /\ callers
  /\ Goto(t, "take")
  /\ op' = [op EXCEPT ![t] = "get"]
  /\ UNCHANGED <<shared, count, holds, list, entry, cur>>

(* The rest of the list goes back before the entry is used (line 325).     *)
Keep(t, taken) ==
  /\ entry' = [entry EXCEPT ![t] = Top(taken)]
  /\ IF taken = <<>>
     THEN Goto(t, "alloc") /\ UNCHANGED list
     ELSE /\ list' = [list EXCEPT ![t] = Tail(taken)]
          /\ Goto(t, IF Tail(taken) = <<>> THEN "create" ELSE "put")

AppendTaken(t, taken) ==
  /\ list' = [list EXCEPT ![t] = @ \o taken]
  /\ Goto(t, "put")
  /\ UNCHANGED entry

(* get_pool, lines 240-252, one compare-and-swap at a time: cur[t] is what *)
(* the last one found, NoEntry at the start.                               *)
GetPool(t) ==
  /\ pc[t] \in {"take", "append"}
  /\ \/ /\ Top(pool) \notin {NoEntry, cur[t]}
        /\ cur' = [cur EXCEPT ![t] = Top(pool)]
        /\ UNCHANGED <<pool, list, pc, entry>>
     \/ /\ Top(pool) \in {NoEntry, cur[t]}
        /\ pool' = <<>>
        /\ cur' = [cur EXCEPT ![t] = NoEntry]
        /\ IF pc[t] = "take" THEN Keep(t, pool) ELSE AppendTaken(t, pool)
  /\ UNCHANGED <<refcount, alive, callers, allocated, count, holds, op>>

(* add_to_pool, lines 254-273: publish the list if the pool's is empty,    *)
(* else take that one too and try again.                                   *)
AfterPut == [get |-> "create", undo |-> "idle", release |-> "drop"]

PutOver(t) ==                       \* overwrites what others returned meanwhile
  /\ pc[t] = "put"
  /\ pool' = list[t]
  /\ list' = [list EXCEPT ![t] = <<>>]
  /\ IF op[t] = "undo" THEN Return(t) ELSE Goto(t, AfterPut[op[t]]) /\ UNCHANGED <<op, entry>>
  /\ UNCHANGED <<refcount, alive, callers, allocated, count, holds, cur>>

Put(t) ==
  /\ pc[t] = "put"
  /\ \/ /\ pool = <<>>
        /\ pool' = list[t]
        /\ list' = [list EXCEPT ![t] = <<>>]
        /\ IF op[t] = "undo" THEN Return(t)
                             ELSE Goto(t, AfterPut[op[t]]) /\ UNCHANGED <<op, entry>>
     \/ /\ pool # <<>>
        /\ Goto(t, "append")
        /\ UNCHANGED <<pool, list, op, entry>>
  /\ UNCHANGED <<refcount, alive, callers, allocated, count, holds, cur>>

(* av_buffer_create for an entry of the pool (lines 328-333), which may    *)
(* fail...                                                                 *)
Create(t) ==
  /\ pc[t] = "create"
  /\ \/ /\ count' = [count EXCEPT ![entry[t]] = 1]
        /\ Goto(t, "count")
        /\ UNCHANGED <<op, list>>
     \/ /\ list' = [list EXCEPT ![t] = <<entry[t]>>]
        /\ op' = [op EXCEPT ![t] = "undo"]
        /\ Goto(t, "put")
        /\ UNCHANGED count
  /\ UNCHANGED <<shared, holds, entry, cur>>

(* ... and pool_alloc_buffer when it had none (lines 286-307), as well.    *)
Alloc(t) ==
  /\ pc[t] = "alloc"
  /\ \/ /\ \E e \in Entries \ allocated :
             /\ allocated' = allocated \cup {e}
             /\ count' = [count EXCEPT ![e] = 1]
             /\ entry' = [entry EXCEPT ![t] = e]
        /\ Goto(t, "count")
        /\ UNCHANGED op
     \/ Return(t) /\ UNCHANGED <<allocated, count>>
  /\ UNCHANGED <<pool, refcount, alive, callers, holds, list, cur>>

(* Lines 309 and 334.                                                      *)
CountForgets(t) ==                  \* hands the entry out without counting it
  /\ pc[t] = "count"
  /\ holds' = [holds EXCEPT ![t] = @ \cup {entry[t]}]
  /\ Return(t)
  /\ UNCHANGED <<shared, count, list, cur>>

Count(t) ==
  /\ pc[t] = "count"
  /\ refcount' = refcount + 1
  /\ holds' = [holds EXCEPT ![t] = @ \cup {entry[t]}]
  /\ Return(t)
  /\ UNCHANGED <<pool, alive, callers, allocated, count, list, cur>>

------------------------------------------------------------------------------
(* av_buffer_ref: a reference made by t, for itself to give to u.  Threads *)
(* hold at most one reference to a buffer each.                            *)
Ref(t, u) ==
  /\ pc[t] = "idle"
  /\ \E e \in holds[t] \ holds[u] :
       /\ count' = [count EXCEPT ![e] = @ + 1]
       /\ holds' = [holds EXCEPT ![u] = @ \cup {e}]
  /\ UNCHANGED <<shared, pc, op, list, entry, cur>>

(* av_buffer_unref, lines 105-118, and the beginning of                    *)
(* pool_release_buffer for the last reference.                             *)
Unref(t, e) ==
  /\ count' = [count EXCEPT ![e] = @ - 1]
  /\ holds' = [holds EXCEPT ![t] = @ \ {e}]
  /\ IF count[e] = 1
     THEN /\ list' = [list EXCEPT ![t] = <<e>>]
          /\ op' = [op EXCEPT ![t] = "release"]
          /\ entry' = [entry EXCEPT ![t] = NoEntry]
          /\ Goto(t, "put")
     ELSE Return(t) /\ UNCHANGED list

Release(t) ==
  /\ pc[t] = "idle"
  /\ \E e \in holds[t] : Unref(t, e)
  /\ UNCHANGED <<shared, cur>>

(* Line 280.                                                               *)
DropEarly(t) ==                     \* frees the pool one reference too early
  /\ pc[t] = "drop"
  /\ refcount' = refcount - 1
  /\ IF refcount' <= 1 /\ ~callers THEN Goto(t, "free") /\ UNCHANGED <<op, entry>> ELSE Return(t)
  /\ UNCHANGED <<pool, alive, callers, allocated, count, holds, list, cur>>

Drop(t) ==
  /\ pc[t] = "drop"
  /\ refcount' = refcount - 1
  /\ IF refcount' = 0 THEN Goto(t, "free") /\ UNCHANGED <<op, entry>> ELSE Return(t)
  /\ UNCHANGED <<pool, alive, callers, allocated, count, holds, list, cur>>

(* av_buffer_pool_uninit.  The client calls it when nobody is in           *)
(* av_buffer_pool_get and nobody will be again (buffer.h:217-218).         *)
UninitOnly(t) ==                    \* leaves the freeing to the last buffer
  /\ pc[t] = "idle" /\ callers
  /\ \A u \in Threads : op[u] \notin {"get", "undo"}
  /\ callers' = FALSE
  /\ refcount' = refcount - 1
  /\ UNCHANGED <<pool, alive, allocated, count, holds, pc, op, list, entry, cur>>

Uninit(t) ==
  /\ pc[t] = "idle" /\ callers
  /\ \A u \in Threads : op[u] \notin {"get", "undo"}
  /\ callers' = FALSE
  /\ refcount' = refcount - 1
  /\ IF refcount' = 0 THEN Goto(t, "free") ELSE UNCHANGED pc
  /\ UNCHANGED <<pool, alive, allocated, count, holds, op, list, entry, cur>>

(* buffer_pool_free, lines 214-224.                                        *)
Free(t) ==
  /\ pc[t] = "free"
  /\ allocated' = allocated \ ToSet(pool)
  /\ pool' = <<>> /\ alive' = FALSE
  /\ Return(t)
  /\ UNCHANGED <<refcount, callers, count, holds, list, cur>>

------------------------------------------------------------------------------
(* av_buffer_make_writable, lines 128-144: the holder writes to its buffer *)
(* if it is the only one, else it copies it and drops its reference; it    *)
(* copies, too, one that pool->alloc made read-only (line 122).            *)
MakeWritableShared(t) ==            \* takes a buffer of two holders for its own
  /\ pc[t] = "idle"
  /\ \E e \in holds[t] :
       /\ entry' = [entry EXCEPT ![t] = e]
       /\ Goto(t, "copy") \/ (count[e] <= 2 /\ Goto(t, "write"))
  /\ UNCHANGED <<shared, count, holds, op, list, cur>>

MakeWritable(t) ==
  /\ pc[t] = "idle"
  /\ \E e \in holds[t] :
       /\ entry' = [entry EXCEPT ![t] = e]
       /\ Goto(t, "copy") \/ (count[e] = 1 /\ Goto(t, "write"))
  /\ UNCHANGED <<shared, count, holds, op, list, cur>>

Written(t) ==
  /\ pc[t] = "write"
  /\ Return(t)
  /\ UNCHANGED <<shared, count, holds, list, cur>>

Copied(t) ==
  /\ pc[t] = "copy"
  /\ \/ Unref(t, entry[t])
     \/ Return(t) /\ UNCHANGED <<count, holds, list>>       \* out of memory
  /\ UNCHANGED <<shared, cur>>

------------------------------------------------------------------------------
Internal(t) ==
  \/ GetPool(t) \/ Put(t) \/ Create(t) \/ Alloc(t) \/ Count(t) \/ Drop(t) \/ Free(t)
  \/ Written(t) \/ Copied(t)

Next ==
  \E t \in Threads :
    \/ Get(t) \/ Release(t) \/ Uninit(t) \/ MakeWritable(t)
    \/ \E u \in Threads : Ref(t, u)
    \/ Internal(t)

Spec == Init /\ [][Next]_vars

(* A thread inside a call is scheduled.                                    *)
FairSpec == Spec /\ \A t \in Threads : WF_vars(Internal(t))

------------------------------------------------------------------------------
(* An entry that exists is in one place: in the pool's list, in one        *)
(* thread's list, in the hands of one thread, or in an AVBuffer that has   *)
(* references.  None is lost and none is handed out twice, although        *)
(* get_pool compares no more than the head of a list that others take away *)
(* and put back (lines 245-249).                                           *)
InHand(t) == op[t] = "get" /\ pc[t] \in {"put", "append", "create"}

Occurrences(e, s) == Cardinality({i \in DOMAIN s : s[i] = e})

ExclusiveEntries ==
  \A e \in Entries :
    LET inList == {x \in Threads \X (1 .. Cardinality(Entries)) :
                     x[2] \in DOMAIN list[x[1]] /\ list[x[1]][x[2]] = e}
        inHand == {t \in Threads : InHand(t) /\ entry[t] = e}
        inUse  == {x \in {e} : count[x] > 0}
    IN  Occurrences(e, pool) + Cardinality(inList) + Cardinality(inHand) + Cardinality(inUse)
          = (IF e \in allocated THEN 1 ELSE 0)

(* The pool "will actually be freed only once all the allocated buffers    *)
(* associated with the pool are released" (buffer.h:245-248): then nobody  *)
(* refers to a buffer or works on the pool, and every entry was freed.  It *)
(* is also freed no later than the last call that uses it returns, for     *)
(* whichever of uninit and the releases finds that it is the last (lines   *)
(* 235 and 280) frees it.                                                  *)
PoolOutlivesBuffers ==
  /\ ~alive => /\ allocated = {}
               /\ \A t \in Threads : holds[t] = {} /\ pc[t] \notin PoolLabels
  /\ ~callers /\ (\A t \in Threads : holds[t] = {} /\ pc[t] \notin PoolLabels) => ~alive

(* A buffer "is considered writable if there exists only one reference to  *)
(* it" (buffer.h:50-54): the answer still holds while the thread that got  *)
(* it writes, and nobody reads what it writes.                             *)
WritersAlone ==
  \A t \in Threads : pc[t] = "write" =>
    \A u \in Threads \ {t} : entry[t] \notin holds[u]

(* "Once all the buffers are released, it will automatically be freed"     *)
(* (buffer.h:219).                                                         *)
PoolIsFreed == ~callers /\ (\A t \in Threads : holds[t] = {}) ~> ~alive
==============================================================================
