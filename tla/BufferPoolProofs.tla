--------------------------- MODULE BufferPoolProofs ---------------------------
(***************************************************************************)
(* Proofs about the pool of buffers, for any number of threads and of      *)
(* entries: the inductive invariant, and from it that an entry is in one   *)
(* place, that the pool outlives its buffers and goes with the last call,  *)
(* and that who may write to a buffer is alone with it.                    *)
(***************************************************************************)
EXTENDS BufferPool, FiniteSetTheorems, SequenceTheorems, TLAPS

(* What a thread at label p of call o has: its list l, its entry e, the    *)
(* buffers h it holds.                                                     *)
Stage(p, o, l, e, h) ==
  /\ p \in {"idle", "write", "copy"} => o = "none"
  /\ p \in {"take", "alloc", "create", "count"} => o = "get"
  /\ p \in {"put", "append"} => o # "none"
  /\ p = "drop" => o = "release"
  /\ p = "free" => o \in {"none", "release"}
  /\ l # <<>> => p \in {"put", "append"}
  /\ o = "get" /\ p \in {"put", "append", "create", "count"} => e \in Entries
  /\ p \in {"write", "copy"} => e \in h

(* The entries a thread owns, and those in use by an AVBuffer.             *)
Owned == [t \in Threads |-> ToSet(list[t]) \cup IF InHand(t) THEN {entry[t]} ELSE {}]
InUse == {e \in Entries : count[e] > 0}

(* The pool's entries P, those owned O, and those in use U are apart, and  *)
(* there are no others.                                                    *)
Apart(P, O, U, A) ==
  /\ P \cap U = {}
  /\ \A t \in Threads : O[t] \cap (P \cup U) = {}
  /\ \A t, u \in Threads : t # u => O[t] \cap O[u] = {}
  /\ A = P \cup U \cup UNION {O[t] : t \in Threads}

(* An entry is once in a list.                                             *)
Distinct(t) ==
  /\ IsInjective(list[t])
  /\ InHand(t) => entry[t] \notin ToSet(list[t])

(* Who has a reference: one is held, or about to be returned.              *)
Holders == [e \in Entries |->
  {t \in Threads : e \in holds[t] \/ (pc[t] = "count" /\ entry[t] = e)}]

Counted ==
  /\ \A e \in Entries : count[e] = Cardinality(Holders[e])
  /\ \A t \in Threads :
       /\ pc[t] \in {"count", "write"} => entry[t] \in Entries /\ Holders[entry[t]] = {t}
       /\ pc[t] = "count" => entry[t] \notin holds[t]

(* What pool->refcount counts: the client until it calls uninit, the       *)
(* buffers it has, and the threads that return one.                        *)
Out       == {e \in Entries : \E t \in Threads : e \in holds[t]}
Releasing == {t \in Threads : op[t] = "release" /\ pc[t] \in {"put", "append", "drop"}}

PoolCounted ==
  /\ refcount = (IF callers THEN 1 ELSE 0) + Cardinality(Out) + Cardinality(Releasing)
  /\ ~callers => \A t \in Threads : op[t] \notin {"get", "undo"}

(* One thread frees the pool, when nobody needs it.                        *)
Freeing ==
  /\ \A t \in Threads : pc[t] = "free" => refcount = 0 /\ alive
  /\ \A t, u \in Threads : pc[t] = "free" /\ pc[u] = "free" => t = u
  /\ ~alive => refcount = 0 /\ pool = <<>>

(* Whoever brings the count to 0 is on its way to free the pool.           *)
Freed == refcount = 0 /\ alive => \E t \in Threads : pc[t] = "free"

IInv ==
  /\ TypeOK
  /\ \A t \in Threads : Stage(pc[t], op[t], list[t], entry[t], holds[t])
  /\ IsInjective(pool) /\ \A t \in Threads : Distinct(t)
  /\ Apart(ToSet(pool), Owned, InUse, allocated)
  /\ Counted
  /\ PoolCounted
  /\ Freeing

------------------------------------------------------------------------------
(* What is in a list that is empty, ...                                    *)
LEMMA ListEmpty == ToSet(<<>>) = {} /\ IsInjective(<<>>) /\ <<>> \in Seq(Entries)
BY DEF ToSet, IsInjective

(* ... and in one of a single entry.                                       *)
LEMMA ListOne ==
  ASSUME NEW e \in Entries
  PROVE  ToSet(<<e>>) = {e} /\ IsInjective(<<e>>) /\ <<e>> \in Seq(Entries)
<1>1. DOMAIN <<e>> = {1} /\ <<e>>[1] = e
  OBVIOUS
<1>2. QED
  BY <1>1 DEF ToSet, IsInjective

(* A list is its first entry and the others, ...                           *)
LEMMA ListFirst ==
  ASSUME NEW s \in Seq(Entries), s # <<>>
  PROVE  /\ Head(s) \in Entries /\ Tail(s) \in Seq(Entries)
         /\ ToSet(s) = {Head(s)} \cup ToSet(Tail(s))
         /\ IsInjective(s) => IsInjective(Tail(s)) /\ Head(s) \notin ToSet(Tail(s))
<1>1. /\ Head(s) = s[1] /\ Tail(s) \in Seq(Entries) /\ s[1] \in Entries
      /\ DOMAIN s = 1 .. Len(s) /\ Len(s) \in Nat /\ Len(s) >= 1
      /\ DOMAIN Tail(s) = 1 .. Len(s) - 1
      /\ \A i \in 1 .. Len(s) - 1 : Tail(s)[i] = s[i + 1]
  OBVIOUS
<1>2. ASSUME NEW i \in DOMAIN s PROVE s[i] \in {Head(s)} \cup ToSet(Tail(s))
  <2>1. CASE i = 1
    BY <2>1, <1>1
  <2>2. CASE i # 1
    <3>1. i - 1 \in DOMAIN Tail(s) /\ Tail(s)[i - 1] = s[i]
      BY <2>2, <1>1
    <3>2. QED
      BY <3>1 DEF ToSet
  <2>3. QED
    BY <2>1, <2>2
<1>3. ASSUME NEW i \in DOMAIN Tail(s) PROVE Tail(s)[i] \in ToSet(s)
  <2>1. i + 1 \in DOMAIN s /\ Tail(s)[i] = s[i + 1]
    BY <1>1
  <2>2. QED
    BY <2>1 DEF ToSet
<1>4. 1 \in DOMAIN s
  BY <1>1
<1>5. ToSet(s) = {Head(s)} \cup ToSet(Tail(s))
  <2>1. Head(s) \in ToSet(s)
    BY <1>1, <1>4 DEF ToSet
  <2>2. ToSet(s) \subseteq {Head(s)} \cup ToSet(Tail(s))
    BY <1>2 DEF ToSet
  <2>3. ToSet(Tail(s)) \subseteq ToSet(s)
    <3>1. SUFFICES ASSUME NEW x \in ToSet(Tail(s)) PROVE x \in ToSet(s)
      OBVIOUS
    <3>2. PICK i \in DOMAIN Tail(s) : x = Tail(s)[i]
      BY DEF ToSet
    <3>3. QED
      BY <3>2, <1>3
  <2>4. QED
    BY <2>1, <2>2, <2>3
<1>6. ASSUME IsInjective(s) PROVE IsInjective(Tail(s)) /\ Head(s) \notin ToSet(Tail(s))
  <2>1. ASSUME NEW i \in DOMAIN Tail(s), NEW j \in DOMAIN Tail(s), Tail(s)[i] = Tail(s)[j]
        PROVE  i = j
    <3>1. i \in Int /\ j \in Int /\ i + 1 \in DOMAIN s /\ j + 1 \in DOMAIN s /\ s[i + 1] = s[j + 1]
      BY <1>1, <2>1
    <3>2. i + 1 = j + 1
      BY <3>1, <1>6 DEF IsInjective
    <3>3. QED
      BY <3>1, <3>2
  <2>2. ASSUME NEW i \in DOMAIN Tail(s), Tail(s)[i] = Head(s) PROVE FALSE
    <3>1. i \in Nat /\ i >= 1 /\ i + 1 \in DOMAIN s /\ s[i + 1] = s[1]
      BY <1>1, <2>2
    <3>2. i + 1 = 1
      BY <3>1, <1>4, <1>6 DEF IsInjective
    <3>3. QED
      BY <3>1, <3>2
  <2>3. QED
    BY <2>1, <2>2 DEF IsInjective, ToSet
<1>7. QED
  BY <1>1, <1>5, <1>6

(* ... and what is in two is in one appended to the other.                 *)
LEMMA ListAppended ==
  ASSUME NEW s \in Seq(Entries), NEW u \in Seq(Entries)
  PROVE  /\ s \o u \in Seq(Entries)
         /\ ToSet(s \o u) = ToSet(s) \cup ToSet(u)
         /\ IsInjective(s) /\ IsInjective(u) /\ ToSet(s) \cap ToSet(u) = {}
            => IsInjective(s \o u)
<1> DEFINE c == s \o u
<1>1. /\ Len(s) \in Nat /\ Len(u) \in Nat
      /\ DOMAIN s = 1 .. Len(s) /\ DOMAIN u = 1 .. Len(u)
      /\ DOMAIN c = 1 .. Len(s) + Len(u) /\ c \in Seq(Entries)
      /\ \A i \in DOMAIN s : c[i] = s[i]
      /\ \A i \in DOMAIN u : c[Len(s) + i] = u[i]
  OBVIOUS
<1> HIDE DEF c
<1>2. ASSUME NEW i \in DOMAIN c
      PROVE  \/ i \in DOMAIN s /\ c[i] = s[i]
             \/ i - Len(s) \in DOMAIN u /\ c[i] = u[i - Len(s)]
  <2>1. CASE i <= Len(s)
    BY <2>1, <1>1
  <2>2. CASE ~(i <= Len(s))
    <3>1. i - Len(s) \in DOMAIN u /\ Len(s) + (i - Len(s)) = i
      BY <2>2, <1>1
    <3>2. QED
      BY <3>1, <1>1
  <2>3. QED
    BY <2>1, <2>2
<1>3. ToSet(c) = ToSet(s) \cup ToSet(u)
  <2>1. ToSet(c) \subseteq ToSet(s) \cup ToSet(u)
    BY <1>2 DEF ToSet
  <2>2. ASSUME NEW i \in DOMAIN s PROVE s[i] \in ToSet(c)
    <3>1. i \in DOMAIN c /\ c[i] = s[i]
      BY <1>1
    <3>2. QED
      BY <3>1 DEF ToSet
  <2>3. ASSUME NEW i \in DOMAIN u PROVE u[i] \in ToSet(c)
    <3>1. Len(s) + i \in DOMAIN c /\ c[Len(s) + i] = u[i]
      BY <1>1
    <3>2. QED
      BY <3>1 DEF ToSet
  <2>4. ToSet(s) \subseteq ToSet(c) /\ ToSet(u) \subseteq ToSet(c)
    <3>1. \A x \in ToSet(s) : x \in ToSet(c)
      BY <2>2 DEF ToSet
    <3>2. \A x \in ToSet(u) : x \in ToSet(c)
      BY <2>3 DEF ToSet
    <3>3. QED
      BY <3>1, <3>2
  <2>5. QED
    BY <2>1, <2>4
<1>4. ASSUME IsInjective(s), IsInjective(u), ToSet(s) \cap ToSet(u) = {}
      PROVE  IsInjective(c)
  <2>1. ASSUME NEW i \in DOMAIN s, NEW j \in DOMAIN u PROVE s[i] # u[j]
    BY <1>4 DEF ToSet
  <2>2. ASSUME NEW i \in DOMAIN c, NEW j \in DOMAIN c, c[i] = c[j]
        PROVE  i = j
    <3>1. CASE i \in DOMAIN s /\ c[i] = s[i] /\ j \in DOMAIN s /\ c[j] = s[j]
      BY <3>1, <2>2, <1>4 DEF IsInjective
    <3>2. CASE /\ i - Len(s) \in DOMAIN u /\ c[i] = u[i - Len(s)]
               /\ j - Len(s) \in DOMAIN u /\ c[j] = u[j - Len(s)]
      <4>1. i - Len(s) = j - Len(s)
        BY <3>2, <2>2, <1>4 DEF IsInjective
      <4>2. QED
        BY <4>1, <1>1
    <3>3. QED
      BY <3>1, <3>2, <2>1, <2>2, <1>2
  <2>3. QED
    BY <2>2 DEF IsInjective
<1>5. QED
  BY <1>1, <1>3, <1>4 DEF c

------------------------------------------------------------------------------
(* A thread may move entries between the pool, itself and their use, and   *)
(* bring new ones in or free those it has, as long as they stay apart.     *)
LEMMA Moved ==
  ASSUME NEW P, NEW O, NEW U, NEW A, Apart(P, O, U, A), NEW t \in Threads,
         NEW P2, NEW O2, NEW U2, NEW A2,
         \A u \in Threads \ {t} : O2[u] = O[u],
         P2 \cap U2 = {}, O2[t] \cap (P2 \cup U2) = {},
         (P2 \cup U2 \cup O2[t]) \cap A \subseteq P \cup U \cup O[t],
         A2 = (A \ (P \cup U \cup O[t])) \cup P2 \cup U2 \cup O2[t]
  PROVE  Apart(P2, O2, U2, A2)
<1> DEFINE Mine  == P \cup U \cup O[t]
           Mine2 == P2 \cup U2 \cup O2[t]
           Rest  == UNION {O[u] : u \in Threads \ {t}}
<1>1. ASSUME NEW u \in Threads, u # t
      PROVE  O2[u] = O[u] /\ O[u] \subseteq A /\ O[u] \cap Mine = {} /\ O[u] \cap Mine2 = {}
  <2>1. O2[u] = O[u]
    BY <1>1
  <2>2. O[u] \subseteq A /\ O[u] \cap Mine = {}
    BY <1>1 DEF Apart
  <2>3. QED
    BY <2>1, <2>2
<1>2. ASSUME NEW u \in Threads PROVE O2[u] \cap (P2 \cup U2) = {}
  BY <1>1
<1>3. ASSUME NEW u \in Threads, NEW v \in Threads, u # v PROVE O2[u] \cap O2[v] = {}
  <2>1. CASE u = t
    BY <2>1, <1>1, <1>3
  <2>2. CASE v = t
    BY <2>2, <1>1, <1>3
  <2>3. CASE u # t /\ v # t
    BY <2>3, <1>1, <1>3 DEF Apart
  <2>4. QED
    BY <2>1, <2>2, <2>3
<1>4. A = Mine \cup Rest /\ Rest \cap Mine = {}
  <2>1. A = Mine \cup Rest
    BY DEF Apart
  <2>2. Rest \cap Mine = {}
    BY <1>1
  <2>3. QED
    BY <2>1, <2>2
<1>5. Rest = UNION {O2[u] : u \in Threads \ {t}}
  BY <1>1
<1>6. P2 \cup U2 \cup UNION {O2[u] : u \in Threads} = Mine2 \cup Rest
  BY <1>5
<1>7. A2 = (A \ Mine) \cup Mine2
  OBVIOUS
<1>8. A2 = P2 \cup U2 \cup UNION {O2[u] : u \in Threads}
  <2> HIDE DEF Mine, Mine2, Rest
  <2>1. A \ Mine = Rest
    BY <1>4
  <2>2. QED
    BY <2>1, <1>6, <1>7
<1>9. QED
  BY <1>2, <1>3, <1>8 DEF Apart

(* A step of thread t changes nothing private to another.                  *)
Only(t) == \A u \in Threads \ {t} :
  pc'[u] = pc[u] /\ op'[u] = op[u] /\ list'[u] = list[u] /\ entry'[u] = entry[u]

(* So it leaves what the others own, ...                                   *)
LEMMA OthersOwn ==
  ASSUME NEW t \in Threads, Only(t)
  PROVE  \A u \in Threads \ {t} : Owned'[u] = Owned[u]
BY DEF Only, Owned, InHand

(* ... and nothing moves if this one owns what it did; ...                 *)
LEMMA SameOwned ==
  ASSUME NEW t \in Threads, Only(t), Owned'[t] = Owned[t]
  PROVE  Owned' = Owned
<1>1. \A u \in Threads : Owned'[u] = Owned[u]
  BY OthersOwn
<1>2. /\ Owned' = [u \in Threads |-> Owned'[u]]
      /\ Owned = [u \in Threads |-> Owned[u]]
  BY DEF Owned
<1>3. QED
  BY <1>1, <1>2, Zenon

(* ... and so all are at their stages if this thread is.                   *)
LEMMA OthersStages ==
  ASSUME NEW t \in Threads, Only(t), \A u \in Threads : u # t => holds[u] \subseteq holds'[u],
         \A u \in Threads : Stage(pc[u], op[u], list[u], entry[u], holds[u]),
         \A u \in Threads : Distinct(u),
         Stage(pc'[t], op'[t], list'[t], entry'[t], holds'[t]), Distinct(t)'
  PROVE  /\ \A u \in Threads : Stage(pc'[u], op'[u], list'[u], entry'[u], holds'[u])
         /\ \A u \in Threads : Distinct(u)'
<1>1. ASSUME NEW u \in Threads, u # t
      PROVE  Stage(pc'[u], op'[u], list'[u], entry'[u], holds'[u]) /\ Distinct(u)'
  <2>1. /\ pc'[u] = pc[u] /\ op'[u] = op[u] /\ list'[u] = list[u] /\ entry'[u] = entry[u]
        /\ holds[u] \subseteq holds'[u]
    BY <1>1 DEF Only
  <2>2. QED
    BY <2>1 DEF Stage, Distinct, InHand
<1>2. QED
  BY <1>1

(* A step that leaves references as they are.                              *)
LEMMA SameReferences ==
  ASSUME Counted, NEW t \in Threads, Only(t), count' = count, holds' = holds,
         pc[t] # "count", pc'[t] # "count",
         pc'[t] = "write" => entry'[t] \in Entries /\ Holders[entry'[t]] = {t}
  PROVE  Counted' /\ Holders' = Holders
<1>1. Holders' = Holders
  BY DEF Holders, Only
<1>2. ASSUME NEW u \in Threads, pc'[u] \in {"count", "write"}
      PROVE  /\ entry'[u] \in Entries /\ Holders'[entry'[u]] = {u}
             /\ pc'[u] = "count" => entry'[u] \notin holds'[u]
  <2>1. CASE u = t
    BY <2>1, <1>1, <1>2
  <2>2. CASE u # t
    BY <2>2, <1>1, <1>2 DEF Only, Counted
  <2>3. QED
    BY <2>1, <2>2
<1>3. QED
  BY <1>1, <1>2 DEF Counted

(* A step that leaves what the pool counts.                                *)
LEMMA SamePoolCount ==
  ASSUME PoolCounted, NEW t \in Threads, Only(t),
         refcount' = refcount, callers' = callers, holds' = holds,
         (t \in Releasing) = (op'[t] = "release" /\ pc'[t] \in {"put", "append", "drop"}),
         callers \/ op'[t] \notin {"get", "undo"}
  PROVE  PoolCounted'
<1>1. Out' = Out
  BY DEF Out
<1>2. Releasing' = Releasing
  BY DEF Releasing, Only
<1>3. ~callers' => \A u \in Threads : op'[u] \notin {"get", "undo"}
  BY DEF PoolCounted, Only
<1>4. QED
  BY <1>1, <1>2, <1>3 DEF PoolCounted

(* A step after which the pool is as alive as before.                      *)
LEMMA SameFreeing ==
  ASSUME Freeing, NEW t \in Threads, Only(t), pc'[t] # "free", alive' = alive,
         alive \/ pool' = <<>>,
         refcount' = refcount \/ (alive /\ \A u \in Threads : pc[u] # "free")
  PROVE  Freeing'
BY DEF Freeing, Only

(* While a thread is in a call the pool has not been freed.                *)
LEMMA InUseAlive ==
  ASSUME TypeOK, PoolCounted, Freeing,
         callers \/ Out # {} \/ Releasing # {}
  PROVE  /\ refcount \in Nat /\ refcount >= 1 /\ alive
         /\ \A u \in Threads : pc[u] # "free"
         /\ IsFiniteSet(Out) /\ Cardinality(Out) \in Nat
         /\ IsFiniteSet(Releasing) /\ Cardinality(Releasing) \in Nat
<1>1. Out \in SUBSET Entries /\ Releasing \in SUBSET Threads
  BY DEF Out, Releasing
<1>2. /\ IsFiniteSet(Out) /\ Cardinality(Out) \in Nat
      /\ IsFiniteSet(Releasing) /\ Cardinality(Releasing) \in Nat
  BY <1>1, PoolAssumption, FS_Subset, FS_CardinalityType
<1>3. (Cardinality(Out) = 0 <=> Out = {}) /\ (Cardinality(Releasing) = 0 <=> Releasing = {})
  BY <1>2, FS_EmptySet
<1>4. refcount \in Nat /\ refcount >= 1
  BY <1>2, <1>3 DEF TypeOK, PoolCounted
<1>5. QED
  BY <1>2, <1>4 DEF Freeing

(* A step that only goes somewhere else.                                   *)
LEMMA QuietInv ==
  ASSUME IInv, NEW t \in Threads, TypeOK', Only(t),
         UNCHANGED <<pool, allocated, alive, callers, refcount, count, holds, list>>,
         list[t] = <<>>, ~InHand(t), ~InHand(t)',
         Stage(pc'[t], op'[t], list'[t], entry'[t], holds'[t]),
         pc[t] # "count", pc'[t] \notin {"count", "free"}, t \notin Releasing,
         ~(op'[t] = "release" /\ pc'[t] \in {"put", "append", "drop"}),
         callers \/ op'[t] \notin {"get", "undo"},
         pc'[t] = "write" => entry'[t] \in Entries /\ Holders[entry'[t]] = {t}
  PROVE  IInv'
<1>1. /\ \A u \in Threads : Stage(pc'[u], op'[u], list'[u], entry'[u], holds'[u])
      /\ \A u \in Threads : Distinct(u)'
  <2>1. Distinct(t)'
    BY ListEmpty DEF Distinct
  <2>2. QED
    BY <2>1, OthersStages DEF IInv
<1>2. Apart(ToSet(pool), Owned, InUse, allocated)'
  <2>1. Owned'[t] = Owned[t]
    BY DEF Owned
  <2>2. Owned' = Owned
    BY <2>1, SameOwned
  <2>3. InUse' = InUse
    BY DEF InUse
  <2>4. QED
    BY <2>2, <2>3 DEF IInv
<1>3. Counted'
  BY SameReferences DEF IInv
<1>4. PoolCounted'
  <2>1. (t \in Releasing) = (op'[t] = "release" /\ pc'[t] \in {"put", "append", "drop"})
    OBVIOUS
  <2>2. QED
    BY <2>1, SamePoolCount DEF IInv
<1>5. Freeing'
  <2>1. alive \/ pool' = <<>>
    BY DEF IInv, Freeing
  <2>2. QED
    BY <2>1, SameFreeing DEF IInv
<1>6. IsInjective(pool')
  BY DEF IInv
<1>7. QED
  BY <1>1, <1>2, <1>3, <1>4, <1>5, <1>6 DEF IInv

------------------------------------------------------------------------------
(* av_buffer_pool_get begins, ...                                          *)
LEMMA GetInv ==
  ASSUME IInv, NEW t \in Threads, Get(t)
  PROVE  IInv'
<1>0. TypeOK /\ Stage(pc[t], op[t], list[t], entry[t], holds[t])
  BY DEF IInv
<1>1. /\ pc' = [pc EXCEPT ![t] = "take"] /\ op' = [op EXCEPT ![t] = "get"]
      /\ pc[t] = "idle" /\ callers
      /\ UNCHANGED <<pool, refcount, alive, callers, allocated, count, holds, list, entry, cur>>
  BY DEF Get, Goto, shared
<1>2. Only(t) /\ pc'[t] = "take" /\ op'[t] = "get"
  BY <1>0, <1>1 DEF Only, TypeOK
<1>3. TypeOK'
  BY <1>0, <1>1 DEF TypeOK, PoolLabels
<1>4. list[t] = <<>> /\ op[t] = "none"
  BY <1>0, <1>1 DEF Stage
<1>5. ~InHand(t) /\ ~InHand(t)' /\ t \notin Releasing
  BY <1>1, <1>2, <1>4 DEF InHand, Releasing
<1>6. Stage(pc'[t], op'[t], list'[t], entry'[t], holds'[t])
  BY <1>1, <1>2, <1>4 DEF Stage
<1>7. QED
  BY <1>1, <1>2, <1>3, <1>4, <1>5, <1>6, QuietInv

(* ... takes the list of the pool or appends it to its own, ...            *)
LEMMA GetPoolInv ==
  ASSUME IInv, NEW t \in Threads, GetPool(t)
  PROVE  IInv'
<1>0. /\ TypeOK /\ Stage(pc[t], op[t], list[t], entry[t], holds[t])
      /\ IsInjective(pool) /\ Distinct(t) /\ pool \in Seq(Entries) /\ list[t] \in Seq(Entries)
      /\ pc[t] \in {"take", "append"} /\ op[t] # "none"
      /\ pc[t] = "take" => list[t] = <<>> /\ op[t] = "get"
      /\ op[t] = "get" /\ pc[t] = "append" => entry[t] \in Entries
      /\ UNCHANGED <<refcount, alive, callers, allocated, count, holds, op>>
  BY DEF IInv, GetPool, TypeOK, Stage
<1>1. CASE UNCHANGED <<pool, list, pc, entry>>
  <2>1. TypeOK'
    <3>1. cur' \in [Threads -> Entries \cup {NoEntry}]
      <4>1. Top(pool) \in Entries \cup {NoEntry}
        BY <1>0, ListFirst DEF Top
      <4>2. PICK e \in Entries \cup {NoEntry} : cur' = [cur EXCEPT ![t] = e]
        BY <4>1 DEF GetPool
      <4>3. QED
        BY <1>0, <4>2 DEF TypeOK
    <3>2. QED
      BY <1>0, <1>1, <3>1 DEF TypeOK
  <2>2. Only(t) /\ pc'[t] \in {"take", "append"}
    BY <1>0, <1>1 DEF Only
  <2>3. Owned' = Owned /\ InUse' = InUse
    BY <1>0, <1>1 DEF Owned, InUse, InHand
  <2>4. Counted' /\ PoolCounted' /\ Freeing'
    <3>1. Holders' = Holders /\ Out' = Out /\ Releasing' = Releasing
      BY <1>0, <1>1 DEF Holders, Out, Releasing
    <3>2. QED
      BY <1>0, <1>1, <3>1 DEF IInv, Counted, PoolCounted, Freeing
  <2>5. \A u \in Threads : Distinct(u)'
    BY <1>0, <1>1 DEF IInv, Distinct, InHand
  <2>6. \A u \in Threads : Stage(pc'[u], op'[u], list'[u], entry'[u], holds'[u])
    BY <1>0, <1>1 DEF IInv
  <2>7. IsInjective(pool)' /\ Apart(ToSet(pool), Owned, InUse, allocated)'
    BY <1>0, <1>1, <2>3 DEF IInv
  <2>8. QED
    BY <2>1, <2>4, <2>5, <2>6, <2>7 DEF IInv
<1>2. CASE ~(UNCHANGED <<pool, list, pc, entry>>)
  <2>1. /\ pool' = <<>> /\ cur' = [cur EXCEPT ![t] = NoEntry]
        /\ pc[t] = "take" => Keep(t, pool)
        /\ pc[t] = "append" => AppendTaken(t, pool)
    BY <1>0, <1>2 DEF GetPool
  <2>2. /\ list' \in [Threads -> Seq(Entries)] /\ entry' \in [Threads -> Entries \cup {NoEntry}]
        /\ pc' \in [Threads -> PoolLabels \cup {"idle", "write", "copy"}]
        /\ Only(t)
        /\ Stage(pc'[t], op'[t], list'[t], entry'[t], holds'[t])
        /\ pc'[t] \in {"alloc", "put", "create"}
        /\ pc[t] = "append" => pc'[t] = "put"
        /\ Owned'[t] = Owned[t] \cup ToSet(pool)
        /\ Distinct(t)'
    <3>1. CASE pc[t] = "take" /\ pool = <<>>
      <4>1. /\ entry' = [entry EXCEPT ![t] = NoEntry] /\ pc' = [pc EXCEPT ![t] = "alloc"]
            /\ list' = list
        BY <2>1, <3>1 DEF Keep, Goto, Top
      <4>2. pc'[t] = "alloc" /\ list'[t] = <<>> /\ op'[t] = "get" /\ ~InHand(t) /\ ~InHand(t)'
        BY <1>0, <3>1, <4>1 DEF InHand, TypeOK
      <4>3. Owned'[t] = Owned[t] \cup ToSet(pool) /\ Distinct(t)'
        BY <4>2, <3>1, <1>0, ListEmpty DEF Owned, Distinct
      <4>4. QED
        BY <1>0, <4>1, <4>2, <4>3, <3>1 DEF TypeOK, PoolLabels, Only, Stage
    <3>2. CASE pc[t] = "take" /\ pool # <<>>
      <4>1. /\ entry' = [entry EXCEPT ![t] = Head(pool)]
            /\ list' = [list EXCEPT ![t] = Tail(pool)]
            /\ pc' = [pc EXCEPT ![t] = IF Tail(pool) = <<>> THEN "create" ELSE "put"]
        BY <2>1, <3>2 DEF Keep, Goto, Top
      <4>2. /\ entry'[t] = Head(pool) /\ list'[t] = Tail(pool) /\ op'[t] = "get"
            /\ pc'[t] = IF Tail(pool) = <<>> THEN "create" ELSE "put"
        BY <1>0, <3>2, <4>1 DEF TypeOK
      <4>3. /\ Head(pool) \in Entries /\ Tail(pool) \in Seq(Entries)
            /\ ToSet(pool) = {Head(pool)} \cup ToSet(Tail(pool))
            /\ IsInjective(Tail(pool)) /\ Head(pool) \notin ToSet(Tail(pool))
        BY <1>0, <3>2, ListFirst
      <4>4. ~InHand(t) /\ InHand(t)' /\ Owned[t] = {}
        BY <1>0, <3>2, <4>2, ListEmpty DEF InHand, Owned
      <4>5. Owned'[t] = Owned[t] \cup ToSet(pool)
        BY <4>2, <4>3, <4>4 DEF Owned
      <4>6. Distinct(t)'
        BY <4>2, <4>3 DEF Distinct
      <4>7. Only(t)
        BY <1>0, <4>1 DEF Only
      <4>8. Stage(pc'[t], op'[t], list'[t], entry'[t], holds'[t])
        BY <4>2, <4>3 DEF Stage
      <4>9. QED
        BY <1>0, <4>1, <4>2, <4>3, <4>5, <4>6, <4>7, <4>8, <3>2 DEF TypeOK, PoolLabels
    <3>3. CASE pc[t] = "append"
      <4>1. /\ entry' = entry /\ list' = [list EXCEPT ![t] = list[t] \o pool]
            /\ pc' = [pc EXCEPT ![t] = "put"]
        BY <2>1, <3>3 DEF AppendTaken, Goto
      <4>2. /\ entry'[t] = entry[t] /\ list'[t] = list[t] \o pool /\ op'[t] = op[t]
            /\ pc'[t] = "put"
        BY <1>0, <4>1 DEF TypeOK
      <4>3. ToSet(list[t]) \cap ToSet(pool) = {} /\ (InHand(t) => entry[t] \notin ToSet(pool))
        BY DEF IInv, Apart, Owned
      <4>4. /\ list[t] \o pool \in Seq(Entries) /\ IsInjective(list[t] \o pool)
            /\ ToSet(list[t] \o pool) = ToSet(list[t]) \cup ToSet(pool)
        BY <1>0, <4>3, ListAppended DEF Distinct
      <4>5. InHand(t)' = InHand(t)
        BY <3>3, <4>2 DEF InHand
      <4>6. Owned'[t] = Owned[t] \cup ToSet(pool)
        BY <4>2, <4>4, <4>5 DEF Owned
      <4>7. Distinct(t)'
        BY <1>0, <4>2, <4>3, <4>4, <4>5 DEF Distinct
      <4>8. Only(t) /\ Stage(pc'[t], op'[t], list'[t], entry'[t], holds'[t])
        BY <1>0, <3>3, <4>1, <4>2 DEF Only, Stage
      <4>9. QED
        BY <1>0, <4>1, <4>2, <4>4, <4>6, <4>7, <4>8, <3>3 DEF TypeOK, PoolLabels
    <3>4. QED
      BY <1>0, <3>1, <3>2, <3>3
  <2>3. TypeOK'
    <3>1. cur' \in [Threads -> Entries \cup {NoEntry}] /\ pool' \in Seq(Entries)
      BY <1>0, <2>1, ListEmpty DEF TypeOK
    <3>2. QED
      BY <1>0, <2>2, <3>1 DEF TypeOK
  <2>4. Apart(ToSet(pool), Owned, InUse, allocated)'
    <3>1. InUse' = InUse /\ ToSet(pool') = {} /\ allocated' = allocated
      BY <1>0, <2>1, ListEmpty DEF InUse
    <3>2. Apart(ToSet(pool), Owned, InUse, allocated)
      BY DEF IInv
    <3>3. /\ InUse \cap Owned'[t] = {}
          /\ allocated = (allocated \ (ToSet(pool) \cup InUse \cup Owned[t]))
                           \cup {} \cup InUse \cup Owned'[t]
      BY <2>2, <3>2 DEF Apart
    <3>4. QED
      BY <2>2, <3>1, <3>2, <3>3, OthersOwn, Moved
  <2>5. \A u \in Threads : Stage(pc'[u], op'[u], list'[u], entry'[u], holds'[u]) /\ Distinct(u)'
    BY <1>0, <2>2, OthersStages DEF IInv
  <2>6. Counted'
    BY <1>0, <2>2, SameReferences DEF IInv
  <2>7. PoolCounted'
    <3>1. (t \in Releasing) = (op'[t] = "release" /\ pc'[t] \in {"put", "append", "drop"})
      BY <1>0, <2>2 DEF Releasing
    <3>2. callers \/ op'[t] \notin {"get", "undo"}
      BY <1>0 DEF IInv, PoolCounted
    <3>3. QED
      BY <1>0, <2>2, <3>1, <3>2, SamePoolCount DEF IInv
  <2>8. Freeing'
    BY <1>0, <2>1, <2>2, SameFreeing DEF IInv
  <2>9. QED
    BY <2>1, <2>3, <2>4, <2>5, <2>6, <2>7, <2>8, ListEmpty DEF IInv
<1>3. QED
  BY <1>1, <1>2

(* ... gives back what it does not need, ...                               *)
LEMMA PutInv ==
  ASSUME IInv, NEW t \in Threads, Put(t)
  PROVE  IInv'
<1>0. /\ TypeOK /\ Stage(pc[t], op[t], list[t], entry[t], holds[t])
      /\ Distinct(t) /\ list[t] \in Seq(Entries)
      /\ pc[t] = "put" /\ op[t] \in {"get", "undo", "release"}
      /\ op[t] = "get" => entry[t] \in Entries
      /\ UNCHANGED <<refcount, alive, callers, allocated, count, holds, cur>>
  BY DEF IInv, Put, TypeOK, Stage
<1>1. alive /\ (callers \/ op[t] = "release")
  <2>1. callers \/ op[t] = "release"
    BY <1>0 DEF IInv, PoolCounted
  <2>2. op[t] = "release" => t \in Releasing
    BY <1>0 DEF Releasing
  <2>3. QED
    BY <2>1, <2>2, InUseAlive DEF IInv
<1>2. CASE pool = <<>>
  <2>1. pool' = list[t] /\ list' = [list EXCEPT ![t] = <<>>]
    BY <1>0, <1>2 DEF Put
  <2>2. /\ Only(t) /\ list'[t] = <<>> /\ entry' \in [Threads -> Entries \cup {NoEntry}]
        /\ op' \in [Threads -> {"none", "get", "undo", "release"}]
        /\ pc' \in [Threads -> PoolLabels \cup {"idle", "write", "copy"}]
        /\ op[t] = "get" => pc'[t] = "create" /\ op'[t] = "get" /\ entry'[t] = entry[t]
        /\ op[t] = "undo" => pc'[t] = "idle" /\ op'[t] = "none"
        /\ op[t] = "release" => pc'[t] = "drop" /\ op'[t] = "release"
    <3>1. CASE op[t] = "undo"
      <4>1. /\ pc' = [pc EXCEPT ![t] = "idle"] /\ op' = [op EXCEPT ![t] = "none"]
            /\ entry' = [entry EXCEPT ![t] = NoEntry]
        BY <1>0, <1>2, <3>1 DEF Put, Return, Goto
      <4>2. QED
        BY <1>0, <2>1, <3>1, <4>1 DEF TypeOK, Only
    <3>2. CASE op[t] # "undo"
      <4>1. /\ pc' = [pc EXCEPT ![t] = IF op[t] = "get" THEN "create" ELSE "drop"]
            /\ op' = op /\ entry' = entry
        BY <1>0, <1>2, <3>2 DEF Put, Goto, AfterPut
      <4>2. QED
        BY <1>0, <2>1, <3>2, <4>1 DEF TypeOK, Only, PoolLabels
    <3>3. QED
      BY <3>1, <3>2
  <2>3. TypeOK'
    <3>1. list' \in [Threads -> Seq(Entries)] /\ pool' \in Seq(Entries)
      BY <1>0, <2>1, ListEmpty DEF TypeOK
    <3>2. QED
      BY <1>0, <2>2, <3>1 DEF TypeOK
  <2>4. Stage(pc'[t], op'[t], list'[t], entry'[t], holds'[t]) /\ Distinct(t)'
    BY <1>0, <2>2, ListEmpty DEF Stage, Distinct
  <2>5. Apart(ToSet(pool), Owned, InUse, allocated)'
    <3>1. /\ InUse' = InUse /\ ToSet(pool) = {} /\ ToSet(pool') = ToSet(list[t])
          /\ allocated' = allocated
      BY <1>0, <1>2, <2>1, ListEmpty DEF InUse
    <3>2. Apart(ToSet(pool), Owned, InUse, allocated)
      BY DEF IInv
    <3>3. /\ Owned[t] = ToSet(list[t]) \cup (IF op[t] = "get" THEN {entry[t]} ELSE {})
          /\ Owned'[t] = IF op[t] = "get" THEN {entry[t]} ELSE {}
          /\ op[t] = "get" => entry[t] \notin ToSet(list[t])
      BY <1>0, <2>2, ListEmpty DEF Owned, InHand, Distinct
    <3>4. /\ InUse \cap ToSet(pool') = {} /\ Owned'[t] \cap (ToSet(pool') \cup InUse) = {}
          /\ Owned[t] = ToSet(pool') \cup Owned'[t]
          /\ allocated = (allocated \ (ToSet(pool) \cup InUse \cup Owned[t]))
                           \cup ToSet(pool') \cup InUse \cup Owned'[t]
      BY <3>1, <3>2, <3>3 DEF Apart
    <3>5. QED
      BY <2>2, <3>1, <3>2, <3>4, OthersOwn, Moved
  <2>6. \A u \in Threads : Stage(pc'[u], op'[u], list'[u], entry'[u], holds'[u]) /\ Distinct(u)'
    BY <1>0, <2>2, <2>4, OthersStages DEF IInv
  <2>7. pc[t] # "count" /\ pc'[t] \notin {"count", "write", "free"}
    BY <1>0, <2>2
  <2>8. Counted'
    BY <1>0, <2>2, <2>7, SameReferences DEF IInv
  <2>9. PoolCounted'
    <3>1. (t \in Releasing) = (op'[t] = "release" /\ pc'[t] \in {"put", "append", "drop"})
      BY <1>0, <2>2 DEF Releasing
    <3>2. callers \/ op'[t] \notin {"get", "undo"}
      BY <1>0, <1>1, <2>2
    <3>3. QED
      BY <1>0, <2>2, <3>1, <3>2, SamePoolCount DEF IInv
  <2>10. Freeing'
    BY <1>0, <1>1, <2>2, <2>7, SameFreeing DEF IInv
  <2>11. IsInjective(pool')
    BY <1>0, <2>1 DEF Distinct
  <2>12. QED
    BY <2>3, <2>5, <2>6, <2>8, <2>9, <2>10, <2>11 DEF IInv
<1>3. CASE pool # <<>>
  <2>1. pc' = [pc EXCEPT ![t] = "append"] /\ UNCHANGED <<pool, list, op, entry>>
    BY <1>0, <1>3 DEF Put, Goto
  <2>2. Only(t) /\ pc'[t] = "append"
    BY <1>0, <2>1 DEF TypeOK, Only
  <2>3. TypeOK'
    BY <1>0, <2>1 DEF TypeOK, PoolLabels
  <2>4. \A u \in Threads : InHand(u)' = InHand(u)
    BY <1>0, <2>1, <2>2 DEF InHand, Only
  <2>5. Owned' = Owned /\ InUse' = InUse
    BY <1>0, <2>1, <2>4 DEF Owned, InUse
  <2>6. \A u \in Threads : Distinct(u)'
    BY <2>1, <2>4 DEF IInv, Distinct
  <2>7. Stage(pc'[t], op'[t], list'[t], entry'[t], holds'[t])
    BY <1>0, <2>1, <2>2 DEF Stage
  <2>8. \A u \in Threads : Stage(pc'[u], op'[u], list'[u], entry'[u], holds'[u])
    BY <1>0, <2>2, <2>6, <2>7, OthersStages DEF IInv
  <2>9. Counted'
    BY <1>0, <2>1, <2>2, SameReferences DEF IInv
  <2>10. PoolCounted'
    <3>1. (t \in Releasing) = (op'[t] = "release" /\ pc'[t] \in {"put", "append", "drop"})
      BY <1>0, <2>1, <2>2 DEF Releasing
    <3>2. callers \/ op'[t] \notin {"get", "undo"}
      BY <1>1, <2>1
    <3>3. QED
      BY <1>0, <2>2, <3>1, <3>2, SamePoolCount DEF IInv
  <2>11. Freeing'
    BY <1>0, <1>1, <2>2, SameFreeing DEF IInv
  <2>12. QED
    BY <1>0, <2>1, <2>3, <2>5, <2>6, <2>8, <2>9, <2>10, <2>11 DEF IInv
<1>4. QED
  BY <1>2, <1>3

(* The first reference to an entry that is not in use.                     *)
LEMMA FirstReference ==
  ASSUME IInv, NEW t \in Threads, NEW e \in Entries, count[e] = 0, Only(t),
         holds' = holds, count' = [count EXCEPT ![e] = 1],
         pc[t] # "count", pc'[t] = "count", entry'[t] = e
  PROVE  Counted' /\ InUse' = InUse \cup {e}
<1>1. Holders[e] = {}
  <2>1. Holders[e] \in SUBSET Threads /\ Cardinality(Holders[e]) = 0
    BY DEF IInv, Counted, Holders
  <2>2. QED
    BY <2>1, PoolAssumption, FS_Subset, FS_EmptySet
<1>2. \A u \in Threads : e \notin holds[u] /\ (pc[u] = "count" => entry[u] # e)
  BY <1>1 DEF Holders
<1>3. Holders' = [Holders EXCEPT ![e] = {t}]
  <2>1. ASSUME NEW x \in Entries PROVE Holders'[x] = IF x = e THEN {t} ELSE Holders[x]
    <3>1. CASE x = e
      BY <3>1, <1>2 DEF Holders, Only
    <3>2. CASE x # e
      BY <3>2 DEF Holders, Only
    <3>3. QED
      BY <3>1, <3>2
  <2>2. Holders' = [x \in Entries |-> Holders'[x]] /\ DOMAIN Holders = Entries
    BY DEF Holders
  <2>3. [Holders EXCEPT ![e] = {t}] = [x \in Entries |-> IF x = e THEN {t} ELSE Holders[x]]
    BY <2>2
  <2>4. [x \in Entries |-> Holders'[x]] = [x \in Entries |-> IF x = e THEN {t} ELSE Holders[x]]
    BY <2>1, Zenon
  <2>5. QED
    BY <2>2, <2>3, <2>4
<1>4. count \in [Entries -> Nat]
  BY DEF IInv, TypeOK
<1>5. \A x \in Entries : count'[x] = Cardinality(Holders'[x])
  <2>1. Cardinality({t}) = 1
    BY FS_Singleton
  <2>2. DOMAIN Holders = Entries
    BY DEF Holders
  <2>3. QED
    BY <1>3, <1>4, <2>1, <2>2 DEF IInv, Counted
<1>6. ASSUME NEW u \in Threads, pc'[u] \in {"count", "write"}
      PROVE  /\ entry'[u] \in Entries /\ Holders'[entry'[u]] = {u}
             /\ pc'[u] = "count" => entry'[u] \notin holds'[u]
  <2>0. DOMAIN Holders = Entries
    BY DEF Holders
  <2>1. CASE u = t
    BY <2>0, <2>1, <1>2, <1>3
  <2>2. CASE u # t
    <3>1. pc'[u] = pc[u] /\ entry'[u] = entry[u]
      BY <2>2 DEF Only
    <3>2. /\ entry[u] \in Entries /\ Holders[entry[u]] = {u}
          /\ pc[u] = "count" => entry[u] \notin holds[u]
      BY <3>1, <1>6 DEF IInv, Counted
    <3>3. entry[u] # e
      BY <3>2, <1>1
    <3>4. QED
      BY <2>0, <3>1, <3>2, <3>3, <1>3
  <2>3. QED
    BY <2>1, <2>2
<1>7. InUse' = InUse \cup {e}
  BY <1>4 DEF InUse
<1>8. QED
  BY <1>5, <1>6, <1>7 DEF Counted

(* ... makes a buffer of the entry or gives that back too, ...             *)
LEMMA CreateInv ==
  ASSUME IInv, NEW t \in Threads, Create(t)
  PROVE  IInv'
<1>0. /\ TypeOK /\ Stage(pc[t], op[t], list[t], entry[t], holds[t])
      /\ pc[t] = "create" /\ op[t] = "get" /\ entry[t] \in Entries /\ list[t] = <<>>
      /\ Apart(ToSet(pool), Owned, InUse, allocated) /\ count \in [Entries -> Nat]
      /\ UNCHANGED <<pool, refcount, alive, callers, allocated, holds, entry, cur>>
  BY DEF IInv, Create, TypeOK, Stage, shared
<1>1. Owned[t] = {entry[t]} /\ callers /\ alive
  <2>1. callers
    BY <1>0 DEF IInv, PoolCounted
  <2>2. alive
    BY <2>1, InUseAlive DEF IInv
  <2>3. QED
    BY <1>0, <2>1, <2>2, ListEmpty DEF Owned, InHand
<1>2. count[entry[t]] = 0
  <2>1. entry[t] \notin InUse
    BY <1>0, <1>1 DEF Apart
  <2>2. QED
    BY <1>0, <2>1 DEF InUse
<1>3. CASE count' = [count EXCEPT ![entry[t]] = 1] /\ Goto(t, "count") /\ UNCHANGED <<op, list>>
  <2>1. /\ pc' = [pc EXCEPT ![t] = "count"] /\ op' = op /\ list' = list
        /\ count' = [count EXCEPT ![entry[t]] = 1]
    BY <1>3 DEF Goto
  <2>2. Only(t) /\ pc'[t] = "count"
    BY <1>0, <2>1 DEF TypeOK, Only
  <2>3. TypeOK'
    <3>1. count' \in [Entries -> Nat]
      BY <1>0, <2>1
    <3>2. QED
      BY <1>0, <2>1, <3>1 DEF TypeOK, PoolLabels
  <2>4. Counted' /\ InUse' = InUse \cup {entry[t]}
    BY <1>0, <1>2, <2>1, <2>2, FirstReference
  <2>5. Owned'[t] = {}
    BY <1>0, <2>1, <2>2, ListEmpty DEF Owned, InHand
  <2>6. Apart(ToSet(pool), Owned, InUse, allocated)'
    <3>1. /\ ToSet(pool) \cap InUse' = {}
          /\ allocated = (allocated \ (ToSet(pool) \cup InUse \cup Owned[t]))
                           \cup ToSet(pool) \cup InUse' \cup {}
          /\ (ToSet(pool) \cup InUse' \cup {}) \cap allocated
               \subseteq ToSet(pool) \cup InUse \cup Owned[t]
      BY <1>0, <1>1, <2>4 DEF Apart
    <3>2. QED
      BY <1>0, <2>2, <2>5, <3>1, OthersOwn, Moved
  <2>7. Stage(pc'[t], op'[t], list'[t], entry'[t], holds'[t]) /\ Distinct(t)'
    BY <1>0, <2>1, <2>2, ListEmpty DEF Stage, Distinct, InHand
  <2>8. \A u \in Threads : Stage(pc'[u], op'[u], list'[u], entry'[u], holds'[u]) /\ Distinct(u)'
    BY <1>0, <2>2, <2>7, OthersStages DEF IInv
  <2>9. PoolCounted'
    <3>1. (t \in Releasing) = (op'[t] = "release" /\ pc'[t] \in {"put", "append", "drop"})
      BY <1>0, <2>1, <2>2 DEF Releasing
    <3>2. QED
      BY <1>0, <1>1, <2>2, <3>1, SamePoolCount DEF IInv
  <2>10. Freeing'
    BY <1>0, <1>1, <2>2, SameFreeing DEF IInv
  <2>11. QED
    BY <1>0, <2>3, <2>4, <2>6, <2>8, <2>9, <2>10 DEF IInv
<1>4. CASE /\ list' = [list EXCEPT ![t] = <<entry[t]>>] /\ op' = [op EXCEPT ![t] = "undo"]
           /\ Goto(t, "put") /\ UNCHANGED count
  <2>1. /\ pc' = [pc EXCEPT ![t] = "put"] /\ op' = [op EXCEPT ![t] = "undo"] /\ count' = count
        /\ list' = [list EXCEPT ![t] = <<entry[t]>>]
    BY <1>4 DEF Goto
  <2>2. Only(t) /\ pc'[t] = "put" /\ op'[t] = "undo" /\ list'[t] = <<entry[t]>>
    BY <1>0, <2>1 DEF TypeOK, Only
  <2>3. TypeOK'
    <3>1. list' \in [Threads -> Seq(Entries)]
      BY <1>0, <2>1, ListOne DEF TypeOK
    <3>2. QED
      BY <1>0, <2>1, <3>1 DEF TypeOK, PoolLabels
  <2>4. Counted'
    BY <1>0, <2>1, <2>2, SameReferences DEF IInv
  <2>5. Owned'[t] = {entry[t]}
    BY <1>0, <2>2, ListOne DEF Owned, InHand
  <2>6. Owned' = Owned /\ InUse' = InUse
    <3>1. Owned' = Owned
      BY <1>0, <1>1, <2>1, <2>2, <2>5, SameOwned
    <3>2. InUse' = InUse
      BY <1>0, <1>1, <2>1, <2>2, <2>5 DEF InUse
    <3>3. QED
      BY <3>1, <3>2
  <2>7. Stage(pc'[t], op'[t], list'[t], entry'[t], holds'[t]) /\ Distinct(t)'
    BY <1>0, <2>1, <2>2, ListOne DEF Stage, Distinct, InHand
  <2>8. \A u \in Threads : Stage(pc'[u], op'[u], list'[u], entry'[u], holds'[u]) /\ Distinct(u)'
    BY <1>0, <2>2, <2>7, OthersStages DEF IInv
  <2>9. PoolCounted'
    <3>1. (t \in Releasing) = (op'[t] = "release" /\ pc'[t] \in {"put", "append", "drop"})
      BY <1>0, <2>1, <2>2 DEF Releasing
    <3>2. QED
      BY <1>0, <1>1, <2>2, <3>1, SamePoolCount DEF IInv
  <2>10. Freeing'
    BY <1>0, <1>1, <2>2, SameFreeing DEF IInv
  <2>11. QED
    BY <1>0, <2>3, <2>4, <2>6, <2>8, <2>9, <2>10 DEF IInv
<1>5. QED
  BY <1>3, <1>4 DEF Create

(* ... or allocates an entry, ...                                          *)
LEMMA AllocInv ==
  ASSUME IInv, NEW t \in Threads, Alloc(t)
  PROVE  IInv'
<1>0. /\ TypeOK /\ Stage(pc[t], op[t], list[t], entry[t], holds[t])
      /\ pc[t] = "alloc" /\ op[t] = "get" /\ list[t] = <<>>
      /\ Apart(ToSet(pool), Owned, InUse, allocated) /\ count \in [Entries -> Nat]
      /\ UNCHANGED <<pool, refcount, alive, callers, holds, list, cur>>
  BY DEF IInv, Alloc, TypeOK, Stage
<1>1. callers /\ alive
  <2>1. callers
    BY <1>0 DEF IInv, PoolCounted
  <2>2. QED
    BY <2>1, InUseAlive DEF IInv
<1>2. ~InHand(t) /\ t \notin Releasing /\ Owned[t] = {}
  BY <1>0, ListEmpty DEF InHand, Releasing, Owned
<1>3. CASE Return(t) /\ UNCHANGED <<allocated, count>>
  <2>1. /\ pc' = [pc EXCEPT ![t] = "idle"] /\ op' = [op EXCEPT ![t] = "none"]
        /\ entry' = [entry EXCEPT ![t] = NoEntry] /\ allocated' = allocated /\ count' = count
    BY <1>3 DEF Return, Goto
  <2>2. Only(t) /\ pc'[t] = "idle" /\ op'[t] = "none"
    BY <1>0, <2>1 DEF TypeOK, Only
  <2>3. TypeOK'
    BY <1>0, <2>1 DEF TypeOK
  <2>4. ~InHand(t)' /\ Stage(pc'[t], op'[t], list'[t], entry'[t], holds'[t])
    BY <1>0, <2>2 DEF InHand, Stage
  <2>5. QED
    BY <1>0, <1>2, <2>1, <2>2, <2>3, <2>4, QuietInv
<1>4. ASSUME NEW e \in Entries \ allocated,
             allocated' = allocated \cup {e}, count' = [count EXCEPT ![e] = 1],
             entry' = [entry EXCEPT ![t] = e], Goto(t, "count"), UNCHANGED op
      PROVE  IInv'
  <2>1. pc' = [pc EXCEPT ![t] = "count"]
    BY <1>4 DEF Goto
  <2>2. Only(t) /\ pc'[t] = "count" /\ entry'[t] = e /\ op'[t] = "get" /\ list'[t] = <<>>
    BY <1>0, <1>4, <2>1 DEF TypeOK, Only
  <2>3. TypeOK'
    <3>1. count' \in [Entries -> Nat]
      BY <1>0, <1>4
    <3>2. QED
      BY <1>0, <1>4, <2>1, <3>1 DEF TypeOK, PoolLabels
  <2>4. count[e] = 0
    <3>1. e \notin InUse
      BY <1>0 DEF Apart
    <3>2. QED
      BY <1>0, <3>1 DEF InUse
  <2>5. Counted' /\ InUse' = InUse \cup {e}
    BY <1>0, <1>4, <2>2, <2>4, FirstReference
  <2>6. Apart(ToSet(pool), Owned, InUse, allocated)'
    <3>1. Owned'[t] = {}
      BY <2>2, ListEmpty DEF Owned, InHand
    <3>2. /\ ToSet(pool) \cap InUse' = {} /\ Owned'[t] \cap (ToSet(pool) \cup InUse') = {}
          /\ allocated' = (allocated \ (ToSet(pool) \cup InUse \cup Owned[t]))
                            \cup ToSet(pool) \cup InUse' \cup Owned'[t]
          /\ (ToSet(pool) \cup InUse' \cup Owned'[t]) \cap allocated
               \subseteq ToSet(pool) \cup InUse \cup Owned[t]
      BY <1>0, <1>2, <1>4, <2>5, <3>1 DEF Apart
    <3>3. QED
      BY <1>0, <2>2, <3>2, OthersOwn, Moved
  <2>7. Stage(pc'[t], op'[t], list'[t], entry'[t], holds'[t]) /\ Distinct(t)'
    BY <1>0, <2>2, ListEmpty DEF Stage, Distinct, InHand
  <2>8. \A u \in Threads : Stage(pc'[u], op'[u], list'[u], entry'[u], holds'[u]) /\ Distinct(u)'
    BY <1>0, <2>2, <2>7, OthersStages DEF IInv
  <2>9. PoolCounted'
    <3>1. (t \in Releasing) = (op'[t] = "release" /\ pc'[t] \in {"put", "append", "drop"})
      BY <1>2, <2>2
    <3>2. QED
      BY <1>0, <1>1, <2>2, <3>1, SamePoolCount DEF IInv
  <2>10. Freeing'
    BY <1>0, <1>1, <2>2, SameFreeing DEF IInv
  <2>11. QED
    BY <1>0, <2>3, <2>5, <2>6, <2>8, <2>9, <2>10 DEF IInv
<1>5. QED
  <2>1. \/ Return(t) /\ UNCHANGED <<allocated, count>>
        \/ \E e \in Entries \ allocated :
             /\ allocated' = allocated \cup {e} /\ count' = [count EXCEPT ![e] = 1]
             /\ entry' = [entry EXCEPT ![t] = e] /\ Goto(t, "count") /\ UNCHANGED op
    BY DEF Alloc
  <2>2. QED
    BY <2>1, <1>3, <1>4

(* ... and counts the buffer it returns.                                   *)
LEMMA CountInv ==
  ASSUME IInv, NEW t \in Threads, Count(t)
  PROVE  IInv'
<1> DEFINE e == entry[t]
<1>0. /\ TypeOK /\ Stage(pc[t], op[t], list[t], entry[t], holds[t])
      /\ pc[t] = "count" /\ op[t] = "get" /\ list[t] = <<>> /\ e \in Entries
      /\ holds \in [Threads -> SUBSET Entries]
      /\ UNCHANGED <<pool, alive, callers, allocated, count, list, cur>>
      /\ refcount' = refcount + 1 /\ holds' = [holds EXCEPT ![t] = @ \cup {e}]
      /\ pc' = [pc EXCEPT ![t] = "idle"] /\ op' = [op EXCEPT ![t] = "none"]
      /\ entry' = [entry EXCEPT ![t] = NoEntry]
  BY DEF IInv, Count, TypeOK, Stage, Return, Goto
<1>1. /\ Only(t) /\ pc'[t] = "idle" /\ op'[t] = "none"
      /\ holds'[t] = holds[t] \cup {e} /\ \A u \in Threads \ {t} : holds'[u] = holds[u]
  BY <1>0 DEF TypeOK, Only
<1>2. callers /\ alive /\ refcount \in Nat /\ IsFiniteSet(Out) /\ Cardinality(Out) \in Nat
      /\ (\A u \in Threads : pc[u] # "free") /\ Cardinality(Releasing) \in Nat
  <2>1. callers
    BY <1>0 DEF IInv, PoolCounted
  <2>2. QED
    BY <2>1, InUseAlive DEF IInv
<1>3. TypeOK'
  <2>1. refcount' \in Nat /\ holds' \in [Threads -> SUBSET Entries]
    BY <1>0, <1>2
  <2>2. QED
    BY <1>0, <2>1 DEF TypeOK
<1>4. Apart(ToSet(pool), Owned, InUse, allocated)'
  <2>1. ~InHand(t) /\ ~InHand(t)'
    BY <1>0, <1>1 DEF InHand
  <2>2. Owned'[t] = Owned[t]
    BY <1>0, <2>1 DEF Owned
  <2>3. Owned' = Owned /\ InUse' = InUse
    <3>1. Owned' = Owned
      BY <1>0, <1>1, <2>2, SameOwned
    <3>2. InUse' = InUse
      BY <1>0, <1>1, <2>2 DEF InUse
    <3>3. QED
      BY <3>1, <3>2
  <2>4. QED
    BY <1>0, <2>3 DEF IInv
<1>5. Stage(pc'[t], op'[t], list'[t], entry'[t], holds'[t]) /\ Distinct(t)'
  BY <1>0, <1>1, ListEmpty DEF Stage, Distinct, InHand
<1>6. \A u \in Threads : Stage(pc'[u], op'[u], list'[u], entry'[u], holds'[u]) /\ Distinct(u)'
  BY <1>1, <1>5, OthersStages DEF IInv
<1>7. Holders[e] = {t} /\ e \notin holds[t]
  BY <1>0 DEF IInv, Counted
<1>8. Holders' = Holders
  <2>1. ASSUME NEW x \in Entries, NEW u \in Threads
        PROVE  (x \in holds'[u] \/ (pc'[u] = "count" /\ entry'[u] = x))
                 = (x \in holds[u] \/ (pc[u] = "count" /\ entry[u] = x))
    <3>1. CASE u = t
      BY <3>1, <1>0, <1>1
    <3>2. CASE u # t
      BY <3>2, <1>1 DEF Only
    <3>3. QED
      BY <3>1, <3>2
  <2>2. QED
    BY <2>1 DEF Holders
<1>9. Counted'
  <2>1. ASSUME NEW u \in Threads, pc'[u] \in {"count", "write"}
        PROVE  /\ entry'[u] \in Entries /\ Holders'[entry'[u]] = {u}
               /\ pc'[u] = "count" => entry'[u] \notin holds'[u]
    <3>1. u # t
      BY <1>1, <2>1
    <3>2. QED
      BY <3>1, <1>1, <1>8, <2>1 DEF IInv, Counted, Only
  <2>2. QED
    BY <1>0, <1>8, <2>1 DEF IInv, Counted
<1>10. PoolCounted'
  <2>1. e \notin Out
    BY <1>7 DEF Out, Holders
  <2>2. Out' = Out \cup {e}
    BY <1>0, <1>1 DEF Out
  <2>3. Cardinality(Out') = Cardinality(Out) + 1
    BY <1>2, <2>1, <2>2, FS_AddElement
  <2>4. Releasing' = Releasing
    BY <1>0, <1>1 DEF Releasing, Only
  <2>5. QED
    BY <1>0, <1>2, <2>3, <2>4 DEF IInv, PoolCounted
<1>11. Freeing'
  BY <1>0, <1>1, <1>2, SameFreeing DEF IInv
<1>12. QED
  BY <1>0, <1>3, <1>4, <1>6, <1>9, <1>10, <1>11 DEF IInv

------------------------------------------------------------------------------
(* av_buffer_ref.                                                          *)
LEMMA RefInv ==
  ASSUME IInv, NEW t \in Threads, NEW u \in Threads, Ref(t, u)
  PROVE  IInv'
<1>0. /\ TypeOK /\ pc[t] = "idle" /\ count \in [Entries -> Nat]
      /\ holds \in [Threads -> SUBSET Entries]
      /\ UNCHANGED <<pool, refcount, alive, callers, allocated, pc, op, list, entry, cur>>
  BY DEF IInv, Ref, TypeOK, shared
<1>1. PICK e \in holds[t] \ holds[u] : /\ count' = [count EXCEPT ![e] = @ + 1]
                                       /\ holds' = [holds EXCEPT ![u] = @ \cup {e}]
  BY DEF Ref
<1>2. /\ e \in Entries /\ count'[e] = count[e] + 1 /\ \A x \in Entries \ {e} : count'[x] = count[x]
      /\ holds'[u] = holds[u] \cup {e} /\ \A v \in Threads \ {u} : holds'[v] = holds[v]
  BY <1>0, <1>1
<1>3. TypeOK'
  <2>1. count' \in [Entries -> Nat] /\ holds' \in [Threads -> SUBSET Entries]
    BY <1>0, <1>1, <1>2
  <2>2. QED
    BY <1>0, <2>1 DEF TypeOK
<1>4. t \in Holders[e] /\ ~(\E v \in Threads : Holders[e] = {v} /\ v # t)
  BY <1>0, <1>2 DEF Holders
<1>5. ~(pc[u] = "count" /\ entry[u] = e) /\ u \notin Holders[e]
  <2>1. u # t
    BY <1>1
  <2>2. ~(pc[u] = "count" /\ entry[u] = e)
    BY <2>1, <1>4 DEF IInv, Counted
  <2>3. QED
    BY <2>2, <1>1, <1>2 DEF Holders
<1>6. /\ Holders'[e] = Holders[e] \cup {u}
      /\ \A x \in Entries \ {e} : Holders'[x] = Holders[x]
  <2>1. ASSUME NEW v \in Threads
        PROVE  /\ (e \in holds'[v] \/ (pc[v] = "count" /\ entry[v] = e))
                    = (v = u \/ e \in holds[v] \/ (pc[v] = "count" /\ entry[v] = e))
               /\ \A x \in Entries \ {e} : (x \in holds'[v]) = (x \in holds[v])
    BY <1>2
  <2>2. QED
    BY <1>0, <1>2, <2>1 DEF Holders
<1>7. count[e] = Cardinality(Holders[e]) /\ IsFiniteSet(Holders[e]) /\ count[e] \in Nat
      /\ count[e] > 0
  <2>1. Holders[e] \in SUBSET Threads
    BY <1>2 DEF Holders
  <2>2. IsFiniteSet(Holders[e]) /\ count[e] = Cardinality(Holders[e]) /\ count[e] \in Nat
    BY <1>0, <1>2, <2>1, PoolAssumption, FS_Subset DEF IInv, Counted
  <2>3. count[e] # 0
    BY <1>4, <2>2, FS_EmptySet
  <2>4. QED
    BY <2>2, <2>3
<1>8. Counted'
  <2>1. ASSUME NEW x \in Entries PROVE count'[x] = Cardinality(Holders'[x])
    <3>1. CASE x = e
      <4>1. Cardinality(Holders[e] \cup {u}) = Cardinality(Holders[e]) + 1
        BY <1>5, <1>7, FS_AddElement
      <4>2. QED
        BY <3>1, <4>1, <1>2, <1>6, <1>7
    <3>2. CASE x # e
      BY <3>2, <1>2, <1>6 DEF IInv, Counted
    <3>3. QED
      BY <3>1, <3>2
  <2>2. ASSUME NEW v \in Threads, pc[v] \in {"count", "write"}
        PROVE  /\ entry[v] \in Entries /\ Holders'[entry[v]] = {v}
               /\ pc[v] = "count" => entry[v] \notin holds'[v]
    <3>1. /\ entry[v] \in Entries /\ Holders[entry[v]] = {v}
          /\ pc[v] = "count" => entry[v] \notin holds[v]
      BY <2>2 DEF IInv, Counted
    <3>2. entry[v] # e
      BY <3>1, <2>2, <1>0, <1>4
    <3>3. QED
      BY <3>1, <3>2, <1>2, <1>6
  <2>3. QED
    BY <1>0, <2>1, <2>2 DEF Counted
<1>9. InUse' = InUse
  BY <1>0, <1>2, <1>7 DEF InUse
<1>10. Owned' = Owned /\ (\A v \in Threads : Distinct(v)')
  BY <1>0 DEF IInv, Owned, InHand, Distinct
<1>11. \A v \in Threads : Stage(pc'[v], op'[v], list'[v], entry'[v], holds'[v])
  <2>1. \A v \in Threads : holds[v] \subseteq holds'[v]
    BY <1>2
  <2>2. QED
    BY <1>0, <2>1 DEF IInv, Stage
<1>12. PoolCounted' /\ Freeing'
  <2>1. Out' = Out
    <3>1. e \in Out
      BY <1>1, <1>2 DEF Out
    <3>2. QED
      BY <1>2, <3>1 DEF Out
  <2>2. Releasing' = Releasing
    BY <1>0 DEF Releasing
  <2>3. QED
    BY <1>0, <2>1, <2>2 DEF IInv, PoolCounted, Freeing
<1>13. QED
  BY <1>0, <1>3, <1>8, <1>9, <1>10, <1>11, <1>12 DEF IInv

(* av_buffer_unref: the last reference puts the entry into the hands of    *)
(* the thread, which then returns it to the pool.                          *)
LEMMA UnrefInv ==
  ASSUME IInv, NEW t \in Threads, NEW e \in holds[t], Unref(t, e),
         pc[t] \in {"idle", "copy"}, UNCHANGED <<pool, refcount, alive, callers, allocated, cur>>
  PROVE  IInv'
<1>0. /\ TypeOK /\ Stage(pc[t], op[t], list[t], entry[t], holds[t])
      /\ op[t] = "none" /\ list[t] = <<>> /\ e \in Entries
      /\ count \in [Entries -> Nat] /\ holds \in [Threads -> SUBSET Entries]
      /\ Apart(ToSet(pool), Owned, InUse, allocated)
      /\ count' = [count EXCEPT ![e] = @ - 1] /\ holds' = [holds EXCEPT ![t] = @ \ {e}]
      /\ pool' = pool /\ allocated' = allocated /\ IsInjective(pool')
  BY DEF IInv, Unref, TypeOK, Stage
<1>1. /\ count'[e] = count[e] - 1 /\ \A x \in Entries \ {e} : count'[x] = count[x]
      /\ holds'[t] = holds[t] \ {e} /\ \A v \in Threads \ {t} : holds'[v] = holds[v]
  BY <1>0
<1>2. /\ Only(t) /\ pc'[t] \in {"put", "idle"} /\ ~InHand(t) /\ ~InHand(t)'
      /\ count[e] = 1 => /\ pc'[t] = "put" /\ op'[t] = "release" /\ list'[t] = <<e>>
      /\ count[e] # 1 => /\ pc'[t] = "idle" /\ op'[t] = "none" /\ list'[t] = <<>>
      /\ list' \in [Threads -> Seq(Entries)] /\ entry' \in [Threads -> Entries \cup {NoEntry}]
      /\ op' \in [Threads -> {"none", "get", "undo", "release"}]
      /\ pc' \in [Threads -> PoolLabels \cup {"idle", "write", "copy"}]
  <2>1. CASE count[e] = 1
    <3>1. /\ list' = [list EXCEPT ![t] = <<e>>] /\ op' = [op EXCEPT ![t] = "release"]
          /\ entry' = [entry EXCEPT ![t] = NoEntry] /\ pc' = [pc EXCEPT ![t] = "put"]
      BY <2>1 DEF Unref, Goto
    <3>2. list' \in [Threads -> Seq(Entries)]
      BY <1>0, <3>1, ListOne DEF TypeOK
    <3>3. QED
      BY <1>0, <2>1, <3>1, <3>2 DEF TypeOK, PoolLabels, Only, InHand
  <2>2. CASE count[e] # 1
    <3>1. /\ list' = list /\ op' = [op EXCEPT ![t] = "none"]
          /\ entry' = [entry EXCEPT ![t] = NoEntry] /\ pc' = [pc EXCEPT ![t] = "idle"]
      BY <2>2 DEF Unref, Goto, Return
    <3>2. QED
      BY <1>0, <2>2, <3>1 DEF TypeOK, PoolLabels, Only, InHand
  <2>3. QED
    BY <2>1, <2>2
<1>3. /\ t \in Holders[e] /\ IsFiniteSet(Holders[e]) /\ count[e] = Cardinality(Holders[e])
      /\ count[e] \in Nat /\ count[e] >= 1
  <2>1. t \in Holders[e] /\ Holders[e] \in SUBSET Threads
    BY <1>0 DEF Holders
  <2>2. IsFiniteSet(Holders[e]) /\ count[e] = Cardinality(Holders[e]) /\ count[e] \in Nat
    BY <1>0, <2>1, PoolAssumption, FS_Subset DEF IInv, Counted
  <2>3. count[e] # 0
    BY <2>1, <2>2, FS_EmptySet
  <2>4. QED
    BY <2>1, <2>2, <2>3
<1>4. count[e] = 1 <=> Holders[e] = {t}
  <2>1. Cardinality(Holders[e] \ {t}) = count[e] - 1 /\ IsFiniteSet(Holders[e] \ {t})
    BY <1>3, FS_RemoveElement
  <2>2. Holders[e] \ {t} = {} <=> Cardinality(Holders[e] \ {t}) = 0
    BY <2>1, FS_EmptySet
  <2>3. Holders[e] \ {t} = {} <=> count[e] = 1
    BY <2>1, <2>2, <1>3
  <2>4. QED
    BY <2>3, <1>3
<1>5. TypeOK'
  <2>1. count' \in [Entries -> Nat] /\ holds' \in [Threads -> SUBSET Entries]
    BY <1>0, <1>1, <1>3
  <2>2. QED
    BY <1>0, <1>2, <2>1 DEF TypeOK
<1>6. /\ Holders'[e] = Holders[e] \ {t}
      /\ \A x \in Entries \ {e} : Holders'[x] = Holders[x]
  <2>1. ASSUME NEW v \in Threads, NEW x \in Entries
        PROVE  (x \in holds'[v] \/ (pc'[v] = "count" /\ entry'[v] = x))
                 = ((v # t \/ x # e) /\ (x \in holds[v] \/ (pc[v] = "count" /\ entry[v] = x)))
    <3>1. CASE v = t
      BY <3>1, <1>1, <1>2
    <3>2. CASE v # t
      BY <3>2, <1>1, <1>2 DEF Only
    <3>3. QED
      BY <3>1, <3>2
  <2>2. QED
    BY <1>0, <2>1 DEF Holders
<1>7. Counted'
  <2>1. ASSUME NEW x \in Entries PROVE count'[x] = Cardinality(Holders'[x])
    <3>1. CASE x = e
      <4>1. Cardinality(Holders[e] \ {t}) = Cardinality(Holders[e]) - 1
        BY <1>3, FS_RemoveElement
      <4>2. QED
        BY <3>1, <4>1, <1>1, <1>3, <1>6
    <3>2. CASE x # e
      BY <3>2, <1>1, <1>6 DEF IInv, Counted
    <3>3. QED
      BY <3>1, <3>2
  <2>2. ASSUME NEW v \in Threads, pc'[v] \in {"count", "write"}
        PROVE  /\ entry'[v] \in Entries /\ Holders'[entry'[v]] = {v}
               /\ pc'[v] = "count" => entry'[v] \notin holds'[v]
    <3>1. v # t
      BY <1>2, <2>2
    <3>2. pc'[v] = pc[v] /\ entry'[v] = entry[v] /\ holds'[v] = holds[v]
      BY <3>1, <1>1, <1>2 DEF Only
    <3>3. /\ entry[v] \in Entries /\ Holders[entry[v]] = {v}
          /\ pc[v] = "count" => entry[v] \notin holds[v]
      BY <2>2, <3>2 DEF IInv, Counted
    <3>4. entry[v] # e
      BY <3>1, <3>3, <1>3
    <3>5. QED
      BY <3>2, <3>3, <3>4, <1>6
  <2>3. QED
    BY <2>1, <2>2 DEF Counted
<1>8. Owned[t] = {} /\ Owned'[t] = IF count[e] = 1 THEN {e} ELSE {}
  BY <1>0, <1>2, ListEmpty, ListOne DEF Owned
<1>9. InUse' = IF count[e] = 1 THEN InUse \ {e} ELSE InUse
  BY <1>0, <1>1, <1>3 DEF InUse
<1>10. Apart(ToSet(pool), Owned, InUse, allocated)'
  <2>1. e \in InUse /\ e \notin ToSet(pool)
    BY <1>0, <1>3 DEF InUse, Apart
  <2>2. /\ ToSet(pool) \cap InUse' = {} /\ Owned'[t] \cap (ToSet(pool) \cup InUse') = {}
        /\ InUse' \cup Owned'[t] = InUse \cup Owned[t]
    BY <1>0, <1>8, <1>9, <2>1 DEF Apart
  <2>3. /\ allocated = (allocated \ (ToSet(pool) \cup InUse \cup Owned[t]))
                          \cup ToSet(pool) \cup InUse' \cup Owned'[t]
        /\ (ToSet(pool) \cup InUse' \cup Owned'[t]) \cap allocated
             \subseteq ToSet(pool) \cup InUse \cup Owned[t]
    BY <1>0, <2>2 DEF Apart
  <2>4. \A u \in Threads \ {t} : Owned'[u] = Owned[u]
    BY <1>2, OthersOwn
  <2>5. Apart(ToSet(pool), Owned, InUse, allocated)
    BY <1>0
  <2>6. Apart(ToSet(pool), Owned', InUse', allocated)
    BY <2>2, <2>3, <2>4, <2>5, Moved
  <2>7. QED
    BY <2>6, <1>0
<1>11. Stage(pc'[t], op'[t], list'[t], entry'[t], holds'[t]) /\ Distinct(t)'
  BY <1>0, <1>2, ListEmpty, ListOne DEF Stage, Distinct
<1>12. \A u \in Threads : Stage(pc'[u], op'[u], list'[u], entry'[u], holds'[u]) /\ Distinct(u)'
  BY <1>1, <1>2, <1>11, OthersStages DEF IInv
<1>13. /\ callers' = callers /\ refcount' = refcount /\ alive
       /\ IsFiniteSet(Out) /\ Cardinality(Out) \in Nat
       /\ IsFiniteSet(Releasing) /\ Cardinality(Releasing) \in Nat
       /\ e \in Out
  <2>1. e \in Out
    BY <1>0 DEF Out
  <2>2. QED
    BY <2>1, InUseAlive DEF IInv
<1>14. PoolCounted'
  <2>1. ~callers => \A u \in Threads : op'[u] \notin {"get", "undo"}
    BY <1>2 DEF IInv, PoolCounted, Only
  <2>2. t \notin Releasing /\ \A u \in Threads \ {t} : (u \in Releasing') = (u \in Releasing)
    BY <1>0, <1>2 DEF Releasing, Only
  <2>3. CASE count[e] = 1
    <3>1. \A v \in Threads \ {t} : e \notin holds[v]
      BY <2>3, <1>0, <1>4 DEF Holders
    <3>2. Out' = Out \ {e}
      BY <1>0, <1>1, <3>1 DEF Out
    <3>3. Releasing' = Releasing \cup {t}
      BY <2>2, <2>3, <1>2 DEF Releasing
    <3>4. Cardinality(Out') = Cardinality(Out) - 1
      BY <3>2, <1>13, FS_RemoveElement
    <3>5. Cardinality(Releasing') = Cardinality(Releasing) + 1
      BY <3>3, <2>2, <1>13, FS_AddElement
    <3>6. QED
      BY <2>1, <3>4, <3>5, <1>13 DEF IInv, PoolCounted
  <2>4. CASE count[e] # 1
    <3>1. PICK v \in Threads \ {t} : e \in holds[v]
      <4>1. ~(Holders[e] \subseteq {t})
        BY <2>4, <1>3, <1>4
      <4>2. PICK v \in Threads \ {t} : v \in Holders[e]
        BY <4>1, <1>0 DEF Holders
      <4>3. ~(pc[v] = "count" /\ entry[v] = e)
        BY <4>2, <1>3 DEF IInv, Counted
      <4>4. QED
        BY <4>2, <4>3, <1>0 DEF Holders
    <3>2. Out' = Out
      BY <1>0, <1>1, <3>1 DEF Out
    <3>3. Releasing' = Releasing
      BY <2>2, <2>4, <1>2 DEF Releasing
    <3>4. QED
      BY <2>1, <3>2, <3>3, <1>13 DEF IInv, PoolCounted
  <2>5. QED
    BY <2>3, <2>4
<1>15. Freeing'
  BY <1>2, <1>13, SameFreeing DEF IInv
<1>16. QED
  BY <1>5, <1>7, <1>10, <1>12, <1>14, <1>15 DEF IInv

(* ... of a buffer the thread has no use for any more.                     *)
LEMMA ReleaseInv ==
  ASSUME IInv, NEW t \in Threads, Release(t)
  PROVE  IInv'
BY UnrefInv DEF Release, shared

(* The rest of a release: the pool loses a reference, perhaps the last.    *)
LEMMA DropInv ==
  ASSUME IInv, NEW t \in Threads, Drop(t)
  PROVE  IInv'
<1>0. /\ TypeOK /\ Stage(pc[t], op[t], list[t], entry[t], holds[t])
      /\ pc[t] = "drop" /\ op[t] = "release" /\ list[t] = <<>> /\ refcount' = refcount - 1
      /\ UNCHANGED <<pool, alive, callers, allocated, count, holds, list, cur>>
  BY DEF IInv, Drop, TypeOK, Stage
<1>1. t \in Releasing
  BY <1>0 DEF Releasing
<1>2. /\ refcount \in Nat /\ refcount >= 1 /\ alive /\ \A u \in Threads : pc[u] # "free"
      /\ IsFiniteSet(Releasing) /\ Cardinality(Releasing) \in Nat
      /\ IsFiniteSet(Out) /\ Cardinality(Out) \in Nat
  BY <1>1, InUseAlive DEF IInv
<1>3. /\ Only(t) /\ pc'[t] \in {"free", "idle"} /\ (pc'[t] = "free" => refcount' = 0)
      /\ (pc'[t] = "free" => op'[t] = "release") /\ (pc'[t] = "idle" => op'[t] = "none")
      /\ entry' \in [Threads -> Entries \cup {NoEntry}]
      /\ op' \in [Threads -> {"none", "get", "undo", "release"}]
      /\ pc' \in [Threads -> PoolLabels \cup {"idle", "write", "copy"}]
  <2>1. CASE refcount' = 0
    <3>1. pc' = [pc EXCEPT ![t] = "free"] /\ op' = op /\ entry' = entry
      BY <2>1 DEF Drop, Goto
    <3>2. QED
      BY <1>0, <2>1, <3>1 DEF TypeOK, PoolLabels, Only
  <2>2. CASE refcount' # 0
    <3>1. /\ pc' = [pc EXCEPT ![t] = "idle"] /\ op' = [op EXCEPT ![t] = "none"]
          /\ entry' = [entry EXCEPT ![t] = NoEntry]
      BY <2>2 DEF Drop, Goto, Return
    <3>2. QED
      BY <1>0, <3>1 DEF TypeOK, Only
  <2>3. QED
    BY <2>1, <2>2
<1>4. TypeOK'
  BY <1>0, <1>2, <1>3 DEF TypeOK
<1>5. ~InHand(t) /\ ~InHand(t)'
  BY <1>0, <1>3 DEF InHand
<1>6. Apart(ToSet(pool), Owned, InUse, allocated)'
  <2>1. Owned'[t] = Owned[t]
    BY <1>0, <1>5 DEF Owned
  <2>2. Owned' = Owned /\ InUse' = InUse
    <3>1. Owned' = Owned
      BY <1>0, <1>3, <2>1, SameOwned
    <3>2. InUse' = InUse
      BY <1>0, <1>3, <2>1 DEF InUse
    <3>3. QED
      BY <3>1, <3>2
  <2>3. QED
    BY <1>0, <2>2 DEF IInv
<1>7. Stage(pc'[t], op'[t], list'[t], entry'[t], holds'[t]) /\ Distinct(t)'
  BY <1>0, <1>3, <1>5, ListEmpty DEF Stage, Distinct
<1>8. \A u \in Threads : Stage(pc'[u], op'[u], list'[u], entry'[u], holds'[u]) /\ Distinct(u)'
  BY <1>0, <1>3, <1>7, OthersStages DEF IInv
<1>9. Counted'
  BY <1>0, <1>3, SameReferences DEF IInv
<1>10. PoolCounted'
  <2>1. Releasing' = Releasing \ {t}
    BY <1>3 DEF Releasing, Only
  <2>2. Cardinality(Releasing') = Cardinality(Releasing) - 1
    BY <1>1, <1>2, <2>1, FS_RemoveElement
  <2>3. Out' = Out
    BY <1>0 DEF Out
  <2>4. callers' = callers /\ (~callers => \A u \in Threads : op'[u] \notin {"get", "undo"})
    BY <1>0, <1>3 DEF IInv, PoolCounted, Only
  <2>5. /\ refcount = (IF callers THEN 1 ELSE 0) + Cardinality(Out) + Cardinality(Releasing)
        /\ refcount' = refcount - 1
        /\ Cardinality(Out) \in Nat /\ Cardinality(Releasing) \in Nat
    BY <1>0, <1>2 DEF IInv, PoolCounted
  <2>6. refcount'
          = (IF callers THEN 1 ELSE 0) + Cardinality(Out) + (Cardinality(Releasing) - 1)
    <3>1. PICK c \in 0 .. 1 : c = IF callers THEN 1 ELSE 0
      OBVIOUS
    <3>2. QED
      BY <2>5, <3>1
  <2>7. QED
    BY <2>2, <2>3, <2>4, <2>6 DEF PoolCounted
<1>11. Freeing'
  BY <1>0, <1>2, <1>3 DEF Freeing, Only
<1>12. QED
  BY <1>0, <1>4, <1>6, <1>8, <1>9, <1>10, <1>11 DEF IInv

(* av_buffer_pool_uninit.                                                  *)
LEMMA UninitInv ==
  ASSUME IInv, NEW t \in Threads, Uninit(t)
  PROVE  IInv'
<1>0. /\ TypeOK /\ Stage(pc[t], op[t], list[t], entry[t], holds[t])
      /\ pc[t] = "idle" /\ op[t] = "none" /\ list[t] = <<>> /\ refcount' = refcount - 1
      /\ callers /\ callers' = FALSE
      /\ UNCHANGED <<pool, alive, allocated, count, holds, op, list, entry, cur>>
  BY DEF IInv, Uninit, TypeOK, Stage
<1>1. /\ refcount \in Nat /\ refcount >= 1 /\ alive /\ \A u \in Threads : pc[u] # "free"
      /\ Cardinality(Releasing) \in Nat /\ Cardinality(Out) \in Nat
  BY <1>0, InUseAlive DEF IInv
<1>2. /\ Only(t) /\ pc'[t] \in {"free", "idle"} /\ (pc'[t] = "free" => refcount' = 0)
      /\ pc' \in [Threads -> PoolLabels \cup {"idle", "write", "copy"}]
  <2>1. CASE refcount' = 0
    <3>1. pc' = [pc EXCEPT ![t] = "free"]
      BY <2>1 DEF Uninit, Goto
    <3>2. QED
      BY <1>0, <2>1, <3>1 DEF TypeOK, PoolLabels, Only
  <2>2. CASE refcount' # 0
    BY <1>0, <2>2 DEF Uninit, TypeOK, Only
  <2>3. QED
    BY <2>1, <2>2
<1>3. TypeOK'
  <2>1. refcount' \in Nat
    BY <1>0, <1>1
  <2>2. callers' \in BOOLEAN
    BY <1>0
  <2>3. QED
    BY <1>0, <1>2, <2>1, <2>2 DEF TypeOK
<1>4. ~InHand(t) /\ ~InHand(t)'
  BY <1>0, <1>2 DEF InHand
<1>5. Apart(ToSet(pool), Owned, InUse, allocated)'
  <2>1. Owned'[t] = Owned[t]
    BY <1>0, <1>4 DEF Owned
  <2>2. Owned' = Owned /\ InUse' = InUse
    <3>1. Owned' = Owned
      BY <1>0, <1>2, <2>1, SameOwned
    <3>2. InUse' = InUse
      BY <1>0, <1>2, <2>1 DEF InUse
    <3>3. QED
      BY <3>1, <3>2
  <2>3. QED
    BY <1>0, <2>2 DEF IInv
<1>6. Stage(pc'[t], op'[t], list'[t], entry'[t], holds'[t]) /\ Distinct(t)'
  BY <1>0, <1>2, <1>4, ListEmpty DEF Stage, Distinct
<1>7. \A u \in Threads : Stage(pc'[u], op'[u], list'[u], entry'[u], holds'[u]) /\ Distinct(u)'
  BY <1>0, <1>2, <1>6, OthersStages DEF IInv
<1>8. Counted'
  BY <1>0, <1>2, SameReferences DEF IInv
<1>9. PoolCounted'
  <2>1. Releasing' = Releasing /\ Out' = Out
    BY <1>0, <1>2 DEF Releasing, Only, Out
  <2>2. \A u \in Threads : op'[u] \notin {"get", "undo"}
    BY <1>0 DEF Uninit
  <2>3. QED
    BY <1>0, <1>1, <2>1, <2>2 DEF IInv, PoolCounted
<1>10. Freeing'
  BY <1>0, <1>1, <1>2 DEF Freeing, Only
<1>11. QED
  BY <1>0, <1>3, <1>5, <1>7, <1>8, <1>9, <1>10 DEF IInv

(* buffer_pool_free.                                                       *)
LEMMA FreeInv ==
  ASSUME IInv, NEW t \in Threads, Free(t)
  PROVE  IInv'
<1>0. /\ TypeOK /\ Stage(pc[t], op[t], list[t], entry[t], holds[t])
      /\ pc[t] = "free" /\ list[t] = <<>> /\ pool' = <<>> /\ alive' = FALSE
      /\ allocated' = allocated \ ToSet(pool) /\ refcount = 0
      /\ pc' = [pc EXCEPT ![t] = "idle"] /\ op' = [op EXCEPT ![t] = "none"]
      /\ entry' = [entry EXCEPT ![t] = NoEntry]
      /\ UNCHANGED <<refcount, callers, count, holds, list, cur>>
  BY DEF IInv, Free, TypeOK, Stage, Return, Goto, Freeing
<1>1. Only(t) /\ pc'[t] = "idle" /\ op'[t] = "none"
  BY <1>0 DEF TypeOK, Only
<1>2. TypeOK'
  <2>1. pool' \in Seq(Entries) /\ alive' \in BOOLEAN /\ allocated' \subseteq Entries
    BY <1>0, ListEmpty DEF TypeOK
  <2>2. QED
    BY <1>0, <2>1 DEF TypeOK
<1>3. ~InHand(t) /\ ~InHand(t)'
  BY <1>0, <1>1 DEF InHand
<1>4. Apart(ToSet(pool), Owned, InUse, allocated)'
  <2>1. Owned'[t] = Owned[t]
    BY <1>0, <1>3 DEF Owned
  <2>2. InUse' = InUse /\ ToSet(pool') = {}
    BY <1>0, ListEmpty DEF InUse
  <2>3. Apart(ToSet(pool), Owned, InUse, allocated)
    BY DEF IInv
  <2>4. /\ Owned'[t] \cap InUse = {}
        /\ allocated' = (allocated \ (ToSet(pool) \cup InUse \cup Owned[t]))
                          \cup {} \cup InUse \cup Owned'[t]
    BY <1>0, <2>1, <2>3 DEF Apart
  <2>5. QED
    BY <1>1, <2>1, <2>2, <2>3, <2>4, OthersOwn, Moved
<1>5. Stage(pc'[t], op'[t], list'[t], entry'[t], holds'[t]) /\ Distinct(t)'
  BY <1>0, <1>1, <1>3, ListEmpty DEF Stage, Distinct
<1>6. \A u \in Threads : Stage(pc'[u], op'[u], list'[u], entry'[u], holds'[u]) /\ Distinct(u)'
  BY <1>0, <1>1, <1>5, OthersStages DEF IInv
<1>7. Counted'
  BY <1>0, <1>1, SameReferences DEF IInv
<1>8. PoolCounted'
  <2>1. (t \in Releasing) = (op'[t] = "release" /\ pc'[t] \in {"put", "append", "drop"})
    BY <1>0, <1>1 DEF Releasing
  <2>2. QED
    BY <1>0, <1>1, <2>1, SamePoolCount DEF IInv
<1>9. Freeing'
  BY <1>0, <1>1 DEF IInv, Freeing, Only
<1>10. QED
  BY <1>0, <1>2, <1>4, <1>6, <1>7, <1>8, <1>9, ListEmpty DEF IInv

------------------------------------------------------------------------------
(* av_buffer_make_writable: a lone holder may write, ...                   *)
LEMMA MakeWritableInv ==
  ASSUME IInv, NEW t \in Threads, MakeWritable(t)
  PROVE  IInv'
<1>0. /\ TypeOK /\ Stage(pc[t], op[t], list[t], entry[t], holds[t])
      /\ pc[t] = "idle" /\ op[t] = "none" /\ list[t] = <<>>
      /\ UNCHANGED <<pool, refcount, alive, callers, allocated, count, holds, op, list, cur>>
  BY DEF IInv, MakeWritable, TypeOK, Stage, shared
<1>1. PICK e \in holds[t] : /\ entry' = [entry EXCEPT ![t] = e]
                            /\ \/ pc' = [pc EXCEPT ![t] = "copy"]
                               \/ count[e] = 1 /\ pc' = [pc EXCEPT ![t] = "write"]
  BY DEF MakeWritable, Goto
<1>2. e \in Entries
  BY <1>0 DEF TypeOK
<1>3. Only(t) /\ entry'[t] = e /\ (pc'[t] = "copy" \/ (count[e] = 1 /\ pc'[t] = "write"))
  BY <1>0, <1>1 DEF TypeOK, Only
<1>4. TypeOK'
  BY <1>0, <1>1, <1>2 DEF TypeOK
<1>5. count[e] = 1 => Holders[e] = {t}
  <2>1. t \in Holders[e] /\ Holders[e] \in SUBSET Threads
    BY <1>0, <1>2 DEF Holders
  <2>2. IsFiniteSet(Holders[e]) /\ count[e] = Cardinality(Holders[e])
    BY <1>2, <2>1, PoolAssumption, FS_Subset DEF IInv, Counted
  <2>3. /\ Cardinality(Holders[e] \ {t}) = Cardinality(Holders[e]) - 1
        /\ IsFiniteSet(Holders[e] \ {t})
    BY <2>1, <2>2, FS_RemoveElement
  <2>4. ASSUME count[e] = 1 PROVE Holders[e] \ {t} = {}
    BY <2>2, <2>3, <2>4, FS_EmptySet
  <2>5. QED
    BY <2>1, <2>4
<1>6. ~InHand(t) /\ ~InHand(t)' /\ t \notin Releasing
  BY <1>0 DEF InHand, Releasing
<1>7. Stage(pc'[t], op'[t], list'[t], entry'[t], holds'[t])
  BY <1>0, <1>1, <1>3 DEF Stage
<1>8. QED
  BY <1>0, <1>2, <1>3, <1>4, <1>5, <1>6, <1>7, QuietInv

(* ... and is done at some time; ...                                       *)
LEMMA WrittenInv ==
  ASSUME IInv, NEW t \in Threads, pc[t] \in {"write", "copy"}, Return(t),
         UNCHANGED <<shared, count, holds, list, cur>>
  PROVE  IInv'
<1>0. /\ TypeOK /\ Stage(pc[t], op[t], list[t], entry[t], holds[t])
      /\ op[t] = "none" /\ list[t] = <<>>
      /\ pc' = [pc EXCEPT ![t] = "idle"] /\ op' = [op EXCEPT ![t] = "none"]
      /\ entry' = [entry EXCEPT ![t] = NoEntry]
      /\ UNCHANGED <<pool, refcount, alive, callers, allocated, count, holds, list, cur>>
  BY DEF IInv, TypeOK, Stage, shared, Return, Goto
<1>1. Only(t) /\ pc'[t] = "idle" /\ op'[t] = "none"
  BY <1>0 DEF TypeOK, Only
<1>2. TypeOK'
  BY <1>0 DEF TypeOK
<1>3. /\ ~InHand(t) /\ ~InHand(t)' /\ t \notin Releasing
      /\ Stage(pc'[t], op'[t], list'[t], entry'[t], holds'[t])
  BY <1>0, <1>1 DEF InHand, Releasing, Stage
<1>4. QED
  BY <1>0, <1>1, <1>2, <1>3, QuietInv

(* ... a holder among others copies it, if there is memory.                *)
LEMMA CopiedInv ==
  ASSUME IInv, NEW t \in Threads, Copied(t)
  PROVE  IInv'
<1>1. pc[t] = "copy" /\ entry[t] \in holds[t] /\ UNCHANGED <<shared, cur>>
  BY DEF Copied, IInv, Stage
<1>2. CASE Unref(t, entry[t])
  BY <1>1, <1>2, UnrefInv DEF shared
<1>3. CASE Return(t) /\ UNCHANGED <<count, holds, list>>
  BY <1>1, <1>3, WrittenInv
<1>4. QED
  BY <1>2, <1>3 DEF Copied

------------------------------------------------------------------------------
(* av_buffer_pool_init.                                                    *)
LEMMA InitInv == Init => IInv
<1> SUFFICES ASSUME Init PROVE IInv
  OBVIOUS
<1>1. TypeOK
  BY ListEmpty DEF Init, TypeOK
<1>2. \A t \in Threads : Stage(pc[t], op[t], list[t], entry[t], holds[t]) /\ Distinct(t)
  BY ListEmpty DEF Init, Stage, Distinct, InHand
<1>3. Apart(ToSet(pool), Owned, InUse, allocated)
  <2>1. ToSet(pool) = {} /\ InUse = {} /\ allocated = {}
    BY ListEmpty DEF Init, InUse
  <2>2. \A t \in Threads : Owned[t] = {}
    BY ListEmpty DEF Init, Owned, InHand
  <2>3. QED
    BY <2>1, <2>2 DEF Apart
<1>4. Counted
  <2>1. \A e \in Entries : Holders[e] = {}
    BY DEF Init, Holders
  <2>2. QED
    BY <2>1, FS_EmptySet DEF Init, Counted
<1>5. PoolCounted
  <2>1. Out = {} /\ Releasing = {}
    BY DEF Init, Out, Releasing
  <2>2. QED
    BY <2>1, FS_EmptySet DEF Init, PoolCounted
<1>6. Freeing
  BY DEF Init, Freeing
<1>7. QED
  BY <1>1, <1>2, <1>3, <1>4, <1>5, <1>6, ListEmpty DEF Init, IInv

(* Every step keeps the invariant.                                         *)
LEMMA NextInv == IInv /\ [Next]_vars => IInv'
<1> SUFFICES ASSUME IInv, [Next]_vars PROVE IInv'
  OBVIOUS
<1>1. ASSUME NEW t \in Threads, Internal(t) PROVE IInv'
  <2>1. CASE Written(t)
    BY <2>1, WrittenInv DEF Written
  <2>2. QED
    BY <1>1, <2>1, GetPoolInv, PutInv, CreateInv, AllocInv, CountInv, DropInv, FreeInv, CopiedInv
       DEF Internal
<1>2. ASSUME NEW t \in Threads,
             \/ Get(t) \/ Release(t) \/ Uninit(t) \/ MakeWritable(t)
             \/ \E u \in Threads : Ref(t, u)
      PROVE  IInv'
  BY <1>2, GetInv, ReleaseInv, UninitInv, MakeWritableInv, RefInv
<1>3. CASE UNCHANGED vars
  <2>1. UNCHANGED <<pool, refcount, alive, callers, allocated, count, holds, pc, op, list,
                    entry, cur>>
    BY <1>3 DEF vars, shared
  <2>2. /\ TypeOK' /\ Owned' = Owned /\ InUse' = InUse /\ Holders' = Holders
        /\ Out' = Out /\ Releasing' = Releasing
        /\ \A u \in Threads : Distinct(u) => Distinct(u)'
    BY <2>1 DEF IInv, TypeOK, Owned, InUse, Holders, Out, Releasing, Distinct, InHand
  <2>3. QED
    BY <2>1, <2>2 DEF IInv, Counted, PoolCounted, Freeing
<1>4. QED
  BY <1>1, <1>2, <1>3 DEF Next

(* The invariant holds in every state.                                     *)
THEOREM InductiveInvariant == Spec => []IInv
<1>1. QED
  BY InitInv, NextInv, PTL DEF Spec

(* Every variable keeps its type: no count becomes negative.               *)
THEOREM TypeCorrect == Spec => []TypeOK
<1>1. IInv => TypeOK
  BY DEF IInv
<1>2. QED
  BY <1>1, InductiveInvariant, PTL

(* A thread that writes to a buffer is its only holder.                    *)
THEOREM WritersAreAlone == Spec => []WritersAlone
<1>1. IInv => WritersAlone
  <2>1. SUFFICES ASSUME IInv, NEW t \in Threads, pc[t] = "write", NEW u \in Threads \ {t}
                 PROVE  entry[t] \notin holds[u]
    BY DEF WritersAlone
  <2>2. entry[t] \in Entries /\ Holders[entry[t]] = {t}
    BY <2>1 DEF IInv, Counted
  <2>3. QED
    BY <2>2 DEF Holders
<1>2. QED
  BY <1>1, InductiveInvariant, PTL

(* The count comes to 0 where its thread goes on to free the pool, and     *)
(* leaves it only with Count, when it is not 0.                            *)
LEMMA FreedStep ==
  ASSUME IInv, Freed, [Next]_vars
  PROVE  Freed'
<1>1. TypeOK /\ refcount \in Nat
  BY DEF IInv, TypeOK
<1>2. ASSUME UNCHANGED <<refcount, alive>>,
             \A u \in Threads : pc[u] = "free" => pc'[u] = "free"
      PROVE  Freed'
  BY <1>2 DEF Freed
<1>3. ASSUME NEW t \in Threads, UNCHANGED <<refcount, alive>>, pc[t] # "free",
             \A u \in Threads \ {t} : pc'[u] = pc[u]
      PROVE  Freed'
  BY <1>2, <1>3
<1>4. ASSUME NEW t \in Threads, NEW label, Goto(t, label)
      PROVE  \A u \in Threads \ {t} : pc'[u] = pc[u]
  BY <1>1, <1>4 DEF Goto, TypeOK
<1>5. ASSUME NEW t \in Threads, Return(t)
      PROVE  \A u \in Threads \ {t} : pc'[u] = pc[u]
  BY <1>4, <1>5 DEF Return
<1>6. ASSUME NEW t \in Threads, NEW e, Unref(t, e)
      PROVE  \A u \in Threads \ {t} : pc'[u] = pc[u]
  BY <1>4, <1>5, <1>6 DEF Unref
<1> USE DEF shared
<1>7. ASSUME NEW t \in Threads, Get(t) \/ Release(t) \/ MakeWritable(t)
      PROVE  Freed'
  BY <1>3, <1>4, <1>6, <1>7 DEF Get, Release, MakeWritable
<1>8. ASSUME NEW t \in Threads, NEW u \in Threads, Ref(t, u)
      PROVE  Freed'
  BY <1>2, <1>8 DEF Ref
<1>9. ASSUME NEW t \in Threads, GetPool(t) \/ Put(t)
      PROVE  Freed'
  <2>1. pc[t] # "free" /\ UNCHANGED <<refcount, alive>>
    BY <1>9 DEF GetPool, Put
  <2>2. (\E label : Goto(t, label)) \/ Return(t) \/ UNCHANGED pc
    BY <1>9 DEF GetPool, Put, Keep, AppendTaken
  <2>3. QED
    BY <1>2, <1>3, <1>4, <1>5, <2>1, <2>2
<1>10. ASSUME NEW t \in Threads, Create(t) \/ Alloc(t) \/ Written(t) \/ Copied(t)
       PROVE  Freed'
  <2>1. pc[t] # "free" /\ UNCHANGED <<refcount, alive>>
    BY <1>10 DEF Create, Alloc, Written, Copied
  <2>2. (\E label : Goto(t, label)) \/ Return(t) \/ Unref(t, entry[t])
    BY <1>10 DEF Create, Alloc, Written, Copied
  <2>3. QED
    BY <1>3, <1>4, <1>5, <1>6, <2>1, <2>2
<1>11. ASSUME NEW t \in Threads, Count(t)
       PROVE  Freed'
  BY <1>1, <1>11 DEF Count, Freed
<1>12. ASSUME NEW t \in Threads, Drop(t) \/ Uninit(t)
       PROVE  Freed'
  <2>1. refcount' = 0 => pc'[t] = "free"
    BY <1>1, <1>12 DEF Drop, Uninit, Goto, TypeOK
  <2>2. QED
    BY <2>1 DEF Freed
<1>13. ASSUME NEW t \in Threads, Free(t)
       PROVE  Freed'
  BY <1>13 DEF Free, Freed
<1>14. CASE UNCHANGED vars
  BY <1>2, <1>14 DEF vars
<1>15. QED
  BY <1>7, <1>8, <1>9, <1>10, <1>11, <1>12, <1>13, <1>14 DEF Next, Internal

(* The pool is freed after the last buffer and the last call, and as soon  *)
(* as the last call that uses it has returned.                             *)
THEOREM PoolOutlivesItsBuffers == Spec => []PoolOutlivesBuffers
<1>1. IInv /\ ~alive => /\ allocated = {}
                       /\ \A t \in Threads : holds[t] = {} /\ pc[t] \notin PoolLabels
  <2> SUFFICES ASSUME IInv, ~alive
               PROVE  /\ allocated = {}
                      /\ \A t \in Threads : holds[t] = {} /\ pc[t] \notin PoolLabels
    OBVIOUS
  <2>2. ~callers /\ Out = {} /\ Releasing = {}
    BY InUseAlive DEF IInv
  <2>3. ASSUME NEW t \in Threads
        PROVE  holds[t] = {} /\ pc[t] \notin PoolLabels /\ list[t] = <<>> /\ ~InHand(t)
    <3>1. holds[t] = {}
      BY <2>2 DEF IInv, TypeOK, Out
    <3>2. op[t] \in {"none", "release"} /\ Stage(pc[t], op[t], list[t], entry[t], holds[t])
      BY <2>2 DEF IInv, PoolCounted, TypeOK
    <3>3. pc[t] # "free" /\ (op[t] = "release" => pc[t] \notin {"put", "append", "drop"})
      BY <2>2 DEF IInv, Freeing, Releasing
    <3>4. QED
      BY <3>1, <3>2, <3>3 DEF Stage, PoolLabels, InHand
  <2>4. InUse = {}
    <3>1. \A e \in Entries : Holders[e] = {}
      BY <2>3 DEF Holders, PoolLabels
    <3>2. \A e \in Entries : count[e] = 0
      BY <3>1, FS_EmptySet DEF IInv, Counted
    <3>3. QED
      BY <3>2 DEF InUse
  <2>5. ToSet(pool) = {} /\ \A t \in Threads : Owned[t] = {}
    BY <2>3, ListEmpty DEF IInv, Freeing, Owned
  <2>6. allocated = {}
    BY <2>4, <2>5 DEF IInv, Apart
  <2>7. QED
    BY <2>3, <2>6
<1>2. ASSUME IInv, Freed, ~callers, \A t \in Threads : holds[t] = {} /\ pc[t] \notin PoolLabels
      PROVE  ~alive
  <2>1. Out = {} /\ Releasing = {}
    BY <1>2 DEF Out, Releasing, PoolLabels
  <2>2. refcount = 0
    BY <1>2, <2>1, FS_EmptySet DEF IInv, PoolCounted
  <2>3. QED
    BY <1>2, <2>2 DEF Freed, PoolLabels
<1>3. IInv /\ Freed => PoolOutlivesBuffers
  BY <1>1, <1>2 DEF PoolOutlivesBuffers
<1>4. Init => Freed
  BY DEF Init, Freed
<1>5. IInv /\ Freed /\ [Next]_vars => Freed'
  BY FreedStep
<1>6. QED
  BY <1>3, <1>4, <1>5, InductiveInvariant, PTL DEF Spec

------------------------------------------------------------------------------
(* How often an entry is in a list without repetitions.                    *)
LEMMA OccursOnce ==
  ASSUME NEW s \in Seq(Entries), IsInjective(s), NEW e
  PROVE  Occurrences(e, s) = IF e \in ToSet(s) THEN 1 ELSE 0
<1>1. CASE e \in ToSet(s)
  <2>1. PICK i \in DOMAIN s : s[i] = e
    BY <1>1 DEF ToSet
  <2>2. {j \in DOMAIN s : s[j] = e} = {i}
    BY <2>1 DEF IsInjective
  <2>3. QED
    BY <1>1, <2>2, FS_Singleton DEF Occurrences
<1>2. CASE e \notin ToSet(s)
  <2>1. {j \in DOMAIN s : s[j] = e} = {}
    BY <1>2 DEF ToSet
  <2>2. QED
    BY <1>2, <2>1, FS_EmptySet DEF Occurrences
<1>3. QED
  BY <1>1, <1>2

(* And it is no longer than there are entries.                             *)
LEMMA ListLength ==
  ASSUME NEW s \in Seq(Entries), IsInjective(s)
  PROVE  Len(s) <= Cardinality(Entries) /\ Cardinality(Entries) \in Nat
<1>1. s \in Injection(1 .. Len(s), Entries)
  BY DEF Injection
<1>2. Cardinality(1 .. Len(s)) = Len(s)
  <2>1. Len(s) \in Nat /\ 1 \in Int /\ Len(s) \in Int
    OBVIOUS
  <2>2. Cardinality(1 .. Len(s)) = IF 1 > Len(s) THEN 0 ELSE Len(s) - 1 + 1
    BY <2>1, FS_Interval
  <2>3. QED
    BY <2>1, <2>2
<1>3. QED
  BY <1>1, <1>2, PoolAssumption, FS_Injection, FS_CardinalityType

(* An entry that exists is in one place.                                   *)
THEOREM EntriesAreExclusive == Spec => []ExclusiveEntries
<1>1. IInv => ExclusiveEntries
  <2> SUFFICES ASSUME IInv, NEW e \in Entries
               PROVE  LET inList == {x \in Threads \X (1 .. Cardinality(Entries)) :
                                       x[2] \in DOMAIN list[x[1]] /\ list[x[1]][x[2]] = e}
                          inHand == {t \in Threads : InHand(t) /\ entry[t] = e}
                          inUse  == {x \in {e} : count[x] > 0}
                      IN  Occurrences(e, pool) + Cardinality(inList) + Cardinality(inHand)
                            + Cardinality(inUse)
                            = (IF e \in allocated THEN 1 ELSE 0)
    BY DEF ExclusiveEntries
  <2> DEFINE inList == {x \in Threads \X (1 .. Cardinality(Entries)) :
                          x[2] \in DOMAIN list[x[1]] /\ list[x[1]][x[2]] = e}
             inHand == {t \in Threads : InHand(t) /\ entry[t] = e}
             inUse  == {x \in {e} : count[x] > 0}
  <2>0. /\ Apart(ToSet(pool), Owned, InUse, allocated)
        /\ \A t \in Threads : Distinct(t) /\ list[t] \in Seq(Entries)
        /\ Cardinality({}) = 0
    BY FS_EmptySet DEF IInv, TypeOK
  <2>1. Occurrences(e, pool) = IF e \in ToSet(pool) THEN 1 ELSE 0
    BY OccursOnce DEF IInv, TypeOK
  <2>2. Cardinality(inUse) = IF e \in InUse THEN 1 ELSE 0
    <3>1. inUse = IF e \in InUse THEN {e} ELSE {}
      BY DEF InUse
    <3>2. QED
      BY <3>1, FS_Singleton, FS_EmptySet
  <2>3. ASSUME NEW t \in Threads, e \in ToSet(list[t]) PROVE Cardinality(inList) = 1
    <3>1. PICK i \in DOMAIN list[t] : list[t][i] = e
      BY <2>3 DEF ToSet
    <3>2. i \in 1 .. Cardinality(Entries)
      BY <2>0, ListLength DEF Distinct
    <3>3. ASSUME NEW x \in inList PROVE x = <<t, i>>
      <4>1. x = <<x[1], x[2]>> /\ x[1] \in Threads /\ x[2] \in DOMAIN list[x[1]]
            /\ list[x[1]][x[2]] = e
        OBVIOUS
      <4>2. e \in ToSet(list[x[1]])
        BY <4>1 DEF ToSet
      <4>3. x[1] = t
        BY <2>0, <2>3, <4>1, <4>2 DEF Apart, Owned
      <4>4. x[2] = i
        BY <2>0, <3>1, <4>1, <4>3 DEF Distinct, IsInjective
      <4>5. QED
        BY <4>1, <4>3, <4>4
    <3>4. <<t, i>> \in inList
      BY <3>1, <3>2
    <3>5. inList = {<<t, i>>}
      BY <3>3, <3>4
    <3>6. QED
      BY <3>5, FS_Singleton
  <2>4. ASSUME \A t \in Threads : e \notin ToSet(list[t]) PROVE Cardinality(inList) = 0
    <3>1. inList = {}
      BY <2>4 DEF ToSet
    <3>2. QED
      BY <3>1, <2>0
  <2>5. ASSUME NEW t \in Threads, InHand(t), entry[t] = e PROVE Cardinality(inHand) = 1
    <3>1. inHand = {t}
      BY <2>0, <2>5 DEF Apart, Owned
    <3>2. QED
      BY <3>1, FS_Singleton
  <2>6. ASSUME \A t \in Threads : ~(InHand(t) /\ entry[t] = e) PROVE Cardinality(inHand) = 0
    <3>1. inHand = {}
      BY <2>6
    <3>2. QED
      BY <3>1, <2>0
  <2> HIDE DEF inList, inHand, inUse
  <2> DEFINE Once == Occurrences(e, pool) + Cardinality(inList) + Cardinality(inHand)
                       + Cardinality(inUse) = (IF e \in allocated THEN 1 ELSE 0)
  <2>7. Once
    <3>1. ASSUME NEW t \in Threads, e \in Owned[t] PROVE Once
      <4>1. /\ e \notin ToSet(pool) /\ e \notin InUse /\ e \in allocated
            /\ \A u \in Threads \ {t} : e \notin Owned[u]
        BY <2>0, <3>1 DEF Apart
      <4>2. \A u \in Threads \ {t} : e \notin ToSet(list[u]) /\ ~(InHand(u) /\ entry[u] = e)
        BY <4>1 DEF Owned
      <4>3. CASE e \in ToSet(list[t])
        <5>1. ~(InHand(t) /\ entry[t] = e)
          BY <2>0, <4>3 DEF Distinct
        <5>2. Cardinality(inList) = 1 /\ Cardinality(inHand) = 0
          BY <4>2, <4>3, <5>1, <2>3, <2>6
        <5>3. QED
          BY <4>1, <5>2, <2>1, <2>2
      <4>4. CASE e \notin ToSet(list[t])
        <5>1. InHand(t) /\ entry[t] = e
          BY <3>1, <4>4 DEF Owned
        <5>2. Cardinality(inList) = 0 /\ Cardinality(inHand) = 1
          BY <4>2, <4>4, <5>1, <2>4, <2>5
        <5>3. QED
          BY <4>1, <5>2, <2>1, <2>2
      <4>5. QED
        BY <4>3, <4>4
    <3>2. ASSUME \A t \in Threads : e \notin Owned[t] PROVE Once
      <4>1. \A t \in Threads : e \notin ToSet(list[t]) /\ ~(InHand(t) /\ entry[t] = e)
        BY <3>2 DEF Owned
      <4>2. Cardinality(inList) = 0 /\ Cardinality(inHand) = 0
        BY <4>1, <2>4, <2>6
      <4>3. e \in allocated <=> e \in ToSet(pool) \/ e \in InUse
        BY <2>0, <3>2 DEF Apart
      <4>4. ~(e \in ToSet(pool) /\ e \in InUse)
        BY <2>0 DEF Apart
      <4>5. QED
        BY <4>2, <4>3, <4>4, <2>1, <2>2
    <3>3. QED
      BY <3>1, <3>2
  <2>8. QED
    BY <2>7 DEF inList, inHand, inUse
<1>2. QED
  BY <1>1, InductiveInvariant, PTL
=============================================================================
