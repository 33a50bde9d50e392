-------------------------- MODULE InputThreadsProofs --------------------------
(***************************************************************************)
(* Proofs about the input threads of avconv, for any number of files, any  *)
(* size of the FIFOs and any number of packets: the inductive invariant,   *)
(* and from it that a FIFO holds just the packets not yet taken, that the  *)
(* end of a file is seen after all of it, and that a FIFO is freed when    *)
(* its thread is done with it, and has not left the thread asleep.         *)
(***************************************************************************)
EXTENDS InputThreads, AVFifoProofs

(* Whole packets.                                                          *)
Multiple(n) == \E k \in Nat : n = k * PacketSize

(* The FIFO q holds the bytes after the first a, up to the first b.        *)
Holds(q, a, b) ==
  /\ IsFifo(q, Byte) /\ q.end = Depth
  /\ a \in Nat /\ b \in a .. Total
  /\ Size(q) = b - a
  /\ Contents(q) = [i \in 1 .. b - a |-> a + i]

(* The bytes of a file: those read are the ones taken, dropped, in the     *)
(* FIFO q, and in the hands of the thread, which is at pc.                 *)
Kept(q, t, d, w, r, pc) ==
  /\ t \in Byte /\ d \in Byte /\ w \in Byte /\ r \in Byte
  /\ Holds(q, t + d, w)
  /\ Multiple(t) /\ Multiple(d) /\ Multiple(w)
  /\ r = IF pc \in {"write", "asleep", "woken"} THEN w + PacketSize ELSE w

BytesKept(f) == Kept(fifo[f], taken[f], dropped[f], written[f], read[f], tpc[f])

(* The stages a file goes through.                                         *)
Stages(f) ==
  /\ finished[f] = (tpc[f] = "done")
  /\ eof_reached[f] => tpc[f] = "done" /\ taken[f] = read[f]
  /\ memory[f] = "none" => tpc[f] = "none"
  /\ mpc \in {"start", "loop"} => dropped[f] = 0 /\ memory[f] # "freed"
  /\ memory[f] = "freed" => tpc[f] \in {"none", "done"} /\ taken[f] + dropped[f] = read[f]
  /\ mpc = "start" /\ file <= f => memory[f] = "none"

(* The loop variable of the main thread names a file.                      *)
FileInRange == mpc \in {"start", "join"} => file <= NbFiles

IInv == TypeOK /\ FileInRange /\ \A f \in Files : BytesKept(f) /\ Stages(f)

------------------------------------------------------------------------------
(* Sums and differences of whole packets, and no packet in part.           *)
LEMMA Multiples ==
  ASSUME NEW a \in Nat, NEW b \in Nat, Multiple(a), Multiple(b)
  PROVE  /\ Multiple(a + b)
         /\ b <= a => Multiple(a - b)
         /\ b < a => PacketSize <= a - b
<1>1. PICK k \in Nat : a = k * PacketSize
  BY DEF Multiple
<1>2. PICK l \in Nat : b = l * PacketSize
  BY DEF Multiple
<1>3. PacketSize \in Nat /\ PacketSize >= 1
  BY InputAssumption
<1>4. a + b = (k + l) * PacketSize /\ k + l \in Nat
  BY <1>1, <1>2, <1>3
<1>5. ASSUME b < a PROVE k - l \in Nat /\ k - l >= 1
  <2>1. ASSUME k <= l PROVE FALSE
    <3>1. l - k \in Nat /\ l * PacketSize = k * PacketSize + (l - k) * PacketSize
      BY <2>1, <1>3
    <3>2. (l - k) * PacketSize >= 0
      BY <3>1, <1>3
    <3>3. QED
      BY <3>1, <3>2, <1>1, <1>2, <1>3, <1>5
  <2>2. QED
    BY <2>1
<1>6. ASSUME b < a PROVE Multiple(a - b) /\ PacketSize <= a - b
  <2>1. k - l \in Nat /\ k - l - 1 \in Nat
    BY <1>5, <1>6
  <2>2. a - b = (k - l) * PacketSize
    BY <1>1, <1>2, <1>3
  <2>3. (k - l) * PacketSize = PacketSize + (k - l - 1) * PacketSize
        /\ (k - l - 1) * PacketSize >= 0
    BY <2>1, <1>3
  <2>4. PacketSize <= a - b
    BY <2>2, <2>3, <1>3
  <2>5. Multiple(a - b)
    BY <2>1, <2>2 DEF Multiple
  <2>6. QED
    BY <2>4, <2>5
<1>7. ASSUME b = a PROVE Multiple(a - b)
  BY <1>3, <1>7 DEF Multiple
<1>8. QED
  BY <1>4, <1>6, <1>7 DEF Multiple

(* The sizes the constants give.                                           *)
LEMMA Constants ==
  /\ PacketSize \in Nat \ {0} /\ Multiple(PacketSize) /\ Multiple(0)
  /\ Depth \in 1 .. Word - 1 /\ Multiple(Depth)
  /\ Total \in Nat /\ Multiple(Total)
<1>1. /\ PacketSize \in Nat \ {0} /\ FifoPackets \in Nat \ {0} /\ MaxPackets \in Nat
      /\ Word \in Nat /\ Depth < Word
  BY InputAssumption, WordAssumption DEF Depth
<1>2. PacketSize = 1 * PacketSize /\ 0 = 0 * PacketSize
  BY <1>1
<1>3. Depth \in Nat \ {0} /\ Total \in Nat
  BY <1>1 DEF Depth, Total
<1>4. QED
  BY <1>1, <1>2, <1>3 DEF Multiple, Depth, Total

(* A new FIFO.                                                             *)
LEMMA HoldsNothing == Holds(NewFifo, 0, 0)
<1>1. [j \in Cells(Depth) |-> 0] \in [Cells(Depth) -> Byte]
  BY Constants DEF Byte
<1>2. /\ IsFifo(NewFifo, Byte) /\ NewFifo.end = Depth
      /\ Size(NewFifo) = 0 /\ Contents(NewFifo) = << >>
  BY <1>1, Constants, AllocEmpty DEF NewFifo
<1>3. QED
  BY <1>2, Constants DEF Holds

(* Bytes leave at the front, ...                                           *)
LEMMA HoldsDrained ==
  ASSUME NEW q, NEW a, NEW b, Holds(q, a, b), NEW n \in 0 .. b - a
  PROVE  Holds(Drain(q, n), a + n, b)
<1>1. IsFifo(q, Byte) /\ a \in Nat /\ b \in Nat /\ b <= Total /\ n \in 0 .. Size(q)
      /\ Size(q) = b - a /\ q.end = Depth
  BY Constants DEF Holds
<1>2. /\ IsFifo(Drain(q, n), Byte) /\ Drain(q, n).end = Depth
      /\ Size(Drain(q, n)) = b - (a + n)
      /\ Contents(Drain(q, n)) = [i \in 1 .. Size(q) - n |-> Contents(q)[n + i]]
  BY <1>1, DrainDrops
<1>3. ASSUME NEW i \in 1 .. b - (a + n)
      PROVE  Contents(q)[n + i] = a + n + i
  BY <1>1 DEF Holds
<1>4. Contents(Drain(q, n)) = [i \in 1 .. b - (a + n) |-> a + n + i]
  <2>1. Size(q) - n = b - (a + n)
    BY <1>1
  <2>2. QED
    BY <2>1, <1>2, <1>3
<1>5. QED
  BY <1>1, <1>2, <1>4, Constants DEF Holds

(* ... and a packet is added at the end.                                   *)
LEMMA HoldsWritten ==
  ASSUME NEW q, NEW a, NEW b, Holds(q, a, b), PacketSize <= Space(q),
         b + PacketSize <= Total
  PROVE  Holds(Write(q, Packet(b)), a, b + PacketSize)
<1>1. /\ IsFifo(q, Byte) /\ a \in Nat /\ b \in Nat /\ a <= b /\ Size(q) = b - a
      /\ q.end = Depth /\ PacketSize \in Nat
  BY Constants DEF Holds
<1>2. Packet(b) \in Seq(Byte) /\ Len(Packet(b)) = PacketSize
  <2>1. \A i \in 1 .. PacketSize : b + i \in Byte
    BY <1>1, Constants DEF Byte
  <2>2. QED
    BY <2>1, <1>1 DEF Packet
<1>3. /\ IsFifo(Write(q, Packet(b)), Byte) /\ Write(q, Packet(b)).end = Depth
      /\ Size(Write(q, Packet(b))) = b - a + PacketSize
      /\ Contents(Write(q, Packet(b))) = Contents(q) \o Packet(b)
  BY <1>1, <1>2, WriteAppends
<1>4. Contents(q) \o Packet(b) = [i \in 1 .. b + PacketSize - a |-> a + i]
  <2> DEFINE c == Contents(q)
             p == Packet(b)
             n == b - a
             t == [i \in 1 .. n + PacketSize |-> a + i]
  <2>1. c \in Seq(Byte) /\ Len(c) = n /\ \A i \in 1 .. n : c[i] = a + i
    BY <1>1, ContentsAre DEF Holds
  <2>2. p \in Seq(Byte) /\ Len(p) = PacketSize /\ \A i \in 1 .. PacketSize : p[i] = b + i
    BY <1>2 DEF Packet
  <2>3. n \in Nat /\ b = a + n /\ n + PacketSize = b + PacketSize - a
    BY <1>1
  <2>4. t \in Seq(Byte) /\ Len(t) = n + PacketSize
        /\ \A i \in 1 .. n + PacketSize : t[i] = a + i
    <3>1. \A i \in 1 .. n + PacketSize : a + i \in Byte
      BY <2>3, <1>1, Constants DEF Byte
    <3>2. n + PacketSize \in Nat
      BY <2>3, <1>1
    <3>3. QED
      BY <3>1, <3>2
  <2> HIDE DEF c, p, n, t
  <2>5. /\ c \o p \in Seq(Byte) /\ Len(c \o p) = n + PacketSize
        /\ \A i \in 1 .. n + PacketSize : (c \o p)[i] = IF i <= n THEN c[i] ELSE p[i - n]
    BY <2>1, <2>2, ConcatProperties
  <2>6. ASSUME NEW i \in 1 .. n + PacketSize PROVE (c \o p)[i] = t[i]
    <3>1. CASE i <= n
      BY <3>1, <2>1, <2>4, <2>5, <2>3
    <3>2. CASE ~(i <= n)
      <4>1. i - n \in 1 .. PacketSize /\ b + (i - n) = a + i
        BY <3>2, <2>3, <1>1
      <4>2. QED
        BY <3>2, <4>1, <2>2, <2>4, <2>5
    <3>3. QED
      BY <3>1, <3>2
  <2>7. c \o p = t
    BY <2>4, <2>5, <2>6, SeqEqual
  <2>8. QED
    BY <2>3, <2>7 DEF c, p, n, t
<1>5. QED
  <2>1. b + PacketSize \in a .. Total /\ b - a + PacketSize = b + PacketSize - a
    BY <1>1, Constants
  <2> DEFINE w == Write(q, Packet(b))
  <2>2. /\ IsFifo(w, Byte) /\ w.end = Depth
        /\ Size(w) = b + PacketSize - a
        /\ Contents(w) = [i \in 1 .. b + PacketSize - a |-> a + i]
    BY <1>1, <1>3, <1>4, <2>1
  <2> HIDE DEF w
  <2>3. Holds(w, a, b + PacketSize)
    BY <1>1, <2>1, <2>2 DEF Holds
  <2>4. QED
    BY <2>3 DEF w

(* Whole packets in Kept: a FIFO that is not empty holds one, one that is  *)
(* not full has room for one, and a file that is not over has one.         *)
LEMMA KeptPackets ==
  ASSUME NEW q, NEW t, NEW d, NEW w, NEW r, NEW pc, Kept(q, t, d, w, r, pc)
  PROVE  /\ Size(q) = w - (t + d) /\ t + d <= w
         /\ Multiple(Size(q))
         /\ Size(q) > 0 => PacketSize <= Size(q)
         /\ Space(q) \in Nat /\ (Space(q) # 0 => PacketSize <= Space(q))
         /\ r = w /\ r < Total => r + PacketSize <= Total
<1>1. /\ t \in Nat /\ d \in Nat /\ w \in Nat /\ t + d \in Nat /\ t + d <= w
      /\ Multiple(t) /\ Multiple(d) /\ Multiple(w)
      /\ Size(q) = w - (t + d) /\ IsFifo(q, Byte) /\ q.end = Depth
  BY Constants DEF Kept, Holds, Byte
<1>2. Multiple(t + d)
  BY <1>1, Multiples
<1>3. /\ Multiple(Size(q)) /\ Size(q) \in Nat
      /\ (t + d < w => PacketSize <= Size(q))
  BY <1>1, <1>2, Multiples
<1>4. /\ Size(q) <= Depth /\ Depth \in Nat /\ Multiple(Depth) /\ Space(q) = Depth - Size(q)
  BY <1>1, Constants, Sizes DEF Space
<1>5. Size(q) < Depth => PacketSize <= Space(q)
  BY <1>3, <1>4, Multiples
<1>6. ASSUME r = w, r < Total PROVE r + PacketSize <= Total
  <2>1. PacketSize <= Total - w
    BY <1>1, <1>6, Constants, Multiples
  <2>2. QED
    BY <2>1, <1>1, <1>6, Constants
<1>7. QED
  BY <1>1, <1>3, <1>4, <1>5, <1>6

(* A packet is taken, ...                                                  *)
LEMMA KeptTaken ==
  ASSUME NEW q, NEW t, NEW d, NEW w, NEW r, NEW pc, Kept(q, t, d, w, r, pc),
         Size(q) > 0, NEW pd, pd = pc \/ (pc = "asleep" /\ pd = "woken")
  PROVE  Kept(Drain(q, PacketSize), t + PacketSize, d, w, r, pd)
<1>1. /\ t \in Nat /\ d \in Nat /\ w \in Nat /\ PacketSize \in Nat /\ w <= Total /\ Total \in Nat
      /\ Multiple(t) /\ Multiple(PacketSize) /\ Holds(q, t + d, w)
  BY Constants DEF Kept, Byte
<1>2. PacketSize \in 0 .. w - (t + d)
  BY <1>1, KeptPackets
<1>3. Multiple(t + PacketSize)
  BY <1>1, Multiples
<1>4. Holds(Drain(q, PacketSize), t + d + PacketSize, w)
  BY <1>1, <1>2, HoldsDrained
<1>5. t + d + PacketSize = t + PacketSize + d /\ t + PacketSize \in Byte
  BY <1>1, <1>2 DEF Byte
<1>6. QED
  BY <1>3, <1>4, <1>5 DEF Kept

(* ... everything is dropped, ...                                          *)
LEMMA KeptDropped ==
  ASSUME NEW q, NEW t, NEW d, NEW w, NEW r, NEW pc, Kept(q, t, d, w, r, pc),
         NEW pd, pd = pc \/ (pc = "asleep" /\ pd = "woken")
  PROVE  /\ Kept(Drain(q, Size(q)), t, d + Size(q), w, r, pd)
         /\ t + (d + Size(q)) = w
<1>1. /\ t \in Nat /\ d \in Nat /\ w \in Nat /\ w <= Total /\ Total \in Nat
      /\ Multiple(d) /\ Holds(q, t + d, w)
  BY Constants DEF Kept, Byte
<1>2. Size(q) = w - (t + d) /\ Multiple(Size(q)) /\ Size(q) \in 0 .. w - (t + d)
      /\ Size(q) \in Nat
  BY <1>1, KeptPackets
<1>3. Multiple(d + Size(q))
  BY <1>1, <1>2, Multiples
<1>4. Holds(Drain(q, Size(q)), t + d + Size(q), w)
  BY <1>1, <1>2, HoldsDrained
<1>5. /\ t + d + Size(q) = t + (d + Size(q)) /\ t + (d + Size(q)) = w
      /\ d + Size(q) \in Byte
  BY <1>1, <1>2 DEF Byte
<1>6. QED
  BY <1>3, <1>4, <1>5 DEF Kept

(* ... and the packet in hand is put into the FIFO.                        *)
LEMMA KeptWritten ==
  ASSUME NEW q, NEW t, NEW d, NEW w, NEW r, NEW pc, Kept(q, t, d, w, r, pc),
         pc \in {"write", "woken"}, Space(q) # 0
  PROVE  Kept(Write(q, Packet(w)), t, d, w + PacketSize, r, "top")
<1>1. /\ t \in Nat /\ d \in Nat /\ w \in Nat /\ PacketSize \in Nat /\ Total \in Nat
      /\ r = w + PacketSize /\ r \in Byte
      /\ Multiple(w) /\ Multiple(PacketSize) /\ Holds(q, t + d, w)
  BY Constants DEF Kept, Byte
<1>2. PacketSize <= Space(q) /\ w + PacketSize <= Total
  BY <1>1, KeptPackets DEF Byte
<1>3. Holds(Write(q, Packet(w)), t + d, w + PacketSize)
  BY <1>1, <1>2, HoldsWritten
<1>4. Multiple(w + PacketSize)
  BY <1>1, Multiples
<1>5. QED
  BY <1>1, <1>3, <1>4 DEF Kept

------------------------------------------------------------------------------
(* The types, one by one; the type of the FIFOs follows from BytesKept.    *)
Typed ==
  /\ discard \subseteq Files
  /\ mpc \in MainLabels /\ file \in 1 .. NbFiles + 1
  /\ again \in BOOLEAN /\ transcoding_finished \in BOOLEAN
  /\ eagain \in [Files -> BOOLEAN] /\ eof_reached \in [Files -> BOOLEAN]
  /\ finished \in [Files -> BOOLEAN] /\ joined \in [Files -> BOOLEAN]
  /\ DOMAIN fifo = Files /\ fifo = [f \in Files |-> fifo[f]]
  /\ memory \in [Files -> {"none", "live", "freed"}]
  /\ tpc \in [Files -> ThreadLabels]
  /\ read \in [Files -> Byte] /\ written \in [Files -> Byte]
  /\ taken \in [Files -> Byte] /\ dropped \in [Files -> Byte]

(* TypeOK gives them, ...                                                  *)
LEMMA TypeTyped ==
  ASSUME TypeOK
  PROVE  Typed
BY DEF TypeOK, Typed

(* ... and they give TypeOK.                                               *)
LEMMA TypedType ==
  ASSUME Typed, \A f \in Files : BytesKept(f)
  PROVE  TypeOK
<1>1. ASSUME NEW f \in Files PROVE fifo[f] \in Fifos(Depth, Byte)
  BY <1>1 DEF BytesKept, Kept, Holds, IsFifo
<1>2. QED
  BY <1>1 DEF TypeOK, Typed

(* The invariant, with the types one by one.                               *)
TInv == Typed /\ FileInRange /\ \A f \in Files : BytesKept(f) /\ Stages(f)

(* The two forms of the invariant agree.                                   *)
LEMMA Invariants == IInv <=> TInv
BY TypeTyped, TypedType DEF IInv, TInv

(* It holds at first.                                                      *)
LEMMA InitInv ==
  ASSUME Init
  PROVE  TInv
<1>1. NewFifo = NewFifo /\ 0 \in Byte /\ NbFiles \in Nat /\ NbFiles >= 2
  BY Constants, InputAssumption DEF Byte
<1>2. Typed
  <2>1. /\ No \in [Files -> BOOLEAN] /\ Zero \in [Files -> Byte]
        /\ [f \in Files |-> "none"] \in [Files -> {"none", "live", "freed"}]
        /\ [f \in Files |-> "none"] \in [Files -> ThreadLabels]
    BY <1>1 DEF No, Zero, ThreadLabels
  <2>2. DOMAIN fifo = Files /\ fifo = [f \in Files |-> fifo[f]]
    BY DEF Init
  <2>3. file \in 1 .. NbFiles + 1 /\ mpc \in MainLabels /\ discard \subseteq Files
    BY <1>1 DEF Init, MainLabels
  <2>4. QED
    BY <2>1, <2>2, <2>3 DEF Init, Typed
<1>3. FileInRange
  BY <1>1 DEF Init, FileInRange
<1>4. ASSUME NEW f \in Files PROVE BytesKept(f) /\ Stages(f)
  <2>1. /\ fifo[f] = NewFifo /\ taken[f] = 0 /\ dropped[f] = 0 /\ written[f] = 0
        /\ read[f] = 0 /\ tpc[f] = "none" /\ finished[f] = FALSE
        /\ eof_reached[f] = FALSE /\ memory[f] = "none" /\ mpc = "start"
    BY DEF Init, No, Zero
  <2>2. BytesKept(f)
    BY <2>1, <1>1, HoldsNothing, Constants DEF BytesKept, Kept
  <2>3. Stages(f)
    BY <2>1 DEF Stages
  <2>4. QED
    BY <2>2, <2>3
<1>5. QED
  BY <1>2, <1>3, <1>4 DEF TInv

(* A step that leaves the bytes of a file where they are.                  *)
LEMMA BytesStay ==
  ASSUME TInv, NEW f \in Files,
         fifo'[f] = fifo[f], taken'[f] = taken[f], dropped'[f] = dropped[f],
         written'[f] = written[f], read'[f] = read[f],
         tpc'[f] = tpc[f]
         \/ {tpc[f], tpc'[f]} \subseteq {"write", "asleep", "woken"}
         \/ {tpc[f], tpc'[f]} \cap {"write", "asleep", "woken"} = {}
  PROVE  BytesKept(f)'
<1>1. Kept(fifo[f], taken[f], dropped[f], written[f], read[f], tpc[f])
  BY DEF TInv, BytesKept
<1>2. Kept(fifo[f], taken[f], dropped[f], written[f], read[f], tpc'[f])
  BY <1>1 DEF Kept
<1>3. QED
  BY <1>2 DEF BytesKept

------------------------------------------------------------------------------
(* The steps of the main thread.  init_input_threads starts a file or      *)
(* fails.                                                                  *)
LEMMA StartInv ==
  ASSUME TInv, Start
  PROVE  TInv'
<1> USE DEF TInv
<1>0. NbFiles \in Nat /\ file \in Files /\ memory[file] = "none" /\ tpc[file] = "none"
  BY InputAssumption DEF Start, FileInRange, Typed, Files, Stages
<1>1. Typed'
  <2>1. memory' \in [Files -> {"none", "live", "freed"}] /\ tpc' \in [Files -> ThreadLabels]
    BY <1>0, ZenonT(40) DEF Start, Typed, ThreadLabels
  <2>2. file' \in 1 .. NbFiles + 1 /\ mpc' \in MainLabels
    BY <1>0 DEF Start, EnterFree, Files, MainLabels
  <2>3. again' \in BOOLEAN /\ transcoding_finished' \in BOOLEAN
    BY DEF Start, EnterFree, Typed
  <2>4. QED
    BY <2>1, <2>2, <2>3 DEF Start, Typed, polled, reader
<1>2. FileInRange'
  BY <1>0 DEF Start, EnterFree, FileInRange, Typed, Files
<1>3. ASSUME NEW f \in Files PROVE BytesKept(f)'
  <2>1. tpc'[f] = tpc[f] \/ (tpc[f] = "none" /\ tpc'[f] = "top")
    BY <1>0 DEF Start, Typed
  <2>2. QED
    BY <2>1, BytesStay DEF Start, polled, reader
<1>4. ASSUME NEW f \in Files PROVE Stages(f)'
  BY <1>0 DEF Start, EnterFree, Stages, Typed, Files, polled, reader
<1>5. QED
  BY <1>1, <1>2, <1>3, <1>4

(* process_input takes a packet, ...                                       *)
LEMMA TakeInv ==
  ASSUME TInv, NEW f \in Files, Take(f)
  PROVE  TInv'
<1> USE DEF TInv
<1>0. /\ eof_reached[f] = FALSE
      /\ fifo' = [fifo EXCEPT ![f] = Drain(fifo[f], PacketSize)]
      /\ taken' = [taken EXCEPT ![f] = taken[f] + PacketSize]
      /\ \A g \in Files : g # f => fifo'[g] = fifo[g] /\ taken'[g] = taken[g] /\ tpc'[g] = tpc[g]
      /\ fifo'[f] = Drain(fifo[f], PacketSize) /\ taken'[f] = taken[f] + PacketSize
      /\ tpc' \in [Files -> ThreadLabels]
      /\ (tpc'[f] = tpc[f] \/ (tpc[f] = "asleep" /\ tpc'[f] = "woken"))
  BY DEF Take, Candidates, Wake, Typed, ThreadLabels
<1>1. ASSUME NEW g \in Files PROVE BytesKept(g)'
  <2>1. CASE g # f
    BY <2>1, <1>0, BytesStay DEF Take, reader
  <2>2. CASE g = f
    <3>1. Kept(Drain(fifo[f], PacketSize), taken[f] + PacketSize, dropped[f],
               written[f], read[f], tpc'[f])
      BY <1>0, KeptTaken DEF Take, BytesKept
    <3>2. QED
      BY <2>2, <3>1, <1>0 DEF Take, reader, BytesKept
  <2>3. QED
    BY <2>1, <2>2
<1>2. Typed'
  <2>1. taken' \in [Files -> Byte]
    BY <1>0, <1>1 DEF BytesKept, Kept, Typed
  <2>2. DOMAIN fifo' = Files /\ fifo' = [g \in Files |-> fifo'[g]]
    BY <1>0, ZenonT(40) DEF Typed
  <2>3. eagain' \in [Files -> BOOLEAN]
    BY DEF Take, No
  <2>4. QED
    BY <2>1, <2>2, <2>3, <1>0 DEF Take, Typed, control, reader
<1>3. FileInRange'
  BY DEF Take, control, FileInRange
<1>4. ASSUME NEW g \in Files PROVE Stages(g)'
  <2>1. /\ mpc = "loop" /\ mpc' = mpc /\ finished' = finished /\ eof_reached' = eof_reached
        /\ memory' = memory /\ dropped' = dropped /\ read' = read
    BY DEF Take, control, reader
  <2>2. CASE g # f
    BY <2>1, <2>2, <1>0 DEF Stages
  <2>3. CASE g = f
    <3>1. Stages(f) /\ mpc = "loop"
      BY <2>1
    <3>2. /\ memory[f] # "freed" /\ dropped[f] = 0
          /\ memory[f] = "none" => tpc'[f] = "none"
      BY <3>1, <1>0 DEF Stages
    <3>3. finished[f] = (tpc'[f] = "done")
      BY <3>1, <1>0 DEF Stages
    <3>4. QED
      BY <2>1, <2>3, <3>2, <3>3, <1>0 DEF Stages
  <2>4. QED
    BY <2>2, <2>3
<1>5. QED
  BY <1>1, <1>2, <1>3, <1>4

(* ... or finds the end of the file, or nothing yet, ...                   *)
LEMMA TakeNothingInv ==
  ASSUME TInv, NEW f \in Files, TakeNothing(f)
  PROVE  TInv'
<1> USE DEF TInv
<1>1. Typed'
  BY DEF TakeNothing, control, reader, Typed
<1>2. FileInRange'
  BY DEF TakeNothing, control, FileInRange
<1>3. ASSUME NEW g \in Files PROVE BytesKept(g)'
  BY BytesStay DEF TakeNothing, control, reader
<1>4. finished[f] => taken[f] = read[f] /\ tpc[f] = "done"
  <2>1. Size(fifo[f]) = written[f] - (taken[f] + dropped[f]) /\ Size(fifo[f]) = 0
    BY KeptPackets DEF BytesKept, TakeNothing
  <2>2. dropped[f] = 0 /\ (finished[f] => tpc[f] = "done")
    BY DEF TakeNothing, Stages
  <2>3. /\ taken[f] \in Nat /\ written[f] \in Nat
        /\ (tpc[f] = "done" => read[f] = written[f])
    BY Constants DEF BytesKept, Kept, Byte
  <2>4. QED
    BY <2>1, <2>2, <2>3
<1>5. ASSUME NEW g \in Files PROVE Stages(g)'
  BY <1>4 DEF TakeNothing, control, reader, Stages, Typed
<1>6. QED
  BY <1>1, <1>2, <1>3, <1>5

(* ... or asks every file again.                                           *)
LEMMA TryAgainInv ==
  ASSUME TInv, TryAgain
  PROVE  TInv'
<1> USE DEF TInv
<1>1. Typed'
  BY DEF TryAgain, control, reader, Typed, No
<1>2. FileInRange'
  BY DEF TryAgain, control, FileInRange
<1>3. ASSUME NEW g \in Files PROVE BytesKept(g)' /\ Stages(g)'
  BY DEF TryAgain, control, reader, Stages, BytesKept
<1>4. QED
  BY <1>1, <1>2, <1>3

(* The loop of transcode() ends.                                           *)
LEMMA StopInv ==
  ASSUME TInv, Stop
  PROVE  TInv'
<1> USE DEF TInv
<1>1. Typed'
  BY InputAssumption DEF Stop, EnterFree, polled, reader, Typed, MainLabels
<1>2. FileInRange'
  BY DEF Stop, EnterFree, FileInRange
<1>3. ASSUME NEW g \in Files PROVE BytesKept(g)' /\ Stages(g)'
  BY DEF Stop, EnterFree, polled, reader, Stages, BytesKept
<1>4. QED
  BY <1>1, <1>2, <1>3

(* free_input_threads goes on to the next file, ...                        *)
LEMMA SkipInv ==
  ASSUME TInv, Skip
  PROVE  TInv'
<1> USE DEF TInv
<1>1. Typed'
  <2>1. file' \in 1 .. NbFiles + 1
    BY InputAssumption DEF Skip, Typed
  <2>2. mpc' \in MainLabels /\ again' \in BOOLEAN
    BY DEF Skip, Typed, MainLabels
  <2>3. QED
    BY <2>1, <2>2 DEF Skip, polled, reader, Typed
<1>2. FileInRange'
  BY DEF Skip, FileInRange
<1>3. ASSUME NEW g \in Files PROVE BytesKept(g)' /\ Stages(g)'
  BY DEF Skip, polled, reader, Stages, BytesKept
<1>4. QED
  BY <1>1, <1>2, <1>3

(* Emptying a FIFO keeps its bytes, and leaves none between written and    *)
(* what was taken or dropped.                                              *)
LEMMA EmptyKeeps ==
  ASSUME TInv, NEW f \in Files, Empty(f),
         UNCHANGED <<taken, written, read>>,
         \A g \in Files : tpc'[g] = tpc[g] \/ (tpc[g] = "asleep" /\ tpc'[g] = "woken")
  PROVE  /\ dropped' \in [Files -> Byte]
         /\ DOMAIN fifo' = Files /\ fifo' = [g \in Files |-> fifo'[g]]
         /\ \A g \in Files : BytesKept(g)'
         /\ \A g \in Files : g # f => dropped'[g] = dropped[g]
         /\ taken'[f] + dropped'[f] = written[f]
<1> USE DEF TInv
<1>1. /\ fifo' = [fifo EXCEPT ![f] = Drain(fifo[f], Size(fifo[f]))]
      /\ dropped' = [dropped EXCEPT ![f] = dropped[f] + Size(fifo[f])]
      /\ fifo'[f] = Drain(fifo[f], Size(fifo[f])) /\ dropped'[f] = dropped[f] + Size(fifo[f])
      /\ \A g \in Files : g # f => fifo'[g] = fifo[g] /\ dropped'[g] = dropped[g]
  BY DEF Empty, Typed
<1>2. /\ Kept(fifo'[f], taken[f], dropped'[f], written[f], read[f], tpc'[f])
      /\ taken[f] + dropped'[f] = written[f]
  BY <1>1, KeptDropped DEF BytesKept
<1>3. ASSUME NEW g \in Files PROVE BytesKept(g)'
  <2>1. CASE g # f
    BY <2>1, <1>1, BytesStay
  <2>2. CASE g = f
    BY <2>2, <1>2 DEF BytesKept
  <2>3. QED
    BY <2>1, <2>2
<1>4. dropped' \in [Files -> Byte]
  BY <1>1, <1>2 DEF Kept, Typed
<1>5. DOMAIN fifo' = Files /\ fifo' = [g \in Files |-> fifo'[g]]
  BY <1>1, SMTT(30) DEF Typed
<1>6. QED
  BY <1>1, <1>2, <1>3, <1>4, <1>5

(* free_input_threads drains a FIFO and wakes its thread, ...              *)
LEMMA DrainFileInv ==
  ASSUME TInv, DrainFile
  PROVE  TInv'
<1> USE DEF TInv
<1>1. file \in Files /\ mpc = "free" /\ mpc' = "join" /\ file' = file /\ Empty(file)
  BY InputAssumption DEF DrainFile, Typed, Files
<1>2. /\ finished' = finished /\ read' = read /\ written' = written /\ taken' = taken
      /\ eof_reached' = eof_reached /\ memory' = memory
  BY DEF DrainFile, polled, reader
<1>3. /\ tpc' \in [Files -> ThreadLabels]
      /\ \A g \in Files : tpc'[g] = tpc[g] \/ (tpc[g] = "asleep" /\ tpc'[g] = "woken")
  BY <1>1 DEF DrainFile, Wake, Typed, ThreadLabels
<1>4. /\ dropped' \in [Files -> Byte]
      /\ DOMAIN fifo' = Files /\ fifo' = [g \in Files |-> fifo'[g]]
      /\ \A g \in Files : BytesKept(g)'
      /\ \A g \in Files : g # file => dropped'[g] = dropped[g]
      /\ taken'[file] + dropped'[file] = written[file]
  BY <1>1, <1>2, <1>3, EmptyKeeps
<1>5. Typed'
  BY <1>1, <1>3, <1>4 DEF DrainFile, Typed, polled, reader, MainLabels
<1>6. FileInRange'
  BY <1>1 DEF FileInRange, DrainFile
<1>7. ASSUME NEW g \in Files PROVE Stages(g)'
  <2>1. read[g] = IF tpc[g] \in {"write", "asleep", "woken"}
                  THEN written[g] + PacketSize ELSE written[g]
    BY DEF BytesKept, Kept
  <2>2. memory[g] = "freed" => taken'[g] + dropped'[g] = read[g]
    BY <1>2, <1>4, <2>1 DEF Stages
  <2>3. /\ tpc'[g] \in {"none", "done"} \/ tpc[g] \in {"none", "done"} => tpc'[g] = tpc[g]
    BY <1>3
  <2>4. QED
    BY <1>1, <1>2, <2>2, <2>3 DEF Stages
<1>8. QED
  BY <1>4, <1>5, <1>6, <1>7

(* ... and joins the thread, if there is one, and frees the FIFO.          *)
Joins == /\ mpc = "join" /\ tpc[file] \in {"none", "done"}
         /\ Empty(file) /\ JoinReturns
Crashes == /\ mpc = "join" /\ mpc' = "crashed"
           /\ UNCHANGED <<discard, file, again, transcoding_finished, polled, joined,
                          dropped, memory, reader, tpc, fifo>>

LEMMA JoinCases ==
  ASSUME Join \/ JoinNobody
  PROVE  Joins \/ Crashes
  BY DEF Join, JoinNobody, Joins, Crashes

LEMMA JoinInv ==
  ASSUME TInv, Joins
  PROVE  TInv'
<1> USE DEF TInv
<1>1. file \in Files /\ mpc = "join" /\ mpc' = "free" /\ file' = file + 1 /\ Empty(file)
  BY InputAssumption DEF Joins, JoinReturns, FileInRange, Typed, Files
<1>2. /\ finished' = finished /\ read' = read /\ written' = written /\ taken' = taken
      /\ eof_reached' = eof_reached /\ tpc' = tpc
      /\ memory' = [memory EXCEPT ![file] = "freed"]
  BY DEF Joins, JoinReturns, polled, reader
<1>3. /\ dropped' \in [Files -> Byte]
      /\ DOMAIN fifo' = Files /\ fifo' = [g \in Files |-> fifo'[g]]
      /\ \A g \in Files : BytesKept(g)'
      /\ \A g \in Files : g # file => dropped'[g] = dropped[g]
      /\ taken'[file] + dropped'[file] = written[file]
  BY <1>1, <1>2, EmptyKeeps
<1>4. Typed'
  <2>1. file' \in 1 .. NbFiles + 1
    BY <1>1, InputAssumption DEF Files
  <2>2. memory' \in [Files -> {"none", "live", "freed"}] /\ joined' \in [Files -> BOOLEAN]
    BY <1>2 DEF Joins, JoinReturns, Typed
  <2>3. QED
    BY <1>1, <1>2, <1>3, <2>1, <2>2 DEF Joins, JoinReturns, Typed, polled, reader, MainLabels
<1>5. FileInRange'
  BY <1>1 DEF FileInRange
<1>6. ASSUME NEW g \in Files PROVE Stages(g)'
  <2>1. CASE g # file
    BY <1>1, <1>2, <1>3, <2>1 DEF Stages, Typed
  <2>2. CASE g = file
    <3>1. tpc[g] \in {"none", "done"}
      BY <2>2 DEF Joins
    <3>2. read[g] = written[g]
      BY <3>1 DEF BytesKept, Kept
    <3>3. Stages(g) /\ memory'[g] = "freed"
      BY <1>2, <2>2 DEF Typed
    <3>4. QED
      BY <1>1, <1>2, <1>3, <2>2, <3>1, <3>2, <3>3 DEF Stages
  <2>3. QED
    BY <2>1, <2>2
<1>7. QED
  BY <1>3, <1>4, <1>5, <1>6

------------------------------------------------------------------------------
(* The steps of an input thread that touch only its position.              *)
LEMMA MoveInv ==
  ASSUME TInv, NEW f \in Files, UNCHANGED <<main, reader, fifo>>,
         NEW l \in ThreadLabels, tpc' = [tpc EXCEPT ![f] = l],
         {tpc[f], l} \cap {"none", "done"} = {},
         \/ {tpc[f], l} \subseteq {"write", "asleep", "woken"}
         \/ {tpc[f], l} \cap {"write", "asleep", "woken"} = {}
  PROVE  TInv'
<1> USE DEF TInv
<1>1. /\ mpc' = mpc /\ file' = file /\ finished' = finished /\ read' = read
      /\ written' = written /\ taken' = taken /\ dropped' = dropped
      /\ eof_reached' = eof_reached /\ memory' = memory /\ fifo' = fifo
  BY DEF main, control, polled, reader
<1>2. tpc' \in [Files -> ThreadLabels] /\ tpc'[f] = l
      /\ \A g \in Files : g # f => tpc'[g] = tpc[g]
  BY DEF Typed
<1>3. Typed'
  BY <1>2 DEF Typed, main, control, polled, reader
<1>4. FileInRange'
  BY <1>1 DEF FileInRange
<1>5. ASSUME NEW g \in Files PROVE BytesKept(g)'
  BY <1>1, <1>2, BytesStay
<1>6. ASSUME NEW g \in Files PROVE Stages(g)'
  <2>1. CASE g # f
    BY <1>1, <1>2, <2>1 DEF Stages
  <2>2. CASE g = f
    BY <1>1, <1>2, <2>2 DEF Stages
  <2>3. QED
    BY <2>1, <2>2
<1>7. QED
  BY <1>3, <1>4, <1>5, <1>6

(* av_read_frame gives the thread a packet, ...                            *)
LEMMA ReadFrameInv ==
  ASSUME TInv, NEW f \in Files, ReadFrame(f)
  PROVE  TInv'
<1> USE DEF TInv
<1>1. /\ mpc' = mpc /\ file' = file /\ finished' = finished /\ fifo' = fifo
      /\ written' = written /\ taken' = taken /\ dropped' = dropped
      /\ eof_reached' = eof_reached /\ memory' = memory
      /\ tpc[f] = "read" /\ tpc'[f] = "write" /\ read'[f] = read[f] + PacketSize
      /\ \A g \in Files : g # f => tpc'[g] = tpc[g] /\ read'[g] = read[g]
  BY DEF ReadFrame, main, control, polled, Typed
<1>2. read[f] = written[f] /\ read[f] < Total
  BY <1>1 DEF BytesKept, Kept, ReadFrame
<1>3. read[f] + PacketSize \in Byte
  <2>1. read[f] + PacketSize <= Total
    BY <1>2, KeptPackets DEF BytesKept
  <2>2. QED
    BY <2>1, Constants DEF Typed, Byte
<1>4. Typed'
  <2>1. read' \in [Files -> Byte] /\ tpc' \in [Files -> ThreadLabels]
    BY <1>3 DEF ReadFrame, Typed, ThreadLabels
  <2>2. QED
    BY <2>1 DEF ReadFrame, Typed, main, control, polled
<1>5. FileInRange'
  BY <1>1 DEF FileInRange
<1>6. ASSUME NEW g \in Files PROVE BytesKept(g)'
  <2>1. CASE g # f
    BY <1>1, <2>1, BytesStay
  <2>2. CASE g = f
    <3>1. Kept(fifo[f], taken[f], dropped[f], written[f], read[f], tpc[f])
      BY DEF BytesKept
    <3>2. Kept(fifo[f], taken[f], dropped[f], written[f], read[f] + PacketSize, "write")
      BY <1>2, <1>3, <3>1 DEF Kept
    <3>3. QED
      BY <1>1, <2>2, <3>2 DEF BytesKept
  <2>3. QED
    BY <2>1, <2>2
<1>7. ASSUME NEW g \in Files PROVE Stages(g)'
  <2>1. CASE g # f
    BY <1>1, <2>1 DEF Stages
  <2>2. CASE g = f
    BY <1>1, <2>2 DEF Stages
  <2>3. QED
    BY <2>1, <2>2
<1>8. QED
  BY <1>4, <1>5, <1>6, <1>7

(* ... it waits for room or puts the packet into the FIFO, ...             *)
LEMMA WriteFrameInv ==
  ASSUME TInv, NEW f \in Files, WriteFrame(f)
  PROVE  TInv'
<1> USE DEF TInv
<1>1. CASE Space(fifo[f]) = 0
  <2>1. UNCHANGED <<main, reader, fifo>> /\ tpc' = [tpc EXCEPT ![f] = "asleep"]
    BY <1>1 DEF WriteFrame, reader
  <2>2. QED
    BY <2>1, MoveInv, ZenonT(40) DEF WriteFrame, ThreadLabels
<1>2. CASE Space(fifo[f]) # 0
  <2>1. /\ mpc' = mpc /\ file' = file /\ finished' = finished /\ read' = read
        /\ taken' = taken /\ dropped' = dropped
        /\ eof_reached' = eof_reached /\ memory' = memory
        /\ tpc[f] \in {"write", "woken"} /\ tpc'[f] = "top"
        /\ written'[f] = written[f] + PacketSize
        /\ fifo' = [fifo EXCEPT ![f] = Write(fifo[f], Packet(written[f]))]
        /\ fifo'[f] = Write(fifo[f], Packet(written[f]))
        /\ \A g \in Files : g # f => /\ tpc'[g] = tpc[g] /\ written'[g] = written[g]
                                     /\ fifo'[g] = fifo[g]
    BY <1>2 DEF WriteFrame, main, control, polled, Typed
  <2>2. Kept(fifo'[f], taken[f], dropped[f], written'[f], read[f], tpc'[f])
    BY <1>2, <2>1, KeptWritten DEF BytesKept
  <2>3. Typed'
    <3>1. written' \in [Files -> Byte] /\ tpc' \in [Files -> ThreadLabels]
      BY <1>2, <2>1, <2>2 DEF WriteFrame, Typed, ThreadLabels, Kept
    <3>2. DOMAIN fifo' = Files /\ fifo' = [g \in Files |-> fifo'[g]]
      BY <2>1, ZenonT(40) DEF Typed
    <3>3. QED
      BY <3>1, <3>2 DEF WriteFrame, Typed, main, control, polled
  <2>4. FileInRange'
    BY <2>1 DEF FileInRange
  <2>5. ASSUME NEW g \in Files PROVE BytesKept(g)'
    <3>1. CASE g # f
      BY <2>1, <3>1, BytesStay
    <3>2. CASE g = f
      BY <2>1, <2>2, <3>2 DEF BytesKept
    <3>3. QED
      BY <3>1, <3>2
  <2>6. ASSUME NEW g \in Files PROVE Stages(g)'
    <3>1. CASE g # f
      BY <2>1, <3>1 DEF Stages
    <3>2. CASE g = f
      BY <2>1, <3>2 DEF Stages
    <3>3. QED
      BY <3>1, <3>2
  <2>7. QED
    BY <2>3, <2>4, <2>5, <2>6
<1>3. QED
  BY <1>1, <1>2

(* ... and sets finished at the end.                                       *)
LEMMA FinishInv ==
  ASSUME TInv, NEW f \in Files, Finish(f)
  PROVE  TInv'
<1> USE DEF TInv
<1>1. /\ mpc' = mpc /\ file' = file /\ read' = read /\ written' = written
      /\ taken' = taken /\ dropped' = dropped
      /\ eof_reached' = eof_reached /\ memory' = memory /\ fifo' = fifo
      /\ tpc[f] = "finish" /\ tpc'[f] = "done" /\ finished'[f] = TRUE
      /\ \A g \in Files : g # f => tpc'[g] = tpc[g] /\ finished'[g] = finished[g]
  BY DEF Finish, main, control, polled, Typed
<1>2. Typed'
  <2>1. finished' \in [Files -> BOOLEAN] /\ tpc' \in [Files -> ThreadLabels]
    BY DEF Finish, Typed, ThreadLabels
  <2>2. QED
    BY <2>1 DEF Finish, Typed, main, control, polled
<1>3. FileInRange'
  BY <1>1 DEF FileInRange
<1>4. ASSUME NEW g \in Files PROVE BytesKept(g)'
  BY <1>1, BytesStay
<1>5. ASSUME NEW g \in Files PROVE Stages(g)'
  <2>1. CASE g # f
    BY <1>1, <2>1 DEF Stages
  <2>2. CASE g = f
    BY <1>1, <2>2 DEF Stages
  <2>3. QED
    BY <2>1, <2>2
<1>6. QED
  BY <1>2, <1>3, <1>4, <1>5

------------------------------------------------------------------------------
(* The invariant is inductive.                                             *)
LEMMA NextInv ==
  ASSUME TInv, [Next]_vars
  PROVE  TInv'
<1>1. CASE Start
  BY <1>1, StartInv
<1>2. CASE Poll
  BY <1>2, TakeInv, TakeNothingInv, TryAgainInv DEF Poll
<1>3. CASE Stop
  BY <1>3, StopInv
<1>4. CASE Tear
  <2>1. CASE Crashes
    <3>1. Typed' /\ FileInRange'
      BY <2>1 DEF Crashes, TInv, Typed, FileInRange, MainLabels, polled, reader
    <3>2. ASSUME NEW f \in Files PROVE BytesKept(f)' /\ Stages(f)'
      BY <2>1 DEF Crashes, TInv, BytesKept, Stages, polled, reader
    <3>3. QED
      BY <3>1, <3>2 DEF TInv
  <2>2. QED
    BY <1>4, <2>1, SkipInv, DrainFileInv, JoinCases, JoinInv DEF Tear
<1>5. ASSUME NEW f \in Files, InputThread(f) \/ SpuriousWakeup(f)
      PROVE  TInv'
  <2>1. CASE Top(f)
    <3>1. PICK l \in {"finish", "read"} : tpc' = [tpc EXCEPT ![f] = l]
      BY <2>1 DEF Top
    <3>2. QED
      BY <2>1, <3>1, MoveInv, ZenonT(40) DEF Top, ThreadLabels
  <2>2. CASE ReadFrame(f)
    BY <2>2, ReadFrameInv
  <2>3. CASE ReadNothing(f)
    <3>1. PICK l \in {"top", "finish"} : tpc' = [tpc EXCEPT ![f] = l]
      BY <2>3 DEF ReadNothing
    <3>2. QED
      BY <2>3, <3>1, MoveInv, ZenonT(40) DEF ReadNothing, ThreadLabels
  <2>4. CASE WriteFrame(f)
    BY <2>4, WriteFrameInv
  <2>5. CASE Finish(f)
    BY <2>5, FinishInv
  <2>6. CASE SpuriousWakeup(f)
    BY <2>6, MoveInv DEF SpuriousWakeup, ThreadLabels
  <2>7. QED
    BY <1>5, <2>1, <2>2, <2>3, <2>4, <2>5, <2>6 DEF InputThread
<1>6. CASE UNCHANGED vars
  <2>1. Typed' /\ FileInRange'
    BY <1>6 DEF TInv, Typed, FileInRange, vars, main, control, polled, reader
  <2>2. ASSUME NEW f \in Files PROVE BytesKept(f)' /\ Stages(f)'
    BY <1>6 DEF TInv, BytesKept, Stages, vars, main, control, polled, reader
  <2>3. QED
    BY <2>1, <2>2 DEF TInv
<1>7. QED
  BY <1>1, <1>2, <1>3, <1>4, <1>5, <1>6 DEF Next

(* The inductive invariant holds throughout.                               *)
THEOREM SpecInv == Spec => []IInv
<1>1. Init => TInv
  BY InitInv
<1>2. TInv /\ [Next]_vars => TInv'
  BY NextInv
<1>3. TInv => IInv
  BY Invariants
<1>4. QED
  BY <1>1, <1>2, <1>3, PTL DEF Spec

(* Every variable keeps its type; for the FIFOs, both pointers stay inside *)
(* the ring and both indices inside a word.                                *)
THEOREM SpecType == Spec => []TypeOK
<1>1. IInv => TypeOK
  BY DEF IInv
<1>2. QED
  BY <1>1, SpecInv, PTL

(* A FIFO holds the packets between those taken and those written, in the  *)
(* order of the file, for rings of any size and at any point of their wrap *)
(* (avconv.c 1970 and 2043, fifo.c 82-129).                                *)
THEOREM SpecFifoHoldsTheRest == Spec => []FifoHoldsTheRest
<1>1. ASSUME IInv PROVE FifoHoldsTheRest
  <2>1. SUFFICES ASSUME NEW f \in Files
                 PROVE  Contents(fifo[f]) =
                          [i \in 1 .. written[f] - taken[f] - dropped[f]
                             |-> taken[f] + dropped[f] + i]
    BY DEF FifoHoldsTheRest
  <2>2. /\ Holds(fifo[f], taken[f] + dropped[f], written[f])
        /\ taken[f] \in Nat /\ dropped[f] \in Nat /\ written[f] \in Nat
    BY <1>1, Constants DEF IInv, BytesKept, Kept, Byte
  <2>3. written[f] - (taken[f] + dropped[f]) = written[f] - taken[f] - dropped[f]
    BY <2>2
  <2>4. QED
    BY <2>2, <2>3 DEF Holds
<1>2. QED
  BY <1>1, SpecInv, PTL

(* A file is taken for ended only when its thread is over and everything   *)
(* it read was decoded (avconv.c 1975, 2129).                              *)
THEOREM SpecEofAfterEverything == Spec => []EofAfterEverything
<1>1. IInv => EofAfterEverything
  BY DEF IInv, Stages, EofAfterEverything
<1>2. QED
  BY <1>1, SpecInv, PTL

(* What an input thread that sleeps waits for, and why one that is being   *)
(* joined goes through: its FIFO was drained, and it writes no more than   *)
(* the packet it has at most, since it finds transcoding_finished set.     *)
Waits(f) ==
  /\ tpc[f] = "asleep" => Space(fifo[f]) = 0
  /\ mpc = "join" /\ file = f =>
       tpc[f] # "asleep" /\ (tpc[f] \in {"read", "write", "woken"} => Size(fifo[f]) = 0)

Waiting == /\ mpc \in {"free", "join"} => transcoding_finished
           /\ \A f \in Files : Waits(f)

(* Polling the files and starting them: a thread whose FIFO has changed is *)
(* awake.                                                                  *)
LEMMA PollWaits ==
  ASSUME TInv, Waiting, Start \/ Poll \/ Stop \/ Skip
  PROVE  Waiting'
<1> USE DEF TInv, Waiting
<1>1. CASE Start
  <2>1. /\ fifo' = fifo /\ mpc' # "join" /\ (mpc' = "free" => transcoding_finished')
        /\ \A f \in Files : tpc'[f] = "asleep" => tpc[f] = "asleep"
    BY <1>1 DEF Start, EnterFree, Typed
  <2>2. QED
    BY <2>1 DEF Waits
<1>2. CASE TryAgain \/ Stop \/ Skip
  <2>1. /\ fifo' = fifo /\ tpc' = tpc /\ mpc' # "join"
        /\ mpc' = "free" => transcoding_finished'
    BY <1>2 DEF TryAgain, Stop, Skip, EnterFree, control, reader
  <2>2. QED
    BY <2>1 DEF Waits
<1>3. ASSUME NEW f \in Files, Take(f) \/ TakeNothing(f)
      PROVE  Waiting'
  <2>1. mpc' = "loop"
    BY <1>3 DEF Take, TakeNothing, control
  <2>2. ASSUME NEW g \in Files, tpc'[g] = "asleep"
        PROVE  tpc[g] = "asleep" /\ fifo'[g] = fifo[g]
    BY <1>3, <2>2 DEF Take, TakeNothing, Wake, Typed
  <2>3. QED
    BY <2>1, <2>2 DEF Waits
<1>4. QED
  BY <1>1, <1>2, <1>3 DEF Poll

(* free_input_threads drains the FIFO of a file, wakes its thread and      *)
(* joins it.                                                               *)
LEMMA TearWaits ==
  ASSUME TInv, Waiting, DrainFile \/ Joins
  PROVE  Waiting'
<1>1. /\ file \in Files /\ transcoding_finished' = transcoding_finished /\ Empty(file)
      /\ UNCHANGED <<taken, written, read>> /\ mpc \in {"free", "join"}
  BY InputAssumption
     DEF DrainFile, Joins, JoinReturns, TInv, FileInRange, Typed, Files, polled, reader
<1>2. ASSUME NEW g \in Files
      PROVE  /\ tpc'[g] = tpc[g] \/ (tpc[g] = "asleep" /\ tpc'[g] = "woken")
             /\ g # file => fifo'[g] = fifo[g]
             /\ tpc'[file] # "asleep"
  BY <1>1 DEF DrainFile, Joins, JoinReturns, Wake, Empty, TInv, Typed
<1>3. ASSUME NEW g \in Files, tpc'[g] = "asleep"
      PROVE  Space(fifo[g])' = 0
  BY <1>2, <1>3 DEF Waiting, Waits
<1>4. ASSUME NEW g \in Files, mpc' = "join", file' = g
      PROVE  tpc'[g] # "asleep" /\ Size(fifo[g])' = 0
  <2>1. g = file
    BY <1>4 DEF DrainFile, Joins, JoinReturns
  <2>2. BytesKept(g)' /\ taken'[g] + dropped'[g] = written'[g]
    BY <1>1, <1>2, <2>1, EmptyKeeps
  <2>3. /\ Size(fifo[g])' = written'[g] - (taken'[g] + dropped'[g])
        /\ written'[g] \in Nat
    BY <2>2, Constants DEF BytesKept, Kept, Holds, Byte
  <2>4. QED
    BY <1>2, <2>1, <2>2, <2>3
<1>5. transcoding_finished'
  BY <1>1 DEF Waiting
<1>6. QED
  BY <1>3, <1>4, <1>5 DEF Waiting, Waits

(* A thread goes to sleep when there is no room, and writes into an empty  *)
(* FIFO at once.                                                           *)
LEMMA ThreadWaits ==
  ASSUME TInv, Waiting, NEW f \in Files, InputThread(f) \/ SpuriousWakeup(f)
  PROVE  Waiting'
<1>1. mpc' = mpc /\ file' = file /\ transcoding_finished' = transcoding_finished
  BY DEF InputThread, Top, ReadFrame, ReadNothing, WriteFrame, Finish, SpuriousWakeup, main,
         control
<1>2. ASSUME NEW g \in Files, g # f
      PROVE  tpc'[g] = tpc[g] /\ fifo'[g] = fifo[g]
  BY <1>2 DEF InputThread, Top, ReadFrame, ReadNothing, WriteFrame, Finish, SpuriousWakeup,
         TInv, Typed
<1>3. tpc'[f] = "asleep" => /\ tpc[f] \in {"write", "woken"} /\ fifo'[f] = fifo[f]
                            /\ Space(fifo[f]) = 0
  <2>1. CASE WriteFrame(f)
    BY <2>1 DEF WriteFrame, TInv, Typed
  <2>2. CASE ~WriteFrame(f)
    BY <2>2 DEF InputThread, Top, ReadFrame, ReadNothing, Finish, SpuriousWakeup, TInv, Typed
  <2>3. QED
    BY <2>1, <2>2
<1>4. mpc = "join" /\ file = f => tpc'[f] # "asleep"
  <2>1. SUFFICES ASSUME mpc = "join", file = f, tpc'[f] = "asleep"
                 PROVE  FALSE
    OBVIOUS
  <2>2. Size(fifo[f]) = 0
    BY <1>3, <2>1 DEF Waiting, Waits
  <2>3. fifo[f].end = Depth
    BY DEF TInv, BytesKept, Kept, Holds
  <2>4. QED
    BY <1>3, <2>1, <2>2, <2>3, Constants DEF Space
<1>5. mpc = "join" /\ file = f /\ tpc'[f] \in {"read", "write", "woken"} =>
        Size(fifo[f])' = 0
  <2>1. SUFFICES ASSUME mpc = "join", file = f, tpc'[f] \in {"read", "write", "woken"}
                 PROVE  Size(fifo[f])' = 0
    OBVIOUS
  <2>2. transcoding_finished /\ tpc[f] # "asleep"
    BY <2>1 DEF Waiting, Waits
  <2>3. CASE Top(f) \/ ReadNothing(f) \/ Finish(f) \/ SpuriousWakeup(f) \/ WriteFrame(f)
    BY <2>1, <2>2, <2>3 DEF Top, ReadNothing, Finish, SpuriousWakeup, WriteFrame, TInv, Typed
  <2>4. CASE ReadFrame(f)
    <3>1. tpc[f] = "read" /\ fifo' = fifo
      BY <2>4 DEF ReadFrame
    <3>2. QED
      BY <2>1, <3>1 DEF Waiting, Waits
  <2>5. QED
    BY <2>3, <2>4 DEF InputThread
<1>6. ASSUME NEW g \in Files
      PROVE  Waits(g)'
  <2>1. CASE g = f
    BY <1>1, <1>3, <1>4, <1>5, <2>1 DEF Waits
  <2>2. CASE g # f
    BY <1>1, <1>2, <2>2 DEF Waiting, Waits
  <2>3. QED
    BY <2>1, <2>2
<1>7. QED
  BY <1>1, <1>6 DEF Waiting

(* A FIFO is freed when its thread no longer touches it, with nothing left *)
(* (avconv.c line 2010), and no thread misses the signal it waits for.     *)
THEOREM SpecQuietTeardown == Spec => []QuietTeardown
<1>1. Init => TInv /\ Waiting
  BY InitInv DEF Init, Waiting, Waits
<1>2. TInv /\ Waiting /\ [Next]_vars => TInv' /\ Waiting'
  <2> SUFFICES ASSUME TInv, Waiting, [Next]_vars PROVE TInv' /\ Waiting'
    OBVIOUS
  <2>1. CASE UNCHANGED vars
    BY <2>1, NextInv DEF Waiting, Waits, vars, main, control
  <2>2. CASE Next
    <3>1. CASE Crashes
      BY <2>2, <3>1, NextInv DEF Crashes, Waiting, Waits
    <3>2. QED
      BY <2>2, <3>1, NextInv, PollWaits, TearWaits, ThreadWaits, JoinCases DEF Next, Tear
  <2>3. QED
    BY <2>1, <2>2
<1>3. TInv /\ Waiting => QuietTeardown
  BY DEF TInv, Stages, Waiting, Waits, QuietTeardown
<1>4. QED
  BY <1>1, <1>2, <1>3, PTL DEF Spec
==============================================================================
