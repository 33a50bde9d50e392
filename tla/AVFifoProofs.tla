----------------------------- MODULE AVFifoProofs -----------------------------
(***************************************************************************)
(* What the operations of the byte FIFO do to its contents, for a ring of  *)
(* any size, whatever has been read and written before: the pointers may   *)
(* have wrapped at the end of the ring and the indices at 2^32.            *)
(***************************************************************************)
EXTENDS AVFifo, SequenceTheorems, TLAPS

(* A FIFO whose pointers agree with its indices.                           *)
IsFifo(f, Byte) ==
  /\ f.end \in 1 .. Word - 1 /\ f \in Fifos(f.end, Byte)
  /\ Size(f) <= f.end
  /\ f.wptr = At(f, f.rptr, Size(f))

(* The fields of a FIFO.                                                   *)
LEMMA FifoType ==
  ASSUME NEW Byte, NEW n \in 1 .. Word - 1, NEW f \in Fifos(n, Byte)
  PROVE  /\ f.end = n /\ f.buffer \in [Cells(n) -> Byte]
         /\ f.rptr \in 0 .. n - 1 /\ f.wptr \in 0 .. n - 1
         /\ f.rndx \in 0 .. Word - 1 /\ f.wndx \in 0 .. Word - 1
BY DEF Fifos, Cells

(* And the other way round.                                                *)
LEMMA FifoOf ==
  ASSUME NEW Byte, NEW n \in 1 .. Word - 1, NEW b \in [Cells(n) -> Byte],
         NEW r \in 0 .. n - 1, NEW w \in 0 .. n - 1,
         NEW i \in 0 .. Word - 1, NEW j \in 0 .. Word - 1
  PROVE  Ring(n, b, r, w, i, j) \in Fifos(n, Byte)
BY DEF Fifos, Cells, Ring

(* A free-running index comes back into its range, and av_fifo_size counts *)
(* the bytes between two of them.                                          *)
LEMMA Sizes ==
  ASSUME NEW Byte, NEW f, IsFifo(f, Byte)
  PROVE  Size(f) \in 0 .. f.end /\ Space(f) \in 0 .. f.end
BY FifoType, WordAssumption DEF IsFifo, Size, Space

(* av_fifo_alloc.                                                          *)
LEMMA AllocEmpty ==
  ASSUME NEW Byte, NEW n \in 1 .. Word - 1, NEW b \in [Cells(n) -> Byte]
  PROVE  /\ IsFifo(Alloc(n, b), Byte) /\ Alloc(n, b).end = n
         /\ Size(Alloc(n, b)) = 0 /\ Contents(Alloc(n, b)) = << >>
<1> DEFINE f == Alloc(n, b)
<1>1. f \in Fifos(n, Byte)
  BY FifoOf, WordAssumption DEF Alloc
<1>2. f.end = n /\ f.rptr = 0 /\ f.wptr = 0 /\ f.rndx = 0 /\ f.wndx = 0
  BY DEF Alloc, Ring
<1>3. Size(f) = 0
  BY <1>2 DEF Size
<1>4. Contents(f) = << >>
  BY <1>3 DEF Contents, Peek
<1>5. QED
  BY <1>1, <1>2, <1>3, <1>4 DEF IsFifo, At

(* The contents, byte by byte.                                             *)
LEMMA ContentsAre ==
  ASSUME NEW Byte, NEW f, IsFifo(f, Byte)
  PROVE  /\ Contents(f) \in Seq(Byte) /\ Len(Contents(f)) = Size(f)
         /\ \A i \in 1 .. Size(f) : Contents(f)[i] = f.buffer[At(f, f.rptr, i - 1)]
<1>1. Size(f) \in 0 .. f.end
  BY Sizes
<1>2. \A i \in 1 .. Size(f) : f.buffer[At(f, f.rptr, i - 1)] \in Byte
  <2>1. TAKE i \in 1 .. Size(f)
  <2>2. At(f, f.rptr, i - 1) \in Cells(f.end)
    BY <1>1, FifoType, SMTT(30) DEF At, Cells, IsFifo
  <2>3. QED
    BY <2>2, FifoType DEF IsFifo
<1>3. QED
  BY <1>1, <1>2 DEF Contents, Peek

(* av_fifo_drain drops the bytes at the front.                             *)
THEOREM DrainDrops ==
  ASSUME NEW Byte, NEW f, IsFifo(f, Byte), NEW n \in 0 .. Size(f)
  PROVE  /\ IsFifo(Drain(f, n), Byte) /\ Drain(f, n).end = f.end
         /\ Size(Drain(f, n)) = Size(f) - n
         /\ Contents(Drain(f, n)) = [i \in 1 .. Size(f) - n |-> Contents(f)[n + i]]
<1> DEFINE g == Drain(f, n)
<1>1. /\ f.end \in 1 .. Word - 1 /\ f \in Fifos(f.end, Byte)
      /\ Size(f) \in 0 .. f.end /\ f.wptr = At(f, f.rptr, Size(f))
  BY Sizes DEF IsFifo
<1>2. /\ g.end = f.end /\ g.buffer = f.buffer /\ g.wptr = f.wptr /\ g.wndx = f.wndx
      /\ g.rptr = At(f, f.rptr, n) /\ g.rndx = Advance(f.rndx, n)
  BY DEF Drain, Ring
<1>3. At(f, f.rptr, n) \in 0 .. f.end - 1 /\ Advance(f.rndx, n) \in 0 .. Word - 1
  BY <1>1, FifoType, WordAssumption DEF At, Advance
<1>4. g \in Fifos(f.end, Byte)
  BY <1>1, <1>3, FifoType, FifoOf DEF Drain
<1>5. Size(g) = Size(f) - n
  BY <1>1, <1>2, FifoType, WordAssumption DEF Size, Advance
<1>6. g.wptr = At(g, g.rptr, Size(g))
  BY <1>1, <1>2, <1>5, FifoType DEF At
<1>7. IsFifo(g, Byte)
  BY <1>1, <1>2, <1>4, <1>5, <1>6 DEF IsFifo
<1>8. \A i \in 1 .. Size(f) - n : At(g, g.rptr, i - 1) = At(f, f.rptr, n + i - 1)
  BY <1>1, <1>2, FifoType DEF At
<1>9. \A i \in 1 .. Size(f) - n : g.buffer[At(g, g.rptr, i - 1)] = Contents(f)[n + i]
  <2>1. TAKE i \in 1 .. Size(f) - n
  <2>2. n + i \in 1 .. Size(f)
    BY <1>1
  <2>3. Contents(f)[n + i] = f.buffer[At(f, f.rptr, n + i - 1)]
    BY <2>2, ContentsAre
  <2>4. QED
    BY <2>3, <1>2, <1>8
<1>10. QED
  BY <1>2, <1>5, <1>7, <1>9 DEF Contents, Peek

(* Where a byte lands relative to the write pointer: those already there   *)
(* are out of reach, the new ones follow them.                             *)
LEMMA Offsets ==
  ASSUME NEW Byte, NEW f, IsFifo(f, Byte), NEW i \in 0 .. f.end - 1
  PROVE  /\ At(f, f.rptr, i) \in Cells(f.end)
         /\ i < Size(f) => Offset(f, f.wptr, At(f, f.rptr, i)) = Space(f) + i
         /\ i >= Size(f) => Offset(f, f.wptr, At(f, f.rptr, i)) = i - Size(f)
<1> DEFINE z == Size(f)  p == f.rptr  w == f.wptr  e == f.end
<1>1. /\ e \in 1 .. Word - 1 /\ p \in 0 .. e - 1 /\ w \in 0 .. e - 1 /\ z \in 0 .. e
      /\ w = IF p + z < e THEN p + z ELSE p + z - e
  BY Sizes, FifoType DEF IsFifo, At
<1>2. /\ Space(f) = e - z
      /\ At(f, p, i) = IF p + i < e THEN p + i ELSE p + i - e
      /\ \A j : Offset(f, w, j) = IF w <= j THEN j - w ELSE j - w + e
  BY DEF Space, At, Offset
<1> HIDE DEF z, p, w, e
<1>3. e \in Nat /\ i \in 0 .. e - 1
  BY <1>1, WordAssumption DEF e
<1>4. At(f, p, i) \in 0 .. e - 1
  BY <1>1, <1>2, <1>3
<1>5. i < z => Offset(f, w, At(f, p, i)) = Space(f) + i
  BY <1>1, <1>2, <1>3
<1>6. i >= z => Offset(f, w, At(f, p, i)) = i - z
  BY <1>1, <1>2, <1>3
<1>7. QED
  BY <1>4, <1>5, <1>6 DEF z, p, w, e, Cells

(* The pointer and the index after n more bytes are written.               *)
LEMMA Written ==
  ASSUME NEW Byte, NEW f, IsFifo(f, Byte), NEW n \in 0 .. Space(f)
  PROVE  /\ At(f, f.wptr, n) \in 0 .. f.end - 1
         /\ Advance(f.wndx, n) \in 0 .. Word - 1
         /\ \A g : g.rndx = f.rndx /\ g.wndx = Advance(f.wndx, n) => Size(g) = Size(f) + n
         /\ At(f, f.wptr, n) = At(f, f.rptr, Size(f) + n)
<1>1. /\ f.end \in 1 .. Word - 1 /\ f.rptr \in 0 .. f.end - 1 /\ f.wptr \in 0 .. f.end - 1
      /\ f.rndx \in 0 .. Word - 1 /\ f.wndx \in 0 .. Word - 1
      /\ Size(f) \in 0 .. f.end /\ n \in 0 .. f.end - Size(f)
      /\ f.wptr = At(f, f.rptr, Size(f))
  BY Sizes, FifoType DEF IsFifo, Space
<1>2. At(f, f.wptr, n) \in 0 .. f.end - 1
  BY <1>1 DEF At
<1>3. Advance(f.wndx, n) \in 0 .. Word - 1
  BY <1>1, WordAssumption DEF Advance
<1>4. ASSUME NEW g, g.rndx = f.rndx, g.wndx = Advance(f.wndx, n)
      PROVE  Size(g) = Size(f) + n
  BY <1>1, <1>4, WordAssumption DEF Size, Advance
<1>5. At(f, f.wptr, n) = At(f, f.rptr, Size(f) + n)
  BY <1>1 DEF At
<1>6. QED
  BY <1>2, <1>3, <1>4, <1>5

(* av_fifo_generic_write appends: no byte that was there is overwritten,   *)
(* and the new ones come out after them in their order.                    *)
THEOREM WriteAppends ==
  ASSUME NEW Byte, NEW f, IsFifo(f, Byte),
         NEW s \in Seq(Byte), Len(s) <= Space(f)
  PROVE  /\ IsFifo(Write(f, s), Byte) /\ Write(f, s).end = f.end
         /\ Size(Write(f, s)) = Size(f) + Len(s)
         /\ Contents(Write(f, s)) = Contents(f) \o s
<1> DEFINE g == Write(f, s)
           b == [j \in Cells(f.end) |-> IF Offset(f, f.wptr, j) < Len(s)
                                        THEN s[Offset(f, f.wptr, j) + 1] ELSE f.buffer[j]]
<1>1. /\ f.end \in 1 .. Word - 1 /\ f \in Fifos(f.end, Byte)
      /\ Size(f) \in 0 .. f.end /\ Space(f) = f.end - Size(f)
      /\ Len(s) \in 0 .. Space(f) /\ Len(s) \in Nat /\ Len(s) <= f.end - Size(f)
  BY Sizes DEF IsFifo, Space
<1>2. /\ g.end = f.end /\ g.buffer = b /\ g.rptr = f.rptr /\ g.rndx = f.rndx
      /\ g.wptr = At(f, f.wptr, Len(s)) /\ g.wndx = Advance(f.wndx, Len(s))
  BY DEF Write, Ring
<1>3. At(f, f.wptr, Len(s)) \in 0 .. f.end - 1 /\ Advance(f.wndx, Len(s)) \in 0 .. Word - 1
  BY <1>1, Written
<1>4. b \in [Cells(f.end) -> Byte]
  <2>1. ASSUME NEW j \in Cells(f.end)
        PROVE  Offset(f, f.wptr, j) \in Nat /\ f.buffer[j] \in Byte
    <3>1. f.buffer \in [Cells(f.end) -> Byte] /\ f.wptr \in 0 .. f.end - 1
      BY <1>1, FifoType
    <3>2. f.buffer[j] \in Byte
      BY <3>1
    <3>3. Offset(f, f.wptr, j) \in Nat
      BY <1>1, <3>1 DEF Cells, Offset
    <3>4. QED
      BY <3>2, <3>3
  <2>2. QED
    BY <2>1
<1>5. g \in Fifos(f.end, Byte)
  <2>1. g = Ring(f.end, b, f.rptr, At(f, f.wptr, Len(s)), f.rndx, Advance(f.wndx, Len(s)))
    BY DEF Write
  <2>2. QED
    <3> HIDE DEF g, b
    <3>1. f.rptr \in 0 .. f.end - 1 /\ f.rndx \in 0 .. Word - 1
      BY <1>1, FifoType
    <3>2. QED
      BY <2>1, <3>1, <1>1, <1>3, <1>4, FifoOf
<1>6. Size(g) = Size(f) + Len(s)
  BY <1>1, <1>2, Written
<1>7. g.wptr = At(g, g.rptr, Size(g))
  BY <1>1, <1>2, <1>6, Written DEF At
<1>8. IsFifo(g, Byte)
  BY <1>1, <1>2, <1>5, <1>6, <1>7 DEF IsFifo
<1>9. \A i \in 1 .. Size(g) : At(g, g.rptr, i - 1) = At(f, f.rptr, i - 1)
  BY <1>2 DEF At
<1>10. ASSUME NEW i \in 1 .. Size(f)
       PROVE  Contents(g)[i] = Contents(f)[i]
  <2>1. i \in 1 .. Size(g) /\ i - 1 \in 0 .. f.end - 1 /\ i - 1 < Size(f)
    BY <1>1, <1>6
  <2>2. Offset(f, f.wptr, At(f, f.rptr, i - 1)) = Space(f) + (i - 1)
        /\ At(f, f.rptr, i - 1) \in Cells(f.end)
    BY <2>1, Offsets
  <2>3. b[At(f, f.rptr, i - 1)] = f.buffer[At(f, f.rptr, i - 1)]
    BY <2>1, <2>2, <1>1
  <2>4. QED
    BY <2>1, <2>3, <1>2, <1>8, <1>9, ContentsAre
<1>11. ASSUME NEW i \in 1 .. Len(s)
       PROVE  Contents(g)[Size(f) + i] = s[i]
  <2>1. /\ Size(f) + i \in 1 .. Size(g) /\ Size(f) + i - 1 \in 0 .. f.end - 1
        /\ Size(f) + i - 1 >= Size(f)
    BY <1>1, <1>6
  <2>2. Offset(f, f.wptr, At(f, f.rptr, Size(f) + i - 1)) = i - 1
        /\ At(f, f.rptr, Size(f) + i - 1) \in Cells(f.end)
    <3> DEFINE k == Size(f) + i - 1
    <3>1. k \in 0 .. f.end - 1 /\ k >= Size(f) /\ k - Size(f) = i - 1
      BY <2>1, <1>1
    <3> HIDE DEF k
    <3>2. Offset(f, f.wptr, At(f, f.rptr, k)) = k - Size(f) /\ At(f, f.rptr, k) \in Cells(f.end)
      BY <3>1, Offsets
    <3>3. QED
      BY <3>1, <3>2 DEF k
  <2>3. b[At(f, f.rptr, Size(f) + i - 1)] = s[i]
    BY <2>2, <1>1
  <2>4. QED
    BY <2>1, <2>3, <1>2, <1>8, <1>9, ContentsAre
<1>12. Contents(g) = Contents(f) \o s
  <2>1. Contents(f) \in Seq(Byte) /\ Len(Contents(f)) = Size(f)
        /\ Contents(g) \in Seq(Byte) /\ Len(Contents(g)) = Size(f) + Len(s)
    BY <1>6, <1>8, ContentsAre
  <2>2. ASSUME NEW k \in 1 .. Size(f) + Len(s)
        PROVE  Contents(g)[k] = (Contents(f) \o s)[k]
    <3>1. CASE k <= Size(f)
      BY <3>1, <2>1, <1>1, <1>10
    <3>2. CASE ~(k <= Size(f))
      <4>1. k - Size(f) \in 1 .. Len(s) /\ Size(f) + (k - Size(f)) = k
        BY <3>2, <1>1
      <4>2. Contents(g)[k] = s[k - Size(f)]
        BY <4>1, <1>11
      <4>3. QED
        BY <3>2, <4>1, <4>2, <2>1, <1>1
    <3>3. QED
      BY <3>1, <3>2
  <2>3. Contents(f) \o s \in Seq(Byte) /\ Len(Contents(f) \o s) = Size(f) + Len(s)
    BY <2>1
  <2>4. QED
    BY <2>1, <2>2, <2>3
<1>13. QED
  BY <1>2, <1>6, <1>8, <1>12

(* av_fifo_realloc2 keeps the bytes, in order, and the room grows.         *)
THEOREM GrowKeeps ==
  ASSUME NEW Byte, NEW f, IsFifo(f, Byte),
         NEW n \in 1 .. Word - 1, NEW buffer \in [Cells(n) -> Byte]
  PROVE  /\ IsFifo(Grow(f, n, buffer), Byte)
         /\ Contents(Grow(f, n, buffer)) = Contents(f)
         /\ n <= Grow(f, n, buffer).end
<1>1. CASE f.end < n
  <2> DEFINE g == Grow(f, n, buffer)
             b == [j \in Cells(n) |-> IF j < Size(f) THEN Contents(f)[j + 1] ELSE buffer[j]]
  <2>1. /\ f.end \in 1 .. Word - 1 /\ Size(f) \in 0 .. f.end /\ Size(f) \in 0 .. n - 1
        /\ Contents(f) \in Seq(Byte) /\ Len(Contents(f)) = Size(f)
    <3>1. f.end \in 1 .. Word - 1
      BY DEF IsFifo
    <3>2. Size(f) \in 0 .. f.end
      BY Sizes
    <3>3. Contents(f) \in Seq(Byte) /\ Len(Contents(f)) = Size(f)
      BY ContentsAre
    <3>4. Size(f) \in 0 .. n - 1
      BY <1>1, <3>1, <3>2
    <3>5. QED
      BY <3>1, <3>2, <3>3, <3>4
  <2>2. /\ g = Ring(n, b, 0, Size(f), 0, Size(f))
        /\ g.end = n /\ g.buffer = b /\ g.rptr = 0 /\ g.wptr = Size(f)
        /\ g.rndx = 0 /\ g.wndx = Size(f)
    BY <1>1 DEF Grow, Ring
  <2>3. b \in [Cells(n) -> Byte]
    BY <2>1 DEF Cells
  <2>4. g \in Fifos(n, Byte)
    BY <2>1, <2>2, <2>3, FifoOf, WordAssumption
  <2>5. Size(g) = Size(f)
    <3> HIDE DEF g, b
    <3>1. QED
      BY <2>1, <2>2 DEF Size
  <2>6. IsFifo(g, Byte)
    BY <2>1, <2>2, <2>4, <2>5, SMTT(30) DEF IsFifo, At
  <2>7. ASSUME NEW i \in 1 .. Size(f)
        PROVE  Contents(g)[i] = Contents(f)[i]
    <3>1. At(g, g.rptr, i - 1) = i - 1 /\ i - 1 \in Cells(n) /\ i - 1 < Size(f)
      BY <2>1, <2>2 DEF At, Cells
    <3>2. b[i - 1] = Contents(f)[i]
      BY <3>1, <2>1
    <3>3. QED
      BY <3>1, <3>2, <2>2, <2>5, <2>6, ContentsAre
  <2>8. Contents(g) = Contents(f)
    <3>1. Contents(g) \in Seq(Byte) /\ Len(Contents(g)) = Size(f)
      BY <2>5, <2>6, ContentsAre
    <3>2. QED
      BY <3>1, <2>1, <2>7
  <2>9. QED
    BY <2>2, <2>6, <2>8
<1>2. CASE ~(f.end < n)
  BY <1>2 DEF Grow, IsFifo
<1>3. QED
  BY <1>1, <1>2
==============================================================================
