-------------------------------- MODULE AVFifo --------------------------------
(***************************************************************************)
(* The byte FIFO of libavutil/fifo.c: a ring of bytes with a read and a    *)
(* write pointer, and two free-running 32-bit counts of the bytes read and *)
(* written, whose difference tells a full ring from an empty one.  An      *)
(* AVFifoBuffer is a record; its pointers are offsets into the buffer.     *)
(* The loops that copy up to the end of the ring and then go on at its     *)
(* start are the wrapping of one offset (At).                              *)
(***************************************************************************)
EXTENDS Integers, Sequences

CONSTANT Word               \* 2^32

ASSUME WordAssumption == Word \in Nat /\ Word >= 2

Cells(end) == 0 .. end - 1
Fifos(n, Byte) ==
  [end : {n}, buffer : [Cells(n) -> Byte], rptr : Cells(n), wptr : Cells(n),
   rndx : 0 .. Word - 1, wndx : 0 .. Word - 1]

Ring(end, buffer, rptr, wptr, rndx, wndx) ==
  [end |-> end, buffer |-> buffer, rptr |-> rptr, wptr |-> wptr, rndx |-> rndx, wndx |-> wndx]

(* av_fifo_alloc; what the buffer holds is whatever was in memory.         *)
Alloc(size, buffer) == Ring(size, buffer, 0, 0, 0, 0)

(* A pointer n bytes after p, and an index after n more bytes.             *)
At(f, p, n)  == IF p + n < f.end THEN p + n ELSE p + n - f.end
AdvanceOnly(i, n) == i + n          \* without the wrap at 2^32
Advance(i, n) == IF i + n < Word THEN i + n ELSE i + n - Word

(* av_fifo_size subtracts as uint32_t; av_fifo_space.                      *)
Size(f)  == IF f.rndx <= f.wndx THEN f.wndx - f.rndx ELSE f.wndx - f.rndx + Word
Space(f) == f.end - Size(f)

(* av_fifo_generic_write, of a sequence of at most f.end bytes.            *)
Offset(f, p, j) == IF p <= j THEN j - p ELSE j - p + f.end
Write(f, s) ==
  Ring(f.end,
       [j \in Cells(f.end) |-> LET i == Offset(f, f.wptr, j)
                               IN  IF i < Len(s) THEN s[i + 1] ELSE f.buffer[j]],
       f.rptr, At(f, f.wptr, Len(s)), f.rndx, Advance(f.wndx, Len(s)))

(* av_fifo_generic_read: what it copies out, and av_fifo_drain.            *)
Peek(f, n)  == [i \in 1 .. n |-> f.buffer[At(f, f.rptr, i - 1)]]
Drain(f, n) ==
  Ring(f.end, f.buffer, At(f, f.rptr, n), f.wptr, Advance(f.rndx, n), f.wndx)

(* What a reader would find.                                               *)
Contents(f) == Peek(f, Size(f))

(* av_fifo_realloc2: a larger ring with the same bytes at its start.       *)
Grow(f, new_size, buffer) ==
  IF f.end < new_size
  THEN Ring(new_size,
            [j \in Cells(new_size) |-> IF j < Size(f) THEN Contents(f)[j + 1] ELSE buffer[j]],
            0, Size(f), 0, Size(f))
  ELSE f
==============================================================================
