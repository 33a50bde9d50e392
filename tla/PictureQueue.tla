----------------------------- MODULE PictureQueue -----------------------------
(***************************************************************************)
(* What the picture queue of avplay (pictq) is for: video_thread puts the  *)
(* pictures it decodes behind one another, at most Capacity of them, and   *)
(* the main thread takes the first, which it displays or drops.  Pictures  *)
(* are numbered in the order they are decoded; each is passed on once and  *)
(* in this order, and what has been put there is what is taken.            *)
(***************************************************************************)
EXTENDS Integers, Sequences

CONSTANTS Pictures,         \* their numbers, from 1
          Capacity          \* VIDEO_PICTURE_QUEUE_SIZE

VARIABLES queue,            \* the pictures that wait
          taken             \* the last that was taken, 0 at first

vars == <<queue, taken>>

Init == queue = <<>> /\ taken = 0

Put(picture) ==
  /\ Len(queue) < Capacity
  /\ taken < picture /\ \A i \in 1 .. Len(queue) : queue[i] < picture
  /\ queue' = Append(queue, picture)
  /\ UNCHANGED taken

Take ==
  /\ queue # <<>>
  /\ taken' = Head(queue)
  /\ queue' = Tail(queue)

Next == Take \/ \E picture \in Pictures : Put(picture)

Spec == Init /\ [][Next]_vars
==============================================================================
