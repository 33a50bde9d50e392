------------------------------ MODULE FrameQueue ------------------------------
(***************************************************************************)
(* What frame threading promises to the client of avcodec_decode_video2(): *)
(* packets are accepted into a line and leave it in the order they came,   *)
(* each with its frame or without one, and before Depth more are accepted; *)
(* only a flush takes the rest out.  Packets are numbered in the order     *)
(* they are accepted, so the line is the set of the numbers in it, and the *)
(* least is the oldest.  (doc/multithreading.txt:9-12, 25)                 *)
(***************************************************************************)
EXTENDS Naturals

CONSTANT Depth

VARIABLES accepted,         \* the number of packets accepted so far
          line,             \* those that have not left the line
          delivered         \* the last packet whose frame the client got

vars == <<accepted, line, delivered>>

Init == accepted = 0 /\ line = {} /\ delivered = 0

Accept ==
  /\ \A p \in line : accepted + 1 < p + Depth
  /\ accepted' = accepted + 1
  /\ line' = line \cup {accepted + 1}
  /\ UNCHANGED delivered

Leaves(p) ==
  /\ p \in line /\ \A q \in line : p <= q
  /\ line' = line \ {p}

Deliver ==
  /\ \E p \in line : Leaves(p) /\ delivered' = p
  /\ UNCHANGED accepted

(* The packet held no frame, or could not be decoded.                      *)
Skip ==
  /\ \E p \in line : Leaves(p)
  /\ UNCHANGED <<accepted, delivered>>

Flush ==
  /\ line' = {}
  /\ UNCHANGED <<accepted, delivered>>

Next == Accept \/ Deliver \/ Skip \/ Flush

Spec == Init /\ [][Next]_vars
==============================================================================
