----------------------------- MODULE AvPlayProofs -----------------------------
(***************************************************************************)
(* Proofs about the video path of avplay, for any size of the SDL event    *)
(* queue and of the packet queue, and any number of packets and seeks: the *)
(* inductive invariant, and from it that the two threads use the unlocked  *)
(* slots of the picture queue apart, that they implement PictureQueue,     *)
(* that no wake-up is missed, that the target clocks are in order and that *)
(* avplay, once it begins to close, takes a bounded number of steps and    *)
(* never has none to take before it has ended.                             *)
(***************************************************************************)
EXTENDS AvPlay, TLAPS

(* The parts of TypeOK.                                                    *)
Control ==
  /\ mpc \in {"events", "refresh", "look", "count", "drop", "closing", "closing2", "ended"}
  /\ rpc \in {"top", "done"}
  /\ dpc \in {"read", "flushed", "eof", "idle", "signal", "join", "quit", "done"}
  /\ vpc \in {"get", "zero", "zero2", "drain", "queue", "alloc", "copy", "put", "done"}
  /\ {lost, refresh, eof, exiting, seek_req} \subseteq BOOLEAN
  /\ {abort_request, video_st, asleep, qabort} \subseteq BOOLEAN
Counts ==
  /\ {passed, clock, read, frame} \subseteq Picture /\ held \subseteq Picture \ {0}
  /\ seeks \in 0 .. MaxSeeks
EventsTyped == events \in Seq(Event) /\ Len(events) <= MaxEvents
VideoqTyped == videoq \in Seq(Picture \cup {Flush}) /\ Len(videoq) <= MIN_FRAMES + 1
Pictures == [Slots -> [pic : Picture, target_clock : Picture,
                       bmp : BOOLEAN, allocated : BOOLEAN]]
PictqTyped ==
  rindex \in Slots /\ windex \in Slots /\ size \in 0 .. 2 /\ pictq \in Pictures

(* The two indices of the ring and the size, which is changed after each   *)
(* of them; a flushed packet queue stays empty for its flush packet.       *)
Ring ==
  /\ vpc = "put" => (Queued = 1 <=> rindex = windex)
  /\ vpc # "put" => (Queued = 1 <=> rindex # windex)
  /\ vpc \in {"alloc", "copy", "put"} => size < 2
  /\ mpc \in {"look", "count", "drop"} => size > 0
Flushed == dpc = "flushed" => videoq = <<>>

(* What is queued or about to be has a bitmap.                             *)
Bitmaps ==
  /\ \A s \in Live : pictq[s].bmp
  /\ vpc = "alloc" /\ pictq[windex].allocated => pictq[windex].bmp
  /\ vpc = "copy" => pictq[windex].bmp
  /\ vpc = "put" => pictq[After(windex)].bmp

(* There is one event to allocate a bitmap at a time, it is for the slot   *)
(* at windex, and that slot is free even when video_thread has left.       *)
Allocations ==
  \A i \in 1 .. Len(events) : events[i] = "alloc" =>
    /\ vpc \in {"alloc", "done"} /\ size < 2
    /\ vpc = "alloc" => ~pictq[windex].allocated
    /\ \A j \in 1 .. Len(events) : events[j] = "alloc" => i = j

(* Pictures are numbered in the order of the stages they have reached:     *)
(* displayed, queued, in the hands of video_thread, held by its decoder,   *)
(* in the packet queue.                                                    *)
Decoded == {"queue", "alloc", "copy", "put"}
PicturesInOrder ==
  /\ Queued = 2 => pictq[rindex].pic < pictq[After(rindex)].pic
  /\ \A s \in Live : passed < pictq[s].pic
  /\ vpc \in Decoded => passed < frame
  /\ vpc \in Decoded \ {"put"} => \A s \in Slots : pictq[s].pic < frame
  /\ vpc = "put" => pictq[windex].pic < frame /\ pictq[After(windex)].pic = frame
  /\ vpc \notin Decoded => frame = 0

(* Everything that was taken from the packet queue is less than n.         *)
Before(n) == passed < n /\ frame < n /\ \A s \in Slots : pictq[s].pic < n
Increasing(q) ==
  \A i, j \in 1 .. Len(q) : i < j /\ q[i] > 0 /\ q[j] > 0 => q[i] < q[j]
PacketsInOrder ==
  /\ Before(read + 1)
  /\ Increasing(videoq)
  /\ \A i \in 1 .. Len(videoq) : videoq[i] > 0 => Before(videoq[i]) /\ videoq[i] <= read
HeldInOrder ==
  \A h \in held :
    /\ Before(h) /\ h <= read
    /\ \A i \in 1 .. Len(videoq) : videoq[i] > 0 => h < videoq[i]

(* Queued pictures have their own target clocks or, after a flush packet   *)
(* and until they are displayed, all the clock 0; when the packet queue is *)
(* aborted video_thread does not wait for that, but queues nothing more.   *)
Zeroed == \A s \in Live : pictq[s].target_clock = 0
Targets ==
  /\ vpc = "zero2" => pictq[0].target_clock = 0
  /\ vpc = "drain" => Zeroed
  /\ vpc # "zero2" =>
       \/ \A s \in Live : pictq[s].target_clock = pictq[s].pic
       \/ Zeroed /\ vpc = "drain"
       \/ Zeroed /\ vpc \in {"get", "done"} /\ qabort

(* The packet queue is aborted for good when decode_thread closes.         *)
Aborting == qabort <=> dpc \in {"signal", "join", "quit", "done"}

(* A bitmap that is needed, and the refresh that the flag promises, have   *)
(* been asked for and not forgotten, unless an event was lost or avplay is *)
(* about to close.                                                         *)
BitmapAsked ==
  vpc = "alloc" /\ ~pictq[windex].allocated => UnderWay("alloc") \/ lost \/ abort_request
RefreshAsked == refresh => Refreshing \/ lost \/ abort_request

(* What a sleeping video_thread has seen is still so.                      *)
Sleeping ==
  asleep =>
    /\ vpc \in {"get", "drain", "queue", "alloc"}
    /\ vpc = "get" => videoq = <<>>
    /\ qabort => vpc # "get" /\ dpc = "signal"
    /\ vpc = "queue" => size = 2
    /\ vpc = "drain" => size > 0
    /\ vpc = "alloc" => ~pictq[windex].allocated
Wakes == Aborting /\ BitmapAsked /\ RefreshAsked /\ Sleeping

SlotsInv == Ring /\ Bitmaps /\ PicturesInOrder /\ Targets
IInv == TypeOK /\ Flushed /\ SlotsInv /\ Allocations /\ PacketsInOrder /\ HeldInOrder /\ Wakes

------------------------------------------------------------------------------
(* The main thread takes the picture at rindex, which is the oldest.       *)
LEMMA PassPictureSlots ==
  ASSUME Control, Counts, PictqTyped, SlotsInv, PassPicture
  PROVE  SlotsInv'
<1>1. /\ mpc = "look" /\ passed' = pictq[rindex].pic /\ rindex' = After(rindex)
      /\ mpc' \in {"count", "drop"}
      /\ UNCHANGED <<size, windex, pictq, vpc, frame, qabort>>
  BY DEF PassPicture, main, sdl, timer, decode, state, video, packets, Control, PictqTyped
<1> USE DEF Control, Counts, Picture, PictqTyped, Pictures, Slots, After, SlotsInv, Ring, Queued
<1>2. Ring'
  BY <1>1
<1>3. Bitmaps'
  BY <1>1 DEF Bitmaps, Live
<1>4. PicturesInOrder'
  BY <1>1, PlayAssumption DEF PicturesInOrder, Decoded, Live
<1>5. Targets'
  BY <1>1 DEF PicturesInOrder, Targets, Zeroed, Live
<1>6. QED
  BY <1>2, <1>3, <1>4, <1>5

(* It counts the picture it took down; the slot was free before.           *)
LEMMA CountDownSlots ==
  ASSUME Control, Counts, PictqTyped, SlotsInv, CountDown
  PROVE  SlotsInv'
<1>1. /\ mpc \in {"count", "drop"} /\ size' = size - 1 /\ mpc' \in {"refresh", "events"}
      /\ UNCHANGED <<passed, rindex, windex, pictq, vpc, frame, qabort>>
  BY DEF CountDown, Count, RefreshDone, SignalPictq, main, sdl, timer, decode, state, video,
     packets, Control, PictqTyped
<1> USE DEF Control, Counts, Picture, PictqTyped, Pictures, Slots, After, SlotsInv, Ring, Queued
<1>2. Ring'
  BY <1>1
<1>3. Bitmaps'
  BY <1>1 DEF Bitmaps, Live
<1>4. PicturesInOrder'
  BY <1>1, PlayAssumption DEF PicturesInOrder, Decoded, Live
<1>5. Targets'
  BY <1>1 DEF PicturesInOrder, Targets, Zeroed, Live
<1>6. QED
  BY <1>2, <1>3, <1>4, <1>5

(* A flush packet: target clocks are set to 0 one after the other.         *)
LEMMA ZeroFirstSlots ==
  ASSUME Control, Counts, PictqTyped, SlotsInv, ZeroFirst
  PROVE  SlotsInv'
<1>1. /\ vpc = "zero" /\ vpc' = "zero2" /\ pictq' = [pictq EXCEPT ![0].target_clock = 0]
      /\ UNCHANGED <<mpc, passed, size, rindex, windex, frame, qabort>>
  BY DEF ZeroFirst, Goto, main, sdl, timer, decode, state, video, packets, Control,
     PictqTyped
<1> USE DEF Control, Counts, Picture, PictqTyped, Pictures, Slots, After, SlotsInv, Ring, Queued
<1>2. Ring'
  BY <1>1
<1>3. Bitmaps'
  BY <1>1 DEF Bitmaps, Live
<1>4. PicturesInOrder'
  BY <1>1, PlayAssumption DEF PicturesInOrder, Decoded, Live
<1>5. Targets'
  BY <1>1 DEF PicturesInOrder, Targets, Zeroed, Live
<1>6. QED
  BY <1>2, <1>3, <1>4, <1>5

(* After the second all queued pictures have the clock 0.                  *)
LEMMA ZeroSecondSlots ==
  ASSUME Control, Counts, PictqTyped, SlotsInv, ZeroSecond
  PROVE  SlotsInv'
<1>1. /\ vpc = "zero2" /\ vpc' = "drain" /\ pictq' = [pictq EXCEPT ![1].target_clock = 0]
      /\ UNCHANGED <<mpc, passed, size, rindex, windex, frame, qabort>>
  BY DEF ZeroSecond, Goto, main, sdl, timer, decode, state, video, packets, Control,
     PictqTyped
<1> USE DEF Control, Counts, Picture, PictqTyped, Pictures, Slots, After, SlotsInv, Ring, Queued
<1>2. Ring'
  BY <1>1
<1>3. Bitmaps'
  BY <1>1 DEF Bitmaps, Live
<1>4. PicturesInOrder'
  BY <1>1, PlayAssumption DEF PicturesInOrder, Decoded, Live
<1>5. Targets'
  BY <1>1 DEF PicturesInOrder, Targets, Zeroed, Live
<1>6. QED
  BY <1>2, <1>3, <1>4, <1>5

(* video_thread goes on when no picture is left, or at the end.            *)
LEMMA DrainSlots ==
  ASSUME Control, Counts, PictqTyped, SlotsInv, Drain
  PROVE  SlotsInv'
<1>1. /\ vpc = "drain" /\ UNCHANGED <<mpc, passed, size, rindex, windex, pictq, frame, qabort>>
      /\ \/ vpc' = "drain"
         \/ vpc' = "get" /\ (size = 0 \/ qabort)
  BY DEF Drain, Goto, Wait, main, sdl, timer, decode, state, video, packets, Control,
     PictqTyped
<1> USE DEF Control, Counts, Picture, PictqTyped, Pictures, Slots, After, SlotsInv, Ring, Queued
<1>2. Ring'
  BY <1>1
<1>3. Bitmaps'
  BY <1>1 DEF Bitmaps, Live
<1>4. PicturesInOrder'
  BY <1>1, PlayAssumption DEF PicturesInOrder, Decoded, Live
<1>5. Targets'
  BY <1>1 DEF PicturesInOrder, Targets, Zeroed, Live
<1>6. QED
  BY <1>2, <1>3, <1>4, <1>5

(* A free slot is found before a bitmap is asked for or used.              *)
LEMMA QueuePictureSlots ==
  ASSUME Control, Counts, PictqTyped, SlotsInv, QueuePicture
  PROVE  SlotsInv'
<1>1. /\ vpc = "queue" /\ UNCHANGED <<mpc, passed, size, rindex, windex, qabort>>
      /\ \/ vpc' = "done" /\ frame' = 0 /\ pictq' = pictq
         \/ vpc' = "queue" /\ UNCHANGED <<frame, pictq>>
         \/ vpc' = "copy" /\ pictq[windex].bmp /\ size < 2 /\ UNCHANGED <<frame, pictq>>
         \/ /\ vpc' = "alloc" /\ size < 2 /\ frame' = frame
            /\ pictq' = [pictq EXCEPT ![windex].allocated = FALSE]
  BY DEF QueuePicture, QueueFrom, Goto, Wait, Leave, Push, main, sdl, timer, decode, state,
     video, packets, Control, PictqTyped
<1> USE DEF Control, Counts, Picture, PictqTyped, Pictures, Slots, After, SlotsInv, Ring, Queued
<1>2. Ring'
  BY <1>1
<1>3. Bitmaps'
  BY <1>1 DEF Bitmaps, Live
<1>4. PicturesInOrder'
  BY <1>1, PlayAssumption DEF PicturesInOrder, Decoded, Live
<1>5. Targets'
  BY <1>1 DEF PicturesInOrder, Targets, Zeroed, Live
<1>6. QED
  BY <1>2, <1>3, <1>4, <1>5

(* It goes on only with a bitmap.                                          *)
LEMMA AwaitAllocationSlots ==
  ASSUME Control, Counts, PictqTyped, SlotsInv, AwaitAllocation
  PROVE  SlotsInv'
<1>1. /\ vpc = "alloc" /\ UNCHANGED <<mpc, passed, size, rindex, windex, qabort, pictq>>
      /\ \/ vpc' = "done" /\ frame' = 0
         \/ vpc' = "alloc" /\ frame' = frame
         \/ vpc' = "copy" /\ pictq[windex].allocated /\ frame' = frame
  BY DEF AwaitAllocation, Goto, Wait, Leave, main, sdl, timer, decode, state, video,
     packets, Control, PictqTyped
<1> USE DEF Control, Counts, Picture, PictqTyped, Pictures, Slots, After, SlotsInv, Ring, Queued
<1>2. Ring'
  BY <1>1
<1>3. Bitmaps'
  BY <1>1 DEF Bitmaps, Live
<1>4. PicturesInOrder'
  BY <1>1, PlayAssumption DEF PicturesInOrder, Decoded, Live
<1>5. Targets'
  BY <1>1 DEF PicturesInOrder, Targets, Zeroed, Live
<1>6. QED
  BY <1>2, <1>3, <1>4, <1>5

(* The picture goes into a free slot, as the newest one.                   *)
LEMMA CopyPictureSlots ==
  ASSUME Control, Counts, PictqTyped, SlotsInv, CopyPicture
  PROVE  SlotsInv'
<1>1. /\ vpc = "copy" /\ vpc' = "put"
      /\ pictq' = [pictq EXCEPT ![windex].pic = frame] /\ windex' = After(windex)
      /\ UNCHANGED <<mpc, passed, size, rindex, frame, qabort>>
  BY DEF CopyPicture, Goto, main, sdl, timer, decode, state, video, packets, Control,
     PictqTyped
<1> USE DEF Control, Counts, Picture, PictqTyped, Pictures, Slots, After, SlotsInv, Ring, Queued
<1>2. Ring'
  BY <1>1
<1>3. Bitmaps'
  BY <1>1 DEF Bitmaps, Live
<1>4. PicturesInOrder'
  BY <1>1, PlayAssumption DEF PicturesInOrder, Decoded, Live
<1>5. Targets'
  BY <1>1 DEF PicturesInOrder, Targets, Zeroed, Live
<1>6. QED
  BY <1>2, <1>3, <1>4, <1>5

(* The slot written before windex was advanced now counts as queued.       *)
LEMMA PutPictureSlots ==
  ASSUME Control, Counts, PictqTyped, SlotsInv, PutPicture
  PROVE  SlotsInv'
<1>1. /\ vpc = "put" /\ vpc' = "get"
      /\ pictq' = [pictq EXCEPT ![After(windex)].target_clock = frame]
      /\ size' = size + 1 /\ frame' = 0
      /\ UNCHANGED <<mpc, passed, rindex, windex, qabort>>
  BY DEF PutPicture, Goto, main, sdl, timer, decode, state, video, packets, Control,
     PictqTyped
<1> USE DEF Control, Counts, Picture, PictqTyped, Pictures, Slots, After, SlotsInv, Ring, Queued
<1>2. Ring'
  BY <1>1
<1>3. Bitmaps'
  BY <1>1 DEF Bitmaps, Live
<1>4. PicturesInOrder'
  BY <1>1, PlayAssumption DEF PicturesInOrder, Decoded, Live
<1>5. Targets'
  BY <1>1 DEF PicturesInOrder, Targets, Zeroed, Live
<1>6. QED
  BY <1>2, <1>3, <1>4, <1>5

(* A bitmap is allocated, or not, in a slot that is not queued.            *)
LEMMA AllocPictureSlots ==
  ASSUME Control, Counts, PictqTyped, EventsTyped, SlotsInv, Allocations, AllocPicture
  PROVE  SlotsInv'
<1>1. /\ size < 2 /\ vpc \in {"alloc", "done"}
      /\ vpc = "alloc" => ~pictq[windex].allocated
  BY DEF AllocPicture, Allocations, EventsTyped
<1>2. /\ mpc = "events" /\ mpc' \in {"events", "closing"}
      /\ UNCHANGED <<passed, size, rindex, windex, vpc, frame, qabort>>
      /\ \/ pictq' = [pictq EXCEPT ![windex].bmp = TRUE, ![windex].allocated = TRUE]
         \/ pictq' = [pictq EXCEPT ![windex].bmp = FALSE]
  BY DEF AllocPicture, DoExit, video, packets
<1> USE DEF Control, PictqTyped, Pictures, Slots, SlotsInv, Ring, Queued
<1>3. Ring'
  BY <1>2
<1>4. Bitmaps'
  BY <1>1, <1>2 DEF Bitmaps, Live
<1>5. PicturesInOrder'
  BY <1>2 DEF PicturesInOrder, Decoded, Live, After
<1>6. Targets'
  BY <1>2 DEF Targets, Zeroed, Live
<1>7. QED
  BY <1>3, <1>4, <1>5, <1>6

(* What the decoder can give for the next packet: it is newer than what    *)
(* went before, and older than the packets that follow.                    *)
Pending == held \cup ({Head(videoq)} \ {Null})

LEMMA PendingInOrder ==
  ASSUME Counts, VideoqTyped, PacketsInOrder, HeldInOrder, videoq # <<>>, Head(videoq) # Flush,
         NEW p \in Pending
  PROVE  /\ p \in Picture \ {0} /\ Before(p) /\ p <= read
         /\ \A i \in 2 .. Len(videoq) : videoq[i] > 0 => p < videoq[i]
<1>1. /\ Head(videoq) = videoq[1] /\ videoq[1] \in Picture /\ Len(videoq) \in Nat
      /\ 1 \in 1 .. Len(videoq) /\ \A i \in 2 .. Len(videoq) : i \in 1 .. Len(videoq) /\ 1 < i
  BY DEF VideoqTyped
<1>2. CASE p \in held
  BY <1>1, <1>2 DEF HeldInOrder, Counts
<1>3. CASE p = videoq[1] /\ p # Null
  <2>1. p \in Picture \ {0} /\ p > 0
    BY <1>1, <1>3, PlayAssumption DEF Null, Picture
  <2>2. QED
    BY <1>1, <1>3, <2>1 DEF PacketsInOrder, Increasing
<1>4. QED
  BY <1>1, <1>2, <1>3 DEF Pending

(* A picture that is decoded is newer than all that were.                  *)
LEMMA GetSlots ==
  ASSUME Control, Counts, PictqTyped, VideoqTyped, SlotsInv, PacketsInOrder, HeldInOrder, Get
  PROVE  SlotsInv'
<1>1. /\ vpc = "get" /\ UNCHANGED <<mpc, passed, size, rindex, windex, pictq, qabort>>
      /\ \/ vpc' \in {"get", "zero"} /\ UNCHANGED frame
         \/ vpc' = "done" /\ frame' = 0 /\ qabort
         \/ /\ vpc' = "queue" /\ ~qabort /\ videoq # <<>> /\ Head(videoq) # Flush
            /\ frame' \in Pending
  BY DEF Get, Decode, Goto, Wait, Leave, main, state, video, packets, Pending
<1> USE DEF Control, PictqTyped, Pictures, Slots, SlotsInv, Ring, Queued
<1>2. CASE vpc' \in {"get", "zero"} /\ UNCHANGED frame
  <2>1. Ring' /\ Bitmaps'
    BY <1>1, <1>2 DEF Bitmaps, Live
  <2>2. PicturesInOrder'
    BY <1>1, <1>2 DEF PicturesInOrder, Decoded, Live, After
  <2>3. QED
    BY <1>1, <1>2, <2>1, <2>2 DEF Targets, Zeroed, Live, Get, Leave, Goto, Decode
<1>3. CASE vpc' = "done" /\ frame' = 0 /\ qabort
  <2>1. Ring' /\ Bitmaps'
    BY <1>1, <1>3 DEF Bitmaps, Live
  <2>2. PicturesInOrder'
    BY <1>1, <1>3 DEF PicturesInOrder, Decoded, Live, After
  <2>3. QED
    BY <1>1, <1>3, <2>1, <2>2 DEF Targets, Zeroed, Live
<1>4. CASE /\ vpc' = "queue" /\ ~qabort /\ videoq # <<>> /\ Head(videoq) # Flush
           /\ frame' \in Pending
  <2>1. passed < frame' /\ \A s \in Slots : pictq[s].pic < frame'
    <3>1. Before(frame')
      BY <1>4, PendingInOrder
    <3>2. QED
      BY <3>1 DEF Before
  <2>2. Ring' /\ Bitmaps'
    BY <1>1, <1>4 DEF Bitmaps, Live
  <2>3. PicturesInOrder'
    BY <1>1, <1>4, <2>1 DEF PicturesInOrder, Decoded, Live, After
  <2>4. Targets'
    BY <1>1, <1>4 DEF Targets, Zeroed, Live
  <2>5. QED
    BY <2>2, <2>3, <2>4
<1>5. QED
  BY <1>1, <1>2, <1>3, <1>4

(* Steps that leave the pictures and video_thread alone.                   *)
LEMMA UntouchedSlots ==
  ASSUME Control, PictqTyped, SlotsInv,
         UNCHANGED <<passed, size, rindex, windex, pictq, vpc, frame>>,
         mpc' \in {"count", "drop"} <=> mpc \in {"count", "drop"},
         mpc' = "look" => size > 0,
         qabort => qabort'
  PROVE  SlotsInv'
<1>1. Queued' = Queued /\ Live' = Live
  BY DEF Queued, Live
<1>2. Ring' /\ Bitmaps' /\ PicturesInOrder'
  BY <1>1 DEF SlotsInv, Ring, Bitmaps, PicturesInOrder
<1>3. Targets'
  BY <1>1 DEF SlotsInv, Targets, Zeroed
<1>4. QED
  BY <1>2, <1>3 DEF SlotsInv

(* No step disturbs the picture queue.                                     *)
LEMMA SlotsStep ==
  ASSUME Control, Counts, PictqTyped, EventsTyped, VideoqTyped,
         SlotsInv, Allocations, PacketsInOrder, HeldInOrder, [Next]_vars
  PROVE  SlotsInv'
<1> DEFINE Untouched ==
             /\ UNCHANGED <<passed, size, rindex, windex, pictq, vpc, frame>>
             /\ mpc' \in {"count", "drop"} <=> mpc \in {"count", "drop"}
             /\ mpc' = "look" => size > 0
             /\ qabort => qabort'
<1> USE DEF main, state, video, packets, Control
<1>1. ASSUME User \/ RefreshThread PROVE Untouched
  BY <1>1 DEF User, RefreshThread, SlotsInv, Ring
<1>2. ASSUME TakeEvent PROVE Untouched
  BY <1>2 DEF TakeEvent, DoExit
<1>3. ASSUME NotDue \/ Due \/ StreamClose PROVE Untouched
  BY <1>3 DEF NotDue, RefreshDone, Due, StreamClose
<1>4. ASSUME DecodeSeek \/ PutFlush \/ DecodeRead \/ DecodeEof PROVE Untouched
  BY <1>4 DEF DecodeSeek, PutFlush, DecodeRead, DecodeEof, Put, SlotsInv, Ring
<1>5. ASSUME DecodeAgain \/ DecodeAbort \/ CloseSignal \/ CloseJoin \/ SendQuit PROVE Untouched
  BY <1>5 DEF DecodeAgain, DecodeAbort, CloseSignal, CloseWith, CloseJoin, SendQuit, CloseComponent,
              SlotsInv, Ring
<1>6. ASSUME UNCHANGED vars PROVE Untouched
  BY <1>6 DEF vars, SlotsInv, Ring
<1>7. ASSUME Untouched PROVE SlotsInv'
  BY <1>7, UntouchedSlots
<1>8. QED
  BY <1>1, <1>2, <1>3, <1>4, <1>5, <1>6, <1>7, AllocPictureSlots, PassPictureSlots,
     CountDownSlots, GetSlots, ZeroFirstSlots, ZeroSecondSlots, DrainSlots, QueuePictureSlots,
     AwaitAllocationSlots, CopyPictureSlots, PutPictureSlots
     DEF Next, MainThread, DecodeThread, VideoThread

(* Nothing but the next packet of the queue makes a picture newer.         *)
LEMMA StillBefore ==
  ASSUME Control, Counts, PictqTyped, PicturesInOrder, Next, frame' \in {frame, 0},
         NEW n \in Int, Before(n), 0 < n
  PROVE  Before(n)'
<1> USE DEF Before, main, sdl, timer, decode, state, video, packets, Counts, Picture,
            PictqTyped, Pictures, Slots
<1>1. ASSUME UNCHANGED <<passed, frame, pictq>> PROVE Before(n)'
  BY <1>1
<1>2. CASE User \/ RefreshThread \/ TakeEvent \/ NotDue \/ Due \/ CountDown \/ StreamClose
  BY <1>1, <1>2 DEF User, RefreshThread, TakeEvent, NotDue, Due, CountDown, Count, StreamClose
<1>3. CASE DecodeThread
  BY <1>1, <1>3 DEF DecodeThread, DecodeSeek, PutFlush, DecodeRead, DecodeEof, DecodeAgain,
     DecodeAbort, CloseSignal, CloseWith, CloseJoin, SendQuit
<1>4. CASE Drain
  BY <1>1, <1>4 DEF Drain, Wait, Goto
<1>5. CASE AllocPicture
  <2>1. /\ UNCHANGED <<passed, frame>>
        /\ \/ pictq' = [pictq EXCEPT ![windex].bmp = TRUE, ![windex].allocated = TRUE]
           \/ pictq' = [pictq EXCEPT ![windex].bmp = FALSE]
    BY <1>5 DEF AllocPicture
  <2>2. \A s \in Slots : pictq'[s].pic = pictq[s].pic
    BY <2>1
  <2>3. QED
    BY <2>1, <2>2
<1>6. CASE PassPicture
  <2>1. passed' = pictq[rindex].pic /\ UNCHANGED <<frame, pictq>> /\ rindex \in Slots
    BY <1>6 DEF PassPicture
  <2>2. QED
    BY <2>1
<1>7. CASE ZeroFirst \/ ZeroSecond
  BY <1>7 DEF ZeroFirst, ZeroSecond, Goto
<1>8. CASE QueuePicture \/ AwaitAllocation
  BY <1>8 DEF QueuePicture, QueueFrom, AwaitAllocation, Wait, Goto, Leave
<1>9. CASE CopyPicture \/ PutPicture
  BY <1>9 DEF CopyPicture, PutPicture, Goto
<1>10. CASE Get
  BY <1>1, <1>10 DEF Get
<1>11. QED
  BY <1>2, <1>3, <1>4, <1>5, <1>7, <1>8, <1>9, <1>10, <1>6 DEF Next, MainThread, VideoThread

(* The pictures in the decoder stay newer than what it has given.          *)
LEMMA HeldStep ==
  ASSUME Control, Counts, PictqTyped, VideoqTyped, PicturesInOrder, PacketsInOrder,
         HeldInOrder, Next
  PROVE  HeldInOrder'
<1>1. /\ \A h \in held : h \in Int /\ h > 0 /\ h <= read /\ Before(h)
      /\ read \in Int
  BY PlayAssumption DEF HeldInOrder, Counts, Picture
<1>2. ASSUME UNCHANGED <<held, read>>, frame' \in {frame, 0}, videoq' \in {videoq, <<>>}
      PROVE  HeldInOrder'
  <2>1. ASSUME NEW h \in held PROVE Before(h)'
    BY <1>1, <1>2, StillBefore
  <2>2. ASSUME NEW h \in held PROVE h <= read' /\ Before(h)'
               /\ \A i \in 1 .. Len(videoq') : videoq'[i] > 0 => h < videoq'[i]
    <3>1. CASE videoq' = videoq
      BY <1>1, <1>2, <2>1, <3>1 DEF HeldInOrder
    <3>2. CASE videoq' = <<>>
      BY <1>1, <1>2, <2>1, <3>2
    <3>3. QED
      BY <1>2, <3>1, <3>2
  <2>3. QED
    BY <1>2, <2>2 DEF HeldInOrder, Before
<1>3. ASSUME UNCHANGED <<held, frame>>, NEW p \in Int, Put(p),
             (p <= 0 /\ read' = read) \/ (p = read + 1 /\ read' = read + 1)
      PROVE  HeldInOrder'
  <2>1. ASSUME NEW h \in held PROVE Before(h)'
    BY <1>1, <1>3, StillBefore
  <2>2. /\ Len(videoq') = Len(videoq) + 1 /\ videoq'[Len(videoq')] = p /\ Len(videoq) \in Nat
        /\ \A i \in 1 .. Len(videoq) : videoq'[i] = videoq[i]
    BY <1>3 DEF Put, VideoqTyped
  <2>3. \A i \in 1 .. Len(videoq') : i \in 1 .. Len(videoq) \/ i = Len(videoq')
    BY <2>2
  <2>4. ASSUME NEW h \in held, NEW i \in 1 .. Len(videoq'), videoq'[i] > 0
        PROVE  h < videoq'[i]
    <3>1. CASE i \in 1 .. Len(videoq)
      BY <2>2, <2>4, <3>1 DEF HeldInOrder
    <3>2. CASE i = Len(videoq')
      BY <1>1, <1>3, <2>2, <2>4, <3>2
    <3>3. QED
      BY <2>3, <3>1, <3>2
  <2>5. \A h \in held : h <= read'
    BY <1>1, <1>3
  <2>6. QED
    BY <1>3, <2>1, <2>4, <2>5 DEF HeldInOrder, Before
<1>4. CASE Get /\ ~qabort /\ videoq # <<>>
  <2>1. /\ UNCHANGED <<read, passed, pictq>> /\ videoq' = Tail(videoq)
        /\ \/ held' = {}
           \/ Head(videoq) # Flush /\ held' = Pending /\ UNCHANGED frame
           \/ /\ Head(videoq) # Flush /\ frame' \in Pending
              /\ held' = {q \in Pending : q > frame'}
    BY <1>4 DEF Get, Decode, Goto, Pending, main, decode
  <2>2. /\ Len(videoq') = Len(videoq) - 1 /\ Len(videoq) \in Nat
        /\ \A i \in 1 .. Len(videoq') : videoq'[i] = videoq[i + 1]
    BY <1>4, <2>1 DEF VideoqTyped
  <2>3. CASE Head(videoq) # Flush
    <3>1. ASSUME NEW h \in held'
          PROVE  h \in Pending /\ (frame' = frame \/ frame' < h)
      BY <2>1, <3>1, <2>3, <1>4, PendingInOrder DEF Picture
    <3>2. ASSUME NEW h \in Pending, frame' = frame \/ frame' < h
          PROVE  /\ passed' < h /\ frame' < h /\ \A s \in Slots : pictq'[s].pic < h
                 /\ h <= read'
                 /\ \A i \in 1 .. Len(videoq') : videoq'[i] > 0 => h < videoq'[i]
      <4>1. /\ Before(h) /\ h <= read
            /\ \A i \in 2 .. Len(videoq) : videoq[i] > 0 => h < videoq[i]
        BY <1>4, <2>3, <3>2, PendingInOrder
      <4>2. \A i \in 1 .. Len(videoq') : i + 1 \in 2 .. Len(videoq)
        BY <2>2
      <4>3. QED
        BY <2>1, <2>2, <3>2, <4>1, <4>2 DEF Before
    <3>3. ASSUME NEW h \in held'
          PROVE  /\ passed' < h /\ frame' < h /\ \A s \in Slots : pictq'[s].pic < h
                 /\ h <= read'
                 /\ \A i \in 1 .. Len(videoq') : videoq'[i] > 0 => h < videoq'[i]
      BY <3>1, <3>2, <3>3
    <3>4. QED
      BY <3>3, Zenon DEF HeldInOrder, Before
  <2>4. CASE held' = {}
    BY <2>4 DEF HeldInOrder
  <2>5. QED
    BY <2>1, <2>3, <2>4
<1>5. CASE Get /\ (qabort \/ videoq = <<>>)
  BY <1>2, <1>5 DEF Get, Leave, Wait, Goto, decode
<1>6. CASE DecodeRead /\ read' = read + 1
  BY <1>1, <1>3, <1>6 DEF DecodeRead, video
<1>7. CASE PutFlush \/ DecodeEof
  <2>1. UNCHANGED <<held, frame, read>>
    BY <1>7 DEF PutFlush, DecodeEof, decode, video
  <2>2. Flush \in Int /\ Flush <= 0 /\ Null \in Int /\ Null <= 0
    BY DEF Flush, Null
  <2>3. QED
    BY <1>3, <1>7, <2>1, <2>2 DEF PutFlush, DecodeEof
<1>8. CASE User \/ RefreshThread \/ TakeEvent \/ AllocPicture \/ NotDue \/ Due
  BY <1>2, <1>8 DEF User, RefreshThread, TakeEvent, AllocPicture, NotDue, Due, decode, packets,
     video
<1>9. CASE PassPicture \/ CountDown \/ StreamClose
  BY <1>2, <1>9 DEF PassPicture, CountDown, Count, StreamClose, decode, packets, video
<1>10. CASE DecodeSeek \/ DecodeAgain \/ DecodeAbort
  BY <1>2, <1>10 DEF DecodeSeek, DecodeAgain, DecodeAbort, CloseComponent, decode, packets, video
<1>11. CASE CloseSignal \/ CloseJoin \/ SendQuit
  BY <1>2, <1>11 DEF CloseSignal, CloseWith, CloseJoin, SendQuit, decode, packets, video
<1>12. CASE DecodeRead /\ read' # read + 1
  BY <1>2, <1>12 DEF DecodeRead, video
<1>13. CASE ZeroFirst \/ ZeroSecond \/ Drain \/ AwaitAllocation
  BY <1>2, <1>13 DEF ZeroFirst, ZeroSecond, Drain, AwaitAllocation, Wait, Goto, Leave, decode,
     packets
<1>14. CASE QueuePicture \/ CopyPicture \/ PutPicture
  BY <1>2, <1>14 DEF QueuePicture, QueueFrom, CopyPicture, PutPicture, Wait, Goto, Leave,
     decode, packets
<1>15. QED
  BY <1>4, <1>5, <1>6, <1>7, <1>8, <1>9, <1>10, <1>11, <1>12, <1>13, <1>14
     DEF Next, MainThread, DecodeThread, VideoThread

(* Packets are numbered in their order and are newer than every picture.   *)
LEMMA PacketsStep ==
  ASSUME Control, Counts, PictqTyped, VideoqTyped, PicturesInOrder, Flushed, PacketsInOrder,
         HeldInOrder, Next
  PROVE  PacketsInOrder'
<1>1. /\ \A i \in 1 .. Len(videoq) : videoq[i] \in Int
      /\ read \in Nat /\ Len(videoq) \in Nat
  <2>1. \A i \in 1 .. Len(videoq) : videoq[i] \in Picture \cup {Flush}
    BY DEF VideoqTyped
  <2>2. Len(videoq) \in Nat
    BY DEF VideoqTyped
  <2>3. QED
    BY <2>1, <2>2 DEF Picture, Flush, Counts
<1>2. CASE /\ Get /\ videoq # <<>> /\ videoq' = Tail(videoq)
           /\ frame' = frame \/ (Head(videoq) # Flush /\ frame' \in Pending)
  <2>1. UNCHANGED <<read, passed, pictq>>
    BY <1>2 DEF Get, main, decode
  <2>2. /\ Len(videoq') = Len(videoq) - 1 /\ 1 \in 1 .. Len(videoq)
        /\ Head(videoq) = videoq[1]
        /\ \A i \in 1 .. Len(videoq') : videoq'[i] = videoq[i + 1]
    BY <1>2 DEF VideoqTyped
  <2>3. Increasing(videoq)'
    <3>1. SUFFICES ASSUME NEW i \in 1 .. Len(videoq'), NEW j \in 1 .. Len(videoq'),
                          i < j, videoq'[i] > 0, videoq'[j] > 0
                   PROVE  videoq'[i] < videoq'[j]
      BY DEF Increasing
    <3>2. /\ i + 1 \in 1 .. Len(videoq) /\ j + 1 \in 1 .. Len(videoq) /\ i + 1 < j + 1
          /\ videoq'[i] = videoq[i + 1] /\ videoq'[j] = videoq[j + 1]
      BY <1>1, <2>2, <3>1
    <3>3. QED
      BY <3>1, <3>2 DEF PacketsInOrder, Increasing
  <2>4. frame' = frame \/ (/\ frame' \in Int /\ frame' <= read
                           /\ \A i \in 2 .. Len(videoq) : videoq[i] > 0 => frame' < videoq[i])
    BY <1>2, PendingInOrder DEF Picture
  <2>5. frame' \in Int /\ frame' < read + 1
    BY <1>1, <2>4 DEF PacketsInOrder, Before, Counts, Picture
  <2>6. Before(read + 1)'
    BY <2>1, <2>5 DEF PacketsInOrder, Before
  <2>7. ASSUME NEW i \in 1 .. Len(videoq'), videoq'[i] > 0
        PROVE  Before(videoq[i])' /\ videoq'[i] <= read
    <3>1. i + 1 \in 2 .. Len(videoq) /\ i + 1 \in 1 .. Len(videoq) /\ videoq'[i] = videoq[i + 1]
      BY <1>1, <2>2
    <3>2. Before(videoq[i + 1]) /\ videoq[i + 1] <= read
      BY <2>7, <3>1 DEF PacketsInOrder
    <3>3. frame' < videoq[i + 1]
      BY <2>7, <2>4, <3>1, <3>2 DEF Before
    <3>4. QED
      BY <2>1, <3>1, <3>2, <3>3 DEF Before
  <2>8. QED
    BY <2>1, <2>3, <2>6, <2>7 DEF PacketsInOrder
<1>3. ASSUME frame' \in {frame, 0}
      PROVE  \A n \in Int : n > 0 /\ Before(n) => Before(n)'
  BY <1>3, StillBefore
<1>4. ASSUME frame' = frame, NEW p \in Int, Put(p),
             (p <= 0 /\ read' = read) \/ (p = read + 1 /\ read' = read + 1)
      PROVE  PacketsInOrder'
  <2>1. /\ Len(videoq') = Len(videoq) + 1 /\ videoq'[Len(videoq')] = p
        /\ \A i \in 1 .. Len(videoq) : videoq'[i] = videoq[i]
    BY <1>1, <1>4 DEF Put, VideoqTyped
  <2>2. \A i \in 1 .. Len(videoq') : i \in 1 .. Len(videoq) \/ i = Len(videoq')
    BY <1>1, <2>1
  <2>3. Increasing(videoq)'
    BY <1>1, <1>4, <2>1, <2>2 DEF PacketsInOrder, Increasing
  <2>4. Before(read' + 1)
    <3>1. passed \in Int /\ frame \in Int /\ \A s \in Slots : pictq[s].pic \in Int
      BY DEF Counts, Picture, PictqTyped, Pictures
    <3>2. Before(read + 1) /\ Before(read + 2)
      BY <1>1, <3>1 DEF PacketsInOrder, Before
    <3>3. QED
      BY <1>1, <1>4, <3>2
  <2>5. passed' < read' + 1 /\ frame' < read' + 1 /\ \A s \in Slots : pictq'[s].pic < read' + 1
    <3>1. PICK n \in Int : n = read' + 1 /\ n > 0
      BY <1>1, <1>4
    <3>2. Before(n)'
      BY <1>3, <1>4, <2>4, <3>1
    <3>3. QED
      BY <3>1, <3>2 DEF Before
  <2>6. ASSUME NEW i \in 1 .. Len(videoq'), videoq'[i] > 0
        PROVE  Before(videoq[i])' /\ videoq'[i] <= read'
    <3>1. CASE i \in 1 .. Len(videoq)
      <4>1. videoq[i] > 0 /\ Before(videoq[i]) /\ videoq[i] <= read
        BY <2>1, <2>6, <3>1 DEF PacketsInOrder
      <4>2. PICK n \in Int : n = videoq[i] /\ n > 0 /\ Before(n)
        BY <1>1, <3>1, <4>1
      <4>3. Before(n)'
        BY <1>3, <1>4, <4>2
      <4>4. Before(videoq[i])'
        BY <2>1, <3>1, <4>2, <4>3 DEF Before
      <4>5. QED
        BY <1>1, <1>4, <2>1, <3>1, <4>1, <4>4
    <3>2. CASE i = Len(videoq') /\ p = read' /\ p = read + 1
      <4>1. Before(p)
        BY <1>1, <3>2 DEF PacketsInOrder, Before
      <4>2. QED
        BY <1>1, <1>3, <1>4, <2>1, <2>6, <3>2, <4>1 DEF Before
    <3>3. QED
      BY <1>1, <1>4, <2>1, <2>2, <2>6, <3>1, <3>2
  <2>7. QED
    BY <2>3, <2>5, <2>6 DEF PacketsInOrder, Before
<1>5. CASE DecodeRead /\ read' = read + 1
  BY <1>1, <1>4, <1>5 DEF DecodeRead, video
<1>6. CASE PutFlush \/ DecodeEof
  <2>1. frame' = frame /\ read' = read
    BY <1>6 DEF PutFlush, DecodeEof, decode, video
  <2>2. Flush \in Int /\ Flush <= 0 /\ Null \in Int /\ Null <= 0
    BY DEF Flush, Null
  <2>3. QED
    BY <1>4, <1>6, <2>1, <2>2 DEF PutFlush, DecodeEof
<1>7. CASE frame' \in {frame, 0} /\ read' = read /\ videoq' \in {videoq, <<>>}
  <2>1. Before(read + 1)'
    <3>1. PICK n \in Int : n = read + 1 /\ n > 0
      BY <1>1
    <3>2. Before(n)'
      BY <1>3, <1>7, <3>1 DEF PacketsInOrder
    <3>3. QED
      BY <1>7, <3>1, <3>2 DEF Before
  <2>2. CASE videoq' = <<>>
    BY <2>1, <2>2 DEF PacketsInOrder, Increasing
  <2>3. CASE videoq' = videoq
    <3>1. ASSUME NEW i \in 1 .. Len(videoq), videoq[i] > 0 PROVE Before(videoq[i])'
      <4>1. PICK n \in Int : n = videoq[i] /\ n > 0 /\ Before(n)
        BY <1>1, <3>1 DEF PacketsInOrder
      <4>2. Before(n)'
        BY <1>3, <1>7, <4>1
      <4>3. QED
        BY <2>3, <4>1, <4>2 DEF Before
    <3>2. QED
      BY <1>7, <2>1, <2>3, <3>1 DEF PacketsInOrder, Increasing
  <2>4. QED
    BY <1>7, <2>2, <2>3
<1>8. CASE User \/ RefreshThread \/ TakeEvent \/ AllocPicture \/ NotDue \/ Due
  BY <1>7, <1>8 DEF User, RefreshThread, TakeEvent, AllocPicture, NotDue, Due, decode, packets,
     video
<1>9. CASE PassPicture \/ CountDown \/ StreamClose
  BY <1>7, <1>9 DEF PassPicture, CountDown, Count, StreamClose, decode, packets, video
<1>10. CASE DecodeSeek \/ DecodeAgain \/ DecodeAbort
  BY <1>7, <1>10 DEF DecodeSeek, DecodeAgain, DecodeAbort, CloseComponent, decode, packets, video
<1>11. CASE CloseSignal \/ CloseJoin \/ SendQuit
  BY <1>7, <1>11 DEF CloseSignal, CloseWith, CloseJoin, SendQuit, decode, packets, video
<1>12. CASE DecodeRead /\ read' # read + 1
  BY <1>7, <1>12 DEF DecodeRead, video
<1>13. CASE Get
  <2>1. CASE qabort \/ videoq = <<>>
    BY <1>7, <1>13, <2>1 DEF Get, Leave, Wait, Goto, decode
  <2>2. CASE ~qabort /\ videoq # <<>>
    BY <1>2, <1>13, <2>2 DEF Get, Decode, Pending
  <2>3. QED
    BY <2>1, <2>2
<1>14. CASE ZeroFirst \/ ZeroSecond \/ Drain \/ AwaitAllocation
  BY <1>7, <1>14 DEF ZeroFirst, ZeroSecond, Drain, AwaitAllocation, Wait, Goto, Leave, decode,
     packets
<1>15. CASE QueuePicture \/ CopyPicture \/ PutPicture
  BY <1>7, <1>15 DEF QueuePicture, QueueFrom, CopyPicture, PutPicture, Wait, Goto, Leave,
     decode, packets
<1>16. QED
  BY <1>5, <1>6, <1>8, <1>9, <1>10, <1>11, <1>12, <1>13, <1>14, <1>15
     DEF Next, MainThread, DecodeThread, VideoThread

(* There is at most one event that asks for a bitmap, and its slot stays   *)
(* free until it is handled.                                               *)
LEMMA AllocationsStep ==
  ASSUME Control, PictqTyped, EventsTyped, SlotsInv, Allocations, Next
  PROVE  Allocations'
<1> DEFINE Free == /\ vpc \in {"alloc", "done"} /\ size < 2
                   /\ vpc = "alloc" => ~pictq[windex].allocated
<1>1. /\ Len(events) \in Nat /\ \A i \in 1 .. Len(events) : events[i] \in Event
      /\ \A i \in 1 .. Len(events) : events[i] = "alloc" => Free
  BY DEF EventsTyped, Allocations
<1>2. ASSUME UNCHANGED events, Free => Free'
      PROVE  Allocations'
  BY <1>1, <1>2 DEF Allocations
<1>3. ASSUME NEW e \in Event \ {"alloc"}, Push(e) \/ events' = Append(events, e), Free => Free'
      PROVE  Allocations'
  <2>1. CASE UNCHANGED events
    BY <1>2, <1>3, <2>1
  <2>2. CASE events' = Append(events, e)
    <3>1. /\ Len(events') = Len(events) + 1 /\ events'[Len(events')] = e
          /\ \A i \in 1 .. Len(events) : events'[i] = events[i]
      BY <2>2 DEF EventsTyped
    <3>2. \A i \in 1 .. Len(events') : events'[i] = "alloc" =>
            i \in 1 .. Len(events) /\ events[i] = "alloc"
      BY <1>1, <1>3, <3>1
    <3>3. QED
      BY <1>1, <1>3, <3>2 DEF Allocations
  <2>3. QED
    BY <1>3, <2>1, <2>2 DEF Push
<1>4. ASSUME events # <<>>, events' = Tail(events), events[1] = "alloc" \/ (Free => Free')
      PROVE  Allocations'
  <2>1. /\ Len(events') = Len(events) - 1 /\ 1 \in 1 .. Len(events)
        /\ \A i \in 1 .. Len(events') : events'[i] = events[i + 1]
    BY <1>4 DEF EventsTyped
  <2>2. \A i \in 1 .. Len(events') : events'[i] = "alloc" =>
          i + 1 \in 1 .. Len(events) /\ events[i + 1] = "alloc" /\ events[1] # "alloc"
    BY <1>1, <2>1 DEF Allocations
  <2>3. QED
    BY <1>1, <1>4, <2>2 DEF Allocations
<1>5. ASSUME Push("alloc"), \A i \in 1 .. Len(events) : events[i] # "alloc", Free'
      PROVE  Allocations'
  <2>1. CASE UNCHANGED events
    BY <1>5, <2>1 DEF Allocations
  <2>2. CASE events' = Append(events, "alloc")
    <3>1. /\ Len(events') = Len(events) + 1
          /\ \A i \in 1 .. Len(events) : events'[i] = events[i]
      BY <2>2 DEF EventsTyped
    <3>2. \A i \in 1 .. Len(events') : events'[i] = "alloc" => i = Len(events')
      BY <1>1, <1>5, <3>1
    <3>3. QED
      BY <1>5, <3>2 DEF Allocations
  <2>3. QED
    BY <1>5, <2>1, <2>2 DEF Push
<1> USE DEF main, sdl, timer, decode, state, video, packets
<1>6. ASSUME UNCHANGED <<vpc, size, windex, pictq>>
      PROVE  Free => Free'
  BY <1>6
<1>7. CASE User \/ RefreshThread \/ SendQuit
  <2>1. "quit" \in Event \ {"alloc"} /\ "seek" \in Event \ {"alloc"}
        /\ "refresh" \in Event \ {"alloc"}
    BY DEF Event
  <2>2. QED
    BY <1>2, <1>3, <1>6, <1>7, <2>1 DEF User, RefreshThread, SendQuit
<1>8. CASE TakeEvent
  BY <1>4, <1>6, <1>8 DEF TakeEvent
<1>9. CASE AllocPicture
  BY <1>4, <1>9 DEF AllocPicture, EventsTyped
<1>10. CASE NotDue \/ Due \/ PassPicture \/ StreamClose
  BY <1>2, <1>6, <1>10 DEF NotDue, Due, PassPicture, StreamClose
<1>11. CASE CountDown
  BY <1>2, <1>11 DEF CountDown, Count, PictqTyped
<1>12. CASE DecodeSeek \/ PutFlush \/ DecodeRead \/ DecodeEof \/ DecodeAgain \/ DecodeAbort
  BY <1>2, <1>6, <1>12 DEF DecodeSeek, PutFlush, DecodeRead, DecodeEof, DecodeAgain, DecodeAbort
<1>13. CASE CloseSignal \/ CloseJoin
  BY <1>2, <1>6, <1>13 DEF CloseSignal, CloseWith, CloseJoin
<1>14. CASE vpc \notin {"alloc", "done"} /\ UNCHANGED events
  BY <1>2, <1>14
<1>15. CASE Get \/ ZeroFirst \/ ZeroSecond \/ Drain
  BY <1>14, <1>15 DEF Get, ZeroFirst, ZeroSecond, Drain
<1>16. CASE CopyPicture \/ PutPicture
  BY <1>14, <1>16 DEF CopyPicture, PutPicture
<1>17. CASE AwaitAllocation
  <2>1. \/ vpc' \in {"alloc", "done"} /\ UNCHANGED <<size, windex, pictq>>
        \/ ~Free
    BY <1>17 DEF AwaitAllocation, Leave, Wait, Goto
  <2>2. QED
    BY <1>2, <1>17, <2>1 DEF AwaitAllocation
<1>18. CASE QueuePicture
  <2>1. \A i \in 1 .. Len(events) : events[i] # "alloc"
    BY <1>1, <1>18 DEF QueuePicture, QueueFrom
  <2>2. CASE UNCHANGED events
    BY <2>1, <2>2 DEF Allocations
  <2>3. CASE /\ Push("alloc") /\ vpc' = "alloc" /\ size < 2 /\ UNCHANGED <<size, windex>>
             /\ pictq' = [pictq EXCEPT ![windex].allocated = FALSE]
    BY <1>5, <2>1, <2>3 DEF PictqTyped, Pictures
  <2>4. QED
    BY <1>18, <2>2, <2>3 DEF QueuePicture, QueueFrom, Goto, PictqTyped
<1>19. QED
  BY <1>7, <1>8, <1>9, <1>10, <1>11, <1>12, <1>13, <1>15, <1>16, <1>17, <1>18
     DEF Next, MainThread, DecodeThread, VideoThread

(* The parts of TypeOK.                                                    *)
LEMMA TypeParts ==
  TypeOK <=> Control /\ Counts /\ EventsTyped /\ VideoqTyped /\ PictqTyped
BY DEF TypeOK, Control, Counts, EventsTyped, VideoqTyped, PictqTyped, Pictures

(* The labels and flags.                                                   *)
LEMMA ControlStep ==
  ASSUME Control, Next
  PROVE  Control'
<1> USE DEF Control, main, sdl, timer, decode, state, video, packets
<1>1. CASE User \/ NotDue \/ Due \/ StreamClose
  BY <1>1, ZenonT(30) DEF User, NotDue, RefreshDone, Due, StreamClose
<1>2. CASE RefreshThread
  BY <1>2, ZenonT(30) DEF RefreshThread, Push
<1>3. CASE TakeEvent
  BY <1>3, ZenonT(30) DEF TakeEvent, StreamSeek, DoExit
<1>4. CASE AllocPicture
  BY <1>4, ZenonT(30) DEF AllocPicture, DoExit, SignalPictq
<1>5. CASE PassPicture \/ CountDown
  BY <1>5, ZenonT(30) DEF PassPicture, CountDown, Count, RefreshDone, SignalPictq
<1>6. CASE DecodeSeek \/ PutFlush \/ DecodeRead \/ DecodeEof
  BY <1>6, ZenonT(30) DEF DecodeSeek, PutFlush, DecodeRead, DecodeEof, Put, SignalQueue
<1>7. CASE DecodeAgain
  BY <1>7, ZenonT(30) DEF DecodeAgain, StreamSeek, CloseComponent, SignalQueue
<1>8. CASE DecodeAbort \/ CloseSignal \/ CloseJoin
  BY <1>8, ZenonT(30)
     DEF DecodeAbort, CloseComponent, SignalQueue, CloseSignal, CloseWith, SignalPictq, CloseJoin
<1>9. CASE SendQuit
  BY <1>9, ZenonT(30) DEF SendQuit, Push
<1>10. CASE Get
  BY <1>10, ZenonT(30) DEF Get, Decode, Goto, Wait, Leave
<1>11. CASE ZeroFirst \/ ZeroSecond \/ Drain
  BY <1>11, ZenonT(30) DEF ZeroFirst, ZeroSecond, Drain, Goto, Wait
<1>12. CASE QueuePicture
  BY <1>12, ZenonT(30) DEF QueuePicture, QueueFrom, Push, Goto, Wait, Leave
<1>13. CASE AwaitAllocation \/ CopyPicture \/ PutPicture
  BY <1>13, ZenonT(30) DEF AwaitAllocation, CopyPicture, PutPicture, Goto, Wait, Leave
<1>14. QED
  BY <1>1, <1>2, <1>3, <1>4, <1>5, <1>6, <1>7, <1>8, <1>9, <1>10, <1>11, <1>12, <1>13
     DEF Next, MainThread, DecodeThread, VideoThread

(* The numbers of packets, pictures and seeks.                             *)
LEMMA CountsStep ==
  ASSUME Control, Counts, VideoqTyped, PictqTyped, Next
  PROVE  Counts'
<1> USE DEF Counts, main, decode, state, video
<1>1. 0 \in Picture
  BY PlayAssumption DEF Picture
<1>2. ASSUME UNCHANGED <<read, seeks, held, clock>>, passed' \in Picture, frame' \in Picture
      PROVE  Counts'
  BY <1>2
<1>3. CASE User \/ RefreshThread \/ AllocPicture \/ NotDue \/ CountDown \/ StreamClose
  BY <1>2, <1>3 DEF User, RefreshThread, AllocPicture, NotDue, CountDown, Count, StreamClose
<1>4. CASE Due
  <2>1. clock' \in Picture
    BY <1>4 DEF Due, PictqTyped, Pictures
  <2>2. QED
    BY <1>4, <2>1 DEF Due
<1>5. ASSUME StreamSeek PROVE seeks' \in 0 .. MaxSeeks
  BY <1>5, PlayAssumption DEF StreamSeek
<1>6. CASE TakeEvent
  BY <1>5, <1>6 DEF TakeEvent
<1>7. CASE PassPicture
  <2>1. passed' \in Picture
    BY <1>7 DEF PassPicture, PictqTyped, Pictures
  <2>2. QED
    BY <1>1, <1>7, <2>1 DEF PassPicture
<1>8. CASE DecodeSeek \/ PutFlush \/ DecodeEof \/ DecodeAbort \/ CloseSignal \/ CloseJoin
           \/ SendQuit
  BY <1>2, <1>8 DEF DecodeSeek, PutFlush, DecodeEof, DecodeAbort, CloseSignal, CloseWith, CloseJoin,
     SendQuit, CloseComponent
<1>9. CASE DecodeRead
  <2>1. read' \in Picture
    BY <1>9, PlayAssumption DEF DecodeRead, Picture
  <2>2. QED
    BY <1>9, <2>1 DEF DecodeRead
<1>10. CASE DecodeAgain
  BY <1>5, <1>10 DEF DecodeAgain, CloseComponent
<1>11. CASE Get
  <2>1. videoq # <<>> /\ Head(videoq) # Flush => Head(videoq) \in Picture
    BY DEF VideoqTyped
  <2>2. \/ held' = held /\ frame' \in {frame, 0}
        \/ held' = {} /\ frame' = frame
        \/ /\ videoq # <<>> /\ Head(videoq) # Flush
           /\ held' \subseteq Pending /\ frame' \in Pending \cup {frame}
    BY <1>11 DEF Get, Decode, Goto, Wait, Leave, Pending
  <2>3. videoq # <<>> /\ Head(videoq) # Flush => Pending \subseteq Picture \ {0}
    BY <2>1 DEF Pending, Null
  <2>4. frame' \in Picture /\ held' \subseteq Picture \ {0}
    BY <1>1, <2>2, <2>3
  <2>5. QED
    BY <1>11, <2>4 DEF Get
<1>12. CASE ZeroFirst \/ ZeroSecond \/ Drain \/ CopyPicture \/ PutPicture
  BY <1>1, <1>2, <1>12 DEF ZeroFirst, ZeroSecond, Drain, Wait, CopyPicture, PutPicture
<1>13. CASE QueuePicture \/ AwaitAllocation
  BY <1>1, <1>2, <1>13 DEF QueuePicture, QueueFrom, AwaitAllocation, Wait, Leave
<1>14. QED
  BY <1>3, <1>6, <1>7, <1>8, <1>9, <1>10, <1>11, <1>12, <1>13, <1>4
     DEF Next, MainThread, DecodeThread, VideoThread

(* The queue of SDL events never holds more than MaxEvents.                *)
LEMMA EventsStep ==
  ASSUME EventsTyped, Next
  PROVE  EventsTyped'
<1>1. ASSUME UNCHANGED events PROVE EventsTyped'
  BY <1>1 DEF EventsTyped
<1>2. ASSUME NEW e \in Event, Len(events) < MaxEvents, events' = Append(events, e)
      PROVE  EventsTyped'
  <2>1. events' \in Seq(Event) /\ Len(events') = Len(events) + 1
    BY <1>2 DEF EventsTyped
  <2>2. QED
    BY <1>2, <2>1, PlayAssumption DEF EventsTyped
<1>3. ASSUME NEW e \in Event, Push(e) PROVE EventsTyped'
  BY <1>1, <1>2, <1>3 DEF Push
<1>4. ASSUME events # <<>>, events' = Tail(events) PROVE EventsTyped'
  <2>1. events' \in Seq(Event) /\ Len(events') = Len(events) - 1
    BY <1>4 DEF EventsTyped
  <2>2. QED
    BY <2>1, PlayAssumption DEF EventsTyped
<1>5. Event = {"refresh", "alloc", "quit", "seek"}
  BY DEF Event
<1> USE DEF sdl
<1>6. CASE User
  BY <1>2, <1>5, <1>6 DEF User
<1>7. CASE RefreshThread
  BY <1>1, <1>3, <1>5, <1>7 DEF RefreshThread
<1>8. CASE TakeEvent \/ AllocPicture
  BY <1>4, <1>8 DEF TakeEvent, AllocPicture
<1>9. CASE NotDue \/ Due \/ PassPicture \/ CountDown \/ StreamClose
  BY <1>1, <1>9 DEF NotDue, Due, PassPicture, CountDown, Count, StreamClose
<1>10. CASE DecodeSeek \/ PutFlush \/ DecodeRead \/ DecodeEof \/ DecodeAgain \/ DecodeAbort
  BY <1>1, <1>10 DEF DecodeSeek, PutFlush, DecodeRead, DecodeEof, DecodeAgain, DecodeAbort
<1>11. CASE CloseSignal \/ CloseJoin
  BY <1>1, <1>11 DEF CloseSignal, CloseWith, CloseJoin
<1>12. CASE SendQuit
  BY <1>3, <1>5, <1>12 DEF SendQuit
<1>13. CASE Get \/ ZeroFirst \/ ZeroSecond \/ Drain
  BY <1>1, <1>13 DEF Get, ZeroFirst, ZeroSecond, Drain
<1>14. CASE QueuePicture
  BY <1>1, <1>3, <1>5, <1>14 DEF QueuePicture, QueueFrom
<1>15. CASE AwaitAllocation \/ CopyPicture \/ PutPicture
  BY <1>1, <1>15 DEF AwaitAllocation, CopyPicture, PutPicture
<1>16. QED
  BY <1>6, <1>7, <1>8, <1>9, <1>10, <1>11, <1>12, <1>13, <1>14, <1>15
     DEF Next, MainThread, DecodeThread, VideoThread

(* decode_thread puts one packet at most into a queue that is not full,    *)
(* and its flush packet into an empty one.                                 *)
LEMMA VideoqStep ==
  ASSUME Control, Counts, VideoqTyped, Flushed, Next
  PROVE  VideoqTyped' /\ Flushed'
<1> DEFINE Entry == Picture \cup {Flush}
<1>1. ASSUME UNCHANGED videoq, dpc' = "flushed" => dpc = "flushed"
      PROVE  VideoqTyped' /\ Flushed'
  BY <1>1 DEF VideoqTyped, Flushed
<1>2. ASSUME NEW p \in Entry, Put(p), dpc' # "flushed", Len(videoq) <= MIN_FRAMES
      PROVE  VideoqTyped' /\ Flushed'
  <2>1. videoq' \in Seq(Entry) /\ Len(videoq') = Len(videoq) + 1
    BY <1>2 DEF Put, VideoqTyped
  <2>2. QED
    BY <1>2, <2>1, PlayAssumption DEF VideoqTyped, Flushed
<1>3. ASSUME videoq' = <<>>
      PROVE  VideoqTyped' /\ Flushed'
  BY <1>3, PlayAssumption DEF VideoqTyped, Flushed
<1>4. Flush \in Entry /\ Null \in Entry /\ MIN_FRAMES \in Nat /\ Len(videoq) \in Nat
  BY PlayAssumption DEF Null, Picture, VideoqTyped
<1>5. ~Full => Len(videoq) <= MIN_FRAMES
  BY <1>4 DEF Full
<1> USE DEF packets, decode
<1>6. CASE User \/ RefreshThread \/ TakeEvent \/ AllocPicture
  BY <1>1, <1>6 DEF User, RefreshThread, TakeEvent, AllocPicture
<1>7. CASE NotDue \/ Due \/ PassPicture \/ CountDown \/ StreamClose
  BY <1>1, <1>7 DEF NotDue, Due, PassPicture, CountDown, Count, StreamClose
<1>8. CASE DecodeSeek
  BY <1>1, <1>3, <1>8 DEF DecodeSeek
<1>9. CASE PutFlush
  <2>1. Len(videoq) <= MIN_FRAMES
    BY <1>4, <1>9 DEF PutFlush, Flushed
  <2>2. QED
    BY <1>2, <1>4, <1>9, <2>1 DEF PutFlush
<1>10. CASE DecodeRead
  <2>1. read < MaxPackets /\ read' = read + 1 => read' \in Entry
    BY PlayAssumption DEF Counts, Picture
  <2>2. QED
    BY <1>1, <1>2, <1>5, <1>10, <2>1 DEF DecodeRead, Turn
<1>11. CASE DecodeEof
  BY <1>2, <1>4, <1>5, <1>11 DEF DecodeEof
<1>12. CASE DecodeAgain \/ DecodeAbort \/ CloseSignal \/ SendQuit
  BY <1>1, <1>12 DEF DecodeAgain, DecodeAbort, CloseComponent, CloseSignal, CloseWith, SendQuit
<1>13. CASE CloseJoin
  BY <1>3, <1>13 DEF CloseJoin
<1>14. CASE Get
  <2>1. CASE videoq # <<>> /\ videoq' = Tail(videoq)
    <3>1. videoq' \in Seq(Entry) /\ Len(videoq') = Len(videoq) - 1
      BY <2>1 DEF VideoqTyped
    <3>2. VideoqTyped'
      BY <1>4, <3>1 DEF VideoqTyped
    <3>3. Flushed'
      BY <1>14, <2>1 DEF Get, Flushed
    <3>4. QED
      BY <3>2, <3>3
  <2>2. CASE UNCHANGED videoq
    BY <1>1, <1>14, <2>2 DEF Get
  <2>3. QED
    BY <1>14, <2>1, <2>2 DEF Get
<1>15. CASE ZeroFirst \/ ZeroSecond \/ Drain \/ QueuePicture
  BY <1>1, <1>15 DEF ZeroFirst, ZeroSecond, Drain, QueuePicture, QueueFrom
<1>16. CASE AwaitAllocation \/ CopyPicture \/ PutPicture
  BY <1>1, <1>16 DEF AwaitAllocation, CopyPicture, PutPicture
<1>17. QED
  BY <1>6, <1>7, <1>8, <1>9, <1>10, <1>11, <1>12, <1>13, <1>14, <1>15, <1>16
     DEF Next, MainThread, DecodeThread, VideoThread

(* What the steps write into a slot.                                       *)
LEMMA Updates ==
  ASSUME PictqTyped, NEW s \in Slots, NEW p \in Picture, NEW b \in BOOLEAN
  PROVE  /\ [pictq EXCEPT ![s].pic = p] \in Pictures
         /\ [pictq EXCEPT ![s].target_clock = p] \in Pictures
         /\ [pictq EXCEPT ![s].bmp = b] \in Pictures
         /\ [pictq EXCEPT ![s].allocated = b] \in Pictures
         /\ [pictq EXCEPT ![s].bmp = b, ![s].allocated = b] \in Pictures
<1> USE DEF PictqTyped, Pictures
<1>1. [pictq EXCEPT ![s].pic = p] \in Pictures
  OBVIOUS
<1>2. [pictq EXCEPT ![s].target_clock = p] \in Pictures
  OBVIOUS
<1>3. [pictq EXCEPT ![s].bmp = b] \in Pictures
  OBVIOUS
<1>4. [pictq EXCEPT ![s].allocated = b] \in Pictures
  OBVIOUS
<1>5. [pictq EXCEPT ![s].bmp = b, ![s].allocated = b] \in Pictures
  OBVIOUS
<1>6. QED
  BY <1>1, <1>2, <1>3, <1>4, <1>5

(* The picture queue.                                                      *)
LEMMA PictqStep ==
  ASSUME Control, Counts, PictqTyped, Ring, Next
  PROVE  PictqTyped'
<1>1. /\ rindex \in Slots /\ windex \in Slots /\ size \in 0 .. 2 /\ pictq \in Pictures
      /\ 0 \in Slots /\ 1 \in Slots /\ \A s \in Slots : After(s) \in Slots
      /\ 0 \in Picture /\ frame \in Picture
  BY PlayAssumption DEF PictqTyped, Counts, Slots, After, Picture
<1>2. ASSUME UNCHANGED <<rindex, windex, size>>, pictq' \in Pictures PROVE PictqTyped'
  BY <1>1, <1>2 DEF PictqTyped
<1>3. CASE User \/ RefreshThread \/ TakeEvent
  BY <1>1, <1>2, <1>3 DEF User, RefreshThread, TakeEvent
<1>4. CASE AllocPicture
  BY <1>1, <1>2, <1>4, Updates DEF AllocPicture
<1>5. CASE NotDue \/ Due \/ StreamClose
  BY <1>1, <1>2, <1>5 DEF NotDue, Due, StreamClose
<1>6. CASE PassPicture
  BY <1>1, <1>6 DEF PassPicture, PictqTyped
<1>7. CASE CountDown
  BY <1>1, <1>7 DEF CountDown, Count, Ring, PictqTyped
<1>8. CASE DecodeSeek \/ PutFlush \/ DecodeRead \/ DecodeEof \/ DecodeAgain
  BY <1>1, <1>2, <1>8 DEF DecodeSeek, PutFlush, DecodeRead, DecodeEof, DecodeAgain
<1>9. CASE DecodeAbort \/ CloseSignal \/ CloseJoin \/ SendQuit
  BY <1>1, <1>2, <1>9 DEF DecodeAbort, CloseSignal, CloseWith, CloseJoin, SendQuit
<1>10. CASE Get \/ Drain \/ AwaitAllocation
  BY <1>1, <1>2, <1>10 DEF Get, Drain, AwaitAllocation
<1>11. CASE ZeroFirst \/ ZeroSecond
  <2>1. \A s \in Slots : [pictq EXCEPT ![s].target_clock = 0] \in Pictures
    BY <1>1, Updates
  <2>2. QED
    BY <1>1, <1>2, <1>11, <2>1 DEF ZeroFirst, ZeroSecond
<1>12. CASE QueuePicture
  BY <1>1, <1>2, <1>12, Updates DEF QueuePicture, QueueFrom
<1>13. CASE CopyPicture
  <2>1. pictq' \in Pictures
    BY <1>1, <1>13, Updates DEF CopyPicture
  <2>2. QED
    BY <1>1, <1>13, <2>1 DEF CopyPicture, PictqTyped
<1>14. CASE PutPicture
  <2>1. pictq' \in Pictures
    BY <1>1, <1>14, Updates DEF PutPicture
  <2>2. QED
    BY <1>1, <1>14, <2>1 DEF PutPicture, PictqTyped, Ring
<1>15. QED
  BY <1>3, <1>4, <1>5, <1>6, <1>7, <1>8, <1>9, <1>10, <1>11, <1>12, <1>13, <1>14
     DEF Next, MainThread, DecodeThread, VideoThread

------------------------------------------------------------------------------
(* What becomes of an event that is under way.                             *)
LEMMA StillUnderWay ==
  ASSUME EventsTyped, NEW e, UnderWay(e),
         \/ UNCHANGED events
         \/ \E x \in Event : Push(x) \/ events' = Append(events, x)
         \/ events # <<>> /\ events' = Tail(events) /\ Head(events) # e
  PROVE  UnderWay(e)'
<1>1. PICK i \in 1 .. Len(events) : events[i] = e
  BY DEF UnderWay
<1>2. Len(events) \in Nat
  BY DEF EventsTyped
<1>3. CASE UNCHANGED events
  BY <1>1, <1>3 DEF UnderWay
<1>4. CASE \E x \in Event : events' = Append(events, x)
  <2>1. Len(events') = Len(events) + 1 /\ events'[i] = events[i]
    BY <1>1, <1>4 DEF EventsTyped
  <2>2. i \in 1 .. Len(events')
    BY <1>2, <2>1
  <2>3. QED
    BY <1>1, <2>1, <2>2 DEF UnderWay
<1>5. CASE events # <<>> /\ events' = Tail(events) /\ Head(events) # e
  <2>1. /\ Len(events') = Len(events) - 1 /\ i # 1
        /\ \A j \in 1 .. Len(events') : events'[j] = events[j + 1]
    BY <1>1, <1>5 DEF EventsTyped
  <2>2. i - 1 \in 1 .. Len(events') /\ (i - 1) + 1 = i
    BY <1>2, <2>1
  <2>3. events'[i - 1] = e
    BY <1>1, <2>1, <2>2
  <2>4. QED
    BY <2>2, <2>3 DEF UnderWay
<1>6. QED
  BY <1>3, <1>4, <1>5 DEF Push

(* A push leaves the event under way, or it is lost.                       *)
LEMMA PushedOrLost ==
  ASSUME EventsTyped, NEW e \in Event, Push(e)
  PROVE  UnderWay(e)' \/ lost'
<1>1. CASE events' = Append(events, e)
  <2>1. Len(events') = Len(events) + 1 /\ events'[Len(events')] = e /\ Len(events) \in Nat
    BY <1>1 DEF EventsTyped
  <2>2. Len(events') \in 1 .. Len(events')
    BY <2>1
  <2>3. QED
    BY <2>1, <2>2 DEF UnderWay
<1>2. CASE lost' = TRUE
  BY <1>2
<1>3. QED
  BY <1>1, <1>2 DEF Push

(* What was lost stays lost, and nobody takes back that avplay closes.     *)
LEMMA ForGood ==
  ASSUME Next
  PROVE  (lost => lost') /\ (abort_request => abort_request')
<1> USE DEF sdl, state
<1>1. ASSUME abort_request' = abort_request, lost' = lost \/ lost' = TRUE
      PROVE  (lost => lost') /\ (abort_request => abort_request')
  <2>1. abort_request => abort_request'
    BY <1>1, Zenon
  <2>2. CASE lost' = lost
    BY <2>1, <2>2, Zenon
  <2>3. CASE lost' = TRUE
    BY <2>1, <2>3
  <2>4. QED
    BY <1>1, <2>2, <2>3
<1>2. CASE User \/ NotDue \/ Due \/ PassPicture \/ CountDown \/ StreamClose
  BY <1>1, <1>2 DEF User, NotDue, Due, PassPicture, CountDown, Count, StreamClose
<1>3. CASE RefreshThread \/ SendQuit
  BY <1>1, <1>3 DEF RefreshThread, SendQuit, Push
<1>4. CASE TakeEvent \/ AllocPicture
  <2>1. lost' = lost /\ (abort_request' = abort_request \/ abort_request' = TRUE)
    BY <1>4 DEF TakeEvent, AllocPicture, DoExit
  <2>2. lost => lost'
    BY <2>1, Zenon
  <2>3. CASE abort_request' = abort_request
    BY <2>2, <2>3, Zenon
  <2>4. CASE abort_request' = TRUE
    BY <2>2, <2>4
  <2>5. QED
    BY <2>1, <2>3, <2>4
<1>5. CASE DecodeSeek \/ PutFlush \/ DecodeRead \/ DecodeEof
  BY <1>1, <1>5 DEF DecodeSeek, PutFlush, DecodeRead, DecodeEof
<1>6. CASE DecodeAgain \/ DecodeAbort \/ CloseSignal \/ CloseJoin
  BY <1>1, <1>6 DEF DecodeAgain, DecodeAbort, CloseSignal, CloseWith, CloseJoin
<1>7. CASE Get \/ ZeroFirst \/ ZeroSecond \/ Drain
  BY <1>1, <1>7 DEF Get, ZeroFirst, ZeroSecond, Drain
<1>8. CASE QueuePicture
  BY <1>1, <1>8 DEF QueuePicture, QueueFrom, Push
<1>9. CASE AwaitAllocation \/ CopyPicture \/ PutPicture
  BY <1>1, <1>9 DEF AwaitAllocation, CopyPicture, PutPicture
<1>10. QED
  BY <1>2, <1>3, <1>4, <1>5, <1>6, <1>7, <1>8, <1>9
     DEF Next, MainThread, DecodeThread, VideoThread

(* The flag of the packet queue follows decode_thread.                     *)
LEMMA AbortingStep ==
  ASSUME Control, Aborting, Next
  PROVE  Aborting'
<1> USE DEF decode, packets
<1>1. ASSUME UNCHANGED <<dpc, qabort>>
      PROVE  Aborting'
  BY <1>1, Zenon DEF Aborting
<1>2. CASE User \/ RefreshThread \/ TakeEvent \/ AllocPicture \/ NotDue \/ Due
  BY <1>1, <1>2 DEF User, RefreshThread, TakeEvent, AllocPicture, NotDue, Due
<1>3. CASE PassPicture \/ CountDown \/ StreamClose \/ VideoThread
  BY <1>1, <1>3 DEF PassPicture, CountDown, Count, StreamClose, VideoThread, Get, ZeroFirst,
     ZeroSecond, Drain, QueuePicture, QueueFrom, AwaitAllocation, CopyPicture, PutPicture
<1>4. ASSUME UNCHANGED qabort, dpc \in {"read", "flushed", "eof"},
             dpc' \in {"read", "flushed", "eof", "idle"}
      PROVE  Aborting'
  <2>1. dpc' \notin {"signal", "join", "quit", "done"}
    BY <1>4
  <2>2. ~qabort
    BY <1>4 DEF Aborting
  <2>3. QED
    BY <1>4, <2>1, <2>2, Zenon DEF Aborting
<1>5. CASE DecodeSeek \/ PutFlush \/ DecodeRead \/ DecodeEof
  BY <1>4, <1>5 DEF DecodeSeek, PutFlush, DecodeRead, DecodeEof, Turn
<1>6. ASSUME CloseComponent(TRUE) \/ CloseComponent(FALSE)
      PROVE  Aborting'
  BY <1>6, Zenon DEF Aborting, CloseComponent
<1>7. CASE DecodeAgain \/ DecodeAbort
  BY <1>4, <1>6, <1>7 DEF DecodeAgain, DecodeAbort
<1>8. ASSUME UNCHANGED qabort, dpc \in {"signal", "join", "quit"},
             dpc' \in {"signal", "join", "quit", "done"}
      PROVE  Aborting'
  <2>1. qabort
    BY <1>8 DEF Aborting
  <2>2. QED
    BY <1>8, <2>1, Zenon DEF Aborting
<1>9. CASE CloseSignal \/ CloseJoin \/ SendQuit
  BY <1>8, <1>9 DEF CloseSignal, CloseWith, CloseJoin, SendQuit
<1>10. QED
  BY <1>2, <1>3, <1>5, <1>7, <1>9 DEF Next, MainThread, DecodeThread

(* video_thread asks for a bitmap before it waits, and the main thread     *)
(* provides it when it takes the event.                                    *)
LEMMA BitmapAskedStep ==
  ASSUME Control, EventsTyped, PictqTyped, BitmapAsked, Next
  PROVE  BitmapAsked'
<1> DEFINE Needed == vpc = "alloc" /\ ~pictq[windex].allocated
<1>1. ASSUME ~Needed' PROVE BitmapAsked'
  BY <1>1 DEF BitmapAsked
<1>2. ASSUME (lost \/ abort_request)' PROVE BitmapAsked'
  BY <1>2 DEF BitmapAsked
<1>3. ASSUME Needed' => Needed, UnderWay("alloc") => UnderWay("alloc")'
      PROVE  BitmapAsked'
  BY <1>3, ForGood DEF BitmapAsked
<1>4. ASSUME \/ UNCHANGED events
             \/ \E x \in Event : Push(x) \/ events' = Append(events, x)
             \/ events # <<>> /\ events' = Tail(events) /\ Head(events) # "alloc"
      PROVE  UnderWay("alloc") => UnderWay("alloc")'
  BY <1>4, StillUnderWay
<1>5. ASSUME UNCHANGED <<vpc, windex, pictq>>
      PROVE  Needed' => Needed
  BY <1>5
<1> HIDE DEF Needed
<1>6. "quit" \in Event /\ "seek" \in Event /\ "refresh" \in Event /\ "alloc" \in Event
  BY DEF Event
<1> USE DEF sdl, video
<1>7. CASE User \/ RefreshThread \/ TakeEvent \/ SendQuit
  BY <1>3, <1>4, <1>5, <1>6, <1>7 DEF User, RefreshThread, TakeEvent, SendQuit
<1>8. CASE AllocPicture
  <2>1. CASE pictq' = [pictq EXCEPT ![windex].bmp = TRUE, ![windex].allocated = TRUE]
    BY <1>1, <1>8, <2>1 DEF AllocPicture, Needed, PictqTyped, Pictures
  <2>2. CASE DoExit
    BY <1>2, <2>2 DEF DoExit
  <2>3. QED
    BY <1>8, <2>1, <2>2 DEF AllocPicture
<1>9. CASE NotDue \/ Due \/ PassPicture \/ CountDown \/ StreamClose
  BY <1>3, <1>4, <1>5, <1>9 DEF NotDue, Due, PassPicture, CountDown, Count, StreamClose
<1>10. CASE DecodeSeek \/ PutFlush \/ DecodeRead \/ DecodeEof \/ DecodeAgain
  BY <1>3, <1>4, <1>5, <1>10 DEF DecodeSeek, PutFlush, DecodeRead, DecodeEof, DecodeAgain
<1>11. CASE DecodeAbort \/ CloseSignal \/ CloseJoin
  BY <1>3, <1>4, <1>5, <1>11 DEF DecodeAbort, CloseSignal, CloseWith, CloseJoin
<1>12. CASE ZeroFirst \/ ZeroSecond \/ CopyPicture \/ PutPicture
  BY <1>1, <1>12 DEF ZeroFirst, ZeroSecond, CopyPicture, PutPicture, Goto, Needed
<1>13. CASE Get \/ Drain
  BY <1>1, <1>13 DEF Get, Decode, Drain, Goto, Wait, Leave, Needed
<1>14. CASE AwaitAllocation
  BY <1>3, <1>4, <1>14 DEF AwaitAllocation, Goto, Wait, Leave, Needed
<1>15. CASE QueuePicture
  <2>1. CASE Push("alloc")
    <3>1. UnderWay("alloc")' \/ lost'
      BY <1>6, <2>1, PushedOrLost
    <3>2. QED
      BY <3>1 DEF BitmapAsked
  <2>2. CASE vpc' # "alloc"
    BY <1>1, <2>2 DEF Needed
  <2>3. QED
    BY <1>15, <2>1, <2>2 DEF QueuePicture, QueueFrom, Goto, Wait, Leave
<1>16. QED
  BY <1>7, <1>8, <1>9, <1>10, <1>11, <1>12, <1>13, <1>14, <1>15
     DEF Next, MainThread, DecodeThread, VideoThread

(* refresh_thread asks for a refresh after it has set the flag, and the    *)
(* main thread clears the flag when it is done.                            *)
LEMMA RefreshAskedStep ==
  ASSUME Control, EventsTyped, RefreshAsked, Next
  PROVE  RefreshAsked'
<1> DEFINE InTimer == mpc \in {"refresh", "look", "count", "drop"}
<1>1. ASSUME ~refresh' \/ InTimer' \/ (lost \/ abort_request)'
      PROVE  RefreshAsked'
  BY <1>1 DEF RefreshAsked, Refreshing
<1>2. ASSUME UNCHANGED refresh, InTimer => InTimer',
             UnderWay("refresh") => UnderWay("refresh")'
      PROVE  RefreshAsked'
  BY <1>2, ForGood DEF RefreshAsked, Refreshing
<1>3. ASSUME \/ UNCHANGED events
             \/ \E x \in Event : Push(x) \/ events' = Append(events, x)
             \/ events # <<>> /\ events' = Tail(events) /\ Head(events) # "refresh"
      PROVE  UnderWay("refresh") => UnderWay("refresh")'
  BY <1>3, StillUnderWay
<1>4. "quit" \in Event /\ "seek" \in Event /\ "refresh" \in Event /\ "alloc" \in Event
  BY DEF Event
<1> USE DEF sdl, main, timer
<1>5. CASE User \/ SendQuit
  BY <1>2, <1>3, <1>4, <1>5 DEF User, SendQuit
<1>6. CASE RefreshThread
  <2>1. CASE Push("refresh")
    <3>1. UnderWay("refresh")' \/ lost'
      BY <1>4, <2>1, PushedOrLost
    <3>2. QED
      BY <3>1 DEF RefreshAsked, Refreshing
  <2>2. CASE UNCHANGED <<refresh, sdl>>
    BY <1>2, <1>3, <1>6, <2>2 DEF RefreshThread
  <2>3. QED
    BY <1>6, <2>1, <2>2 DEF RefreshThread
<1>7. CASE TakeEvent
  <2>1. CASE Head(events) = "refresh"
    <3>1. CASE mpc' = "refresh"
      BY <1>1, <3>1
    <3>2. CASE refresh' = FALSE
      BY <1>1, <3>2
    <3>3. QED
      BY <1>7, <2>1, <3>1, <3>2 DEF TakeEvent
  <2>2. CASE Head(events) # "refresh"
    BY <1>2, <1>3, <1>7, <2>2 DEF TakeEvent
  <2>3. QED
    BY <2>1, <2>2
<1>8. CASE AllocPicture
  BY <1>2, <1>3, <1>8 DEF AllocPicture
<1>9. CASE NotDue
  BY <1>1, <1>9 DEF NotDue, RefreshDone
<1>10. CASE Due \/ PassPicture
  BY <1>2, <1>3, <1>10 DEF Due, PassPicture
<1>11. CASE CountDown
  <2>1. CASE mpc' = "refresh"
    BY <1>1, <2>1
  <2>2. CASE RefreshDone
    BY <1>1, <2>2 DEF RefreshDone
  <2>3. QED
    BY <1>11, <2>1, <2>2 DEF CountDown, Count
<1>12. CASE StreamClose
  BY <1>2, <1>3, <1>12 DEF StreamClose
<1>13. CASE DecodeSeek \/ PutFlush \/ DecodeRead \/ DecodeEof \/ DecodeAgain
  BY <1>2, <1>3, <1>13 DEF DecodeSeek, PutFlush, DecodeRead, DecodeEof, DecodeAgain
<1>14. CASE DecodeAbort \/ CloseSignal \/ CloseJoin
  BY <1>2, <1>3, <1>14 DEF DecodeAbort, CloseSignal, CloseWith, CloseJoin
<1>15. CASE Get \/ ZeroFirst \/ ZeroSecond \/ Drain
  BY <1>2, <1>3, <1>15 DEF Get, ZeroFirst, ZeroSecond, Drain
<1>16. CASE QueuePicture
  BY <1>2, <1>3, <1>4, <1>16 DEF QueuePicture, QueueFrom
<1>17. CASE AwaitAllocation \/ CopyPicture \/ PutPicture
  BY <1>2, <1>3, <1>17 DEF AwaitAllocation, CopyPicture, PutPicture
<1>18. QED
  BY <1>5, <1>6, <1>7, <1>8, <1>9, <1>10, <1>11, <1>12, <1>13, <1>14, <1>15, <1>16, <1>17
     DEF Next, MainThread, DecodeThread, VideoThread

(* Whoever changes what video_thread waits for signals it.                 *)
LEMMA SleepingStep ==
  ASSUME Control, PictqTyped, Aborting, Sleeping, Next
  PROVE  Sleeping'
<1>1. ASSUME ~asleep' PROVE Sleeping'
  BY <1>1 DEF Sleeping
<1>2. ASSUME asleep' => asleep, UNCHANGED <<vpc, videoq, qabort, dpc, size, windex>>,
             asleep' /\ vpc = "alloc" => UNCHANGED pictq
      PROVE  Sleeping'
  <2>1. CASE ~asleep'
    BY <1>1, <2>1
  <2>2. CASE asleep'
    BY <1>2, <2>2 DEF Sleeping
  <2>3. QED
    BY <2>1, <2>2
<1>3. ASSUME UNCHANGED asleep PROVE asleep' => asleep
  BY <1>3, Zenon
<1>4. ASSUME SignalPictq PROVE asleep' => asleep /\ vpc = "get"
  BY <1>4, Zenon DEF SignalPictq
<1>5. ASSUME SignalQueue PROVE asleep' => asleep /\ vpc # "get"
  BY <1>5, Zenon DEF SignalQueue
<1> USE DEF main, sdl, timer, decode, state, video, packets
<1>6. CASE User \/ RefreshThread \/ TakeEvent \/ NotDue \/ Due \/ PassPicture \/ StreamClose
  BY <1>2, <1>3, <1>6 DEF User, RefreshThread, TakeEvent, NotDue, Due, PassPicture, StreamClose
<1>7. CASE AllocPicture
  <2>1. CASE SignalPictq
    BY <1>2, <1>4, <1>7, <2>1 DEF AllocPicture
  <2>2. CASE UNCHANGED asleep /\ pictq' = [pictq EXCEPT ![windex].bmp = FALSE]
    <3>1. pictq'[windex'].allocated = pictq[windex].allocated
      BY <1>7, <2>2 DEF AllocPicture, PictqTyped, Pictures
    <3>2. UNCHANGED <<vpc, videoq, qabort, dpc, size>>
      BY <1>7 DEF AllocPicture
    <3>3. QED
      BY <1>1, <1>3, <2>2, <3>1, <3>2 DEF Sleeping
  <2>3. QED
    BY <1>7, <2>1, <2>2 DEF AllocPicture
<1>8. CASE CountDown
  <2>1. /\ asleep' => asleep /\ vpc = "get"
        /\ UNCHANGED <<vpc, videoq, qabort, dpc>>
    BY <1>4, <1>8 DEF CountDown, Count
  <2>2. QED
    BY <2>1 DEF Sleeping
<1>9. CASE DecodeSeek
  <2>1. /\ asleep' => asleep
        /\ UNCHANGED <<vpc, qabort, size, pictq, windex>>
        /\ videoq' \in {videoq, <<>>} /\ dpc = "read"
    BY <1>3, <1>9 DEF DecodeSeek, Turn
  <2>2. ~qabort
    BY <2>1 DEF Aborting
  <2>3. QED
    BY <2>1, <2>2 DEF Sleeping
<1>10. ASSUME SignalQueue, UNCHANGED <<vpc, size, pictq, windex>>, qabort' => dpc' = "signal"
       PROVE  Sleeping'
  <2>1. asleep' => asleep /\ vpc # "get"
    BY <1>5, <1>10
  <2>2. QED
    BY <1>10, <2>1 DEF Sleeping
<1>11. ASSUME dpc \in {"read", "flushed", "eof"}, UNCHANGED <<asleep, videoq, qabort>>,
              UNCHANGED <<vpc, size, pictq, windex>>
       PROVE  Sleeping'
  <2>1. ~qabort /\ (asleep' => asleep)
    BY <1>3, <1>11 DEF Aborting
  <2>2. QED
    BY <1>11, <2>1 DEF Sleeping
<1>12. CASE PutFlush \/ DecodeRead \/ DecodeEof
  <2>1. dpc \in {"flushed", "read"} /\ UNCHANGED <<qabort, vpc, size, pictq, windex>>
    BY <1>12 DEF PutFlush, DecodeRead, DecodeEof, Turn
  <2>2. ~qabort /\ ~qabort'
    BY <2>1 DEF Aborting
  <2>3. SignalQueue \/ UNCHANGED <<asleep, videoq>>
    BY <1>12 DEF PutFlush, DecodeRead, DecodeEof, Put
  <2>4. QED
    BY <1>10, <1>11, <2>1, <2>2, <2>3
<1>13. CASE DecodeAgain
  BY <1>10, <1>11, <1>13 DEF DecodeAgain, CloseComponent
<1>14. CASE DecodeAbort
  BY <1>10, <1>14 DEF DecodeAbort, CloseComponent
<1>15. CASE CloseSignal
  <2>1. /\ asleep' => asleep /\ vpc = "get"
        /\ dpc = "signal"
    BY <1>4, <1>15 DEF CloseSignal, CloseWith
  <2>2. ~asleep'
    BY <2>1 DEF Aborting, Sleeping
  <2>3. QED
    BY <1>1, <2>2
<1>16. CASE CloseJoin \/ SendQuit
  <2>1. dpc \in {"join", "quit"} /\ (asleep' => asleep)
    BY <1>3, <1>16 DEF CloseJoin, SendQuit
  <2>2. ~asleep'
    BY <2>1 DEF Aborting, Sleeping
  <2>3. QED
    BY <1>1, <2>2
<1>17. ASSUME vpc \in {"zero", "zero2", "copy", "put"} \/ ~asleep, UNCHANGED asleep
       PROVE  Sleeping'
  <2>1. ~asleep
    BY <1>17 DEF Sleeping
  <2>2. ~asleep'
    BY <1>3, <1>17, <2>1
  <2>3. QED
    BY <1>1, <2>2
<1>18. CASE ZeroFirst \/ ZeroSecond \/ CopyPicture \/ PutPicture
  BY <1>17, <1>18 DEF ZeroFirst, ZeroSecond, CopyPicture, PutPicture, Goto
<1>19. CASE Get
  <2>1. CASE UNCHANGED asleep
    BY <1>17, <1>19, <2>1 DEF Get
  <2>2. CASE Wait /\ videoq = <<>> /\ ~qabort /\ UNCHANGED videoq
    BY <1>19, <2>2 DEF Get, Wait, Sleeping
  <2>3. QED
    BY <1>19, <2>1, <2>2 DEF Get, Decode, Leave, Goto
<1>20. CASE Drain
  <2>1. CASE UNCHANGED asleep
    BY <1>17, <1>20, <2>1 DEF Drain
  <2>2. CASE Wait /\ size > 0 /\ ~qabort
    BY <1>20, <2>2 DEF Drain, Wait, Sleeping
  <2>3. QED
    BY <1>20, <2>1, <2>2 DEF Drain, Goto
<1>21. CASE QueuePicture
  <2>1. CASE UNCHANGED asleep
    BY <1>17, <1>21, <2>1 DEF QueuePicture, QueueFrom
  <2>2. CASE Wait /\ size >= 2 /\ ~qabort
    BY <1>21, <2>2 DEF QueuePicture, QueueFrom, Wait, Sleeping, PictqTyped
  <2>3. QED
    BY <1>21, <2>1, <2>2 DEF QueuePicture, QueueFrom, Leave, Goto
<1>22. CASE AwaitAllocation
  <2>1. CASE UNCHANGED asleep
    BY <1>17, <1>22, <2>1 DEF AwaitAllocation
  <2>2. CASE Wait /\ ~pictq[windex].allocated /\ ~qabort
    BY <1>22, <2>2 DEF AwaitAllocation, Wait, Sleeping
  <2>3. QED
    BY <1>22, <2>1, <2>2 DEF AwaitAllocation, Leave, Goto
<1>23. QED
  BY <1>6, <1>7, <1>8, <1>9, <1>12, <1>13, <1>14, <1>15, <1>16, <1>18, <1>19, <1>20,
     <1>21, <1>22 DEF Next, MainThread, DecodeThread, VideoThread

------------------------------------------------------------------------------
(* The invariant holds in every state.                                     *)
THEOREM InductiveInvariant == Spec => []IInv
<1>1. Init => IInv
  <2> SUFFICES ASSUME Init PROVE IInv
    OBVIOUS
  <2>1. Control /\ EventsTyped
    <3>1. Control
      BY DEF Init, Control
    <3>2. EventsTyped
      BY PlayAssumption DEF Init, EventsTyped
    <3>3. QED
      BY <3>1, <3>2
  <2>2. Counts /\ PictqTyped
    BY PlayAssumption DEF Init, Counts, PictqTyped, Pictures, Picture, Slots
  <2>3. VideoqTyped /\ Flushed
    BY PlayAssumption DEF Init, VideoqTyped, Flushed
  <2>4. Queued = 0 /\ Live = {}
    <3>1. size = 0 /\ size \in Int /\ mpc = "events"
      BY DEF Init
    <3>2. Queued = 0
      <4>1. mpc \notin {"count", "drop"}
        BY <3>1
      <4>2. Queued = size - 0
        BY <4>1, Zenon DEF Queued
      <4>3. QED
        BY <3>1, <4>2
    <3>3. QED
      BY <3>2 DEF Live
  <2>5. SlotsInv
    BY <2>4 DEF Init, SlotsInv, Ring, Bitmaps, PicturesInOrder, Decoded, Targets
  <2>6. Allocations
    BY DEF Init, Allocations
  <2>7. PacketsInOrder /\ HeldInOrder
    BY DEF Init, PacketsInOrder, HeldInOrder, Increasing, Before, Flush, Slots
  <2>8. Wakes
    BY DEF Init, Wakes, Aborting, BitmapAsked, RefreshAsked, Sleeping
  <2>9. QED
    BY <2>1, <2>2, <2>3, <2>5, <2>6, <2>7, <2>8, TypeParts DEF IInv
<1>2. IInv /\ [Next]_vars => IInv'
  <2> SUFFICES ASSUME IInv, [Next]_vars PROVE IInv'
    OBVIOUS
  <2>1. /\ Control /\ Counts /\ EventsTyped /\ VideoqTyped /\ PictqTyped
        /\ Flushed /\ SlotsInv /\ Allocations /\ PacketsInOrder /\ HeldInOrder
        /\ Ring /\ PicturesInOrder /\ Aborting /\ BitmapAsked /\ RefreshAsked /\ Sleeping
    BY TypeParts DEF IInv, SlotsInv, Wakes
  <2>2. SlotsInv'
    BY <2>1, SlotsStep
  <2>3. CASE Next
    <3>1. Control' /\ Counts' /\ EventsTyped' /\ VideoqTyped' /\ PictqTyped' /\ Flushed'
      BY <2>1, <2>3, ControlStep, CountsStep, EventsStep, VideoqStep, PictqStep
    <3>2. TypeOK'
      BY <3>1, TypeParts, PTL
    <3>3. Allocations' /\ PacketsInOrder' /\ HeldInOrder'
      BY <2>1, <2>3, AllocationsStep, PacketsStep, HeldStep
    <3>4. Wakes'
      BY <2>1, <2>3, AbortingStep, BitmapAskedStep, RefreshAskedStep, SleepingStep DEF Wakes
    <3>5. QED
      BY <2>2, <3>1, <3>2, <3>3, <3>4 DEF IInv
  <2>4. CASE UNCHANGED vars
    BY <2>4 DEF IInv, TypeOK, Flushed, SlotsInv, Ring, Bitmaps, PicturesInOrder, Targets,
       Zeroed, Queued, Live, Allocations, PacketsInOrder, HeldInOrder, Before, Increasing, Decoded, Wakes,
       Aborting, BitmapAsked, RefreshAsked, Refreshing, UnderWay, Sleeping, vars, main, sdl, timer,
       decode, state, video, packets
  <2>5. QED
    BY <2>3, <2>4
<1>3. QED
  BY <1>1, <1>2, PTL DEF Spec

(* Types, for queues of any size.                                          *)
THEOREM TypeCorrect == Spec => []TypeOK
<1>1. IInv => TypeOK
  BY DEF IInv
<1>2. QED
  BY <1>1, InductiveInvariant, PTL

(* The slots of the picture queue are used apart and in turn, although no  *)
(* mutex protects them (avplay.c 1109-1113, 1318-1418), and a queued       *)
(* picture always has its bitmap.                                          *)
THEOREM SlotsAreApart == Spec => []SlotsApart
<1>1. ASSUME IInv PROVE SlotsApart
  <2>1. Ring /\ Bitmaps /\ PicturesInOrder /\ Allocations
    BY <1>1 DEF IInv, SlotsInv
  <2>2. PictqTyped /\ Control
    BY <1>1, TypeParts DEF IInv
  <2>3. vpc \in {"alloc", "copy"} => windex \notin Live
    BY <2>1, <2>2 DEF Ring, Live, Queued, Control, PictqTyped, Slots
  <2>4. QED
    BY <2>1, <2>3 DEF SlotsApart, Bitmaps, Allocations
<1>2. QED
  BY <1>1, InductiveInvariant, PTL

(* Queued pictures have their target clocks in order, and while            *)
(* get_video_frame waits for them to be displayed none has a delay,        *)
(* although they are queued and displayed under no common mutex (avplay.c  *)
(* 1109-1113, 1410-1418, 1456-1458); between the two writes of line 1457   *)
(* nothing is said.                                                        *)
THEOREM TargetsAreOrdered == Spec => []TargetsOrdered
<1>1. ASSUME IInv PROVE TargetsOrdered
  <2>1. Targets /\ PicturesInOrder
    BY <1>1 DEF IInv, SlotsInv
  <2>2. PictqTyped
    BY <1>1, TypeParts DEF IInv
  <2>3. SUFFICES ASSUME Queued = 2, vpc # "zero2"
                 PROVE  pictq[rindex].target_clock <= pictq[After(rindex)].target_clock
    BY <2>1 DEF TargetsOrdered, Targets, Zeroed
  <2>4. /\ Live = Slots /\ rindex \in Slots /\ After(rindex) \in Slots
        /\ pictq[rindex].pic < pictq[After(rindex)].pic
        /\ \A s \in Slots : pictq[s].pic \in Int /\ pictq[s].target_clock \in Int
    BY <2>1, <2>2, <2>3 DEF PictqTyped, Pictures, Picture, Live, Slots, After,
       PicturesInOrder
  <2>5. \/ \A s \in Slots : pictq[s].target_clock = pictq[s].pic
        \/ \A s \in Slots : pictq[s].target_clock = 0
    BY <2>1, <2>3, <2>4 DEF Targets, Zeroed
  <2>6. QED
    BY <2>4, <2>5, PlayAssumption DEF PictqTyped, Pictures, Picture
<1>2. QED
  BY <1>1, InductiveInvariant, PTL

(* video_thread never sleeps through what it waits for, although the flags *)
(* and the number of pictures are changed under three mutexes or none      *)
(* (avplay.c 303-308, 1317-1370, 1459-1461, 2178-2186): the condition that *)
(* it waits for does not hold, and the thread that will establish it has   *)
(* been asked to.                                                          *)
THEOREM NoWakeUpIsMissed == Spec => []NoWakeUpMissed
<1>1. ASSUME IInv PROVE NoWakeUpMissed
  BY <1>1 DEF IInv, Wakes, BitmapAsked, RefreshAsked, Sleeping, NoWakeUpMissed
<1>2. QED
  BY <1>1, InductiveInvariant, PTL
------------------------------------------------------------------------------
(* The refinement of PictureQueue.                                         *)

(* Steps that leave alone what is queued.                                  *)
LEMMA SameWaiting ==
  ASSUME Queued' = Queued, UNCHANGED <<rindex, passed>>,
         Queued >= 1 => pictq'[rindex].pic = pictq[rindex].pic,
         Queued = 2 => pictq'[After(rindex)].pic = pictq[After(rindex)].pic
  PROVE  UNCHANGED Line!vars
<1>1. Waiting' = Waiting
  <2>1. After(rindex)' = After(rindex)
    BY DEF After
  <2>2. QED
    BY <2>1 DEF Waiting
<1>2. QED
  BY <1>1 DEF Line!vars

(* PassPicture takes the first picture, before it is counted.              *)
LEMMA PassPictureMaps ==
  ASSUME Control, Counts, PictqTyped, Ring, PassPicture
  PROVE  Line!Take
<1>1. /\ mpc = "look" /\ passed' = pictq[rindex].pic /\ rindex' = After(rindex)
      /\ mpc' \in {"count", "drop"} /\ UNCHANGED <<size, pictq>>
  BY DEF PassPicture
<1>2. size \in {1, 2} /\ Queued = size /\ Queued' = size - 1
  BY <1>1 DEF Ring, PictqTyped, Queued
<1>3. CASE size = 1
  <2>1. Waiting = <<pictq[rindex].pic>> /\ Waiting' = <<>>
    BY <1>2, <1>3 DEF Waiting
  <2>2. QED
    BY <1>1, <2>1 DEF Line!Take
<1>4. CASE size = 2
  <2>1. Waiting = <<pictq[rindex].pic, pictq[After(rindex)].pic>>
    BY <1>2, <1>4 DEF Waiting
  <2>2. Waiting' = <<pictq[After(rindex)].pic>>
    BY <1>1, <1>2, <1>4 DEF Waiting
  <2>3. QED
    BY <1>1, <2>1, <2>2 DEF Line!Take
<1>5. QED
  BY <1>2, <1>3, <1>4

(* PutPicture counts the picture that was copied behind the others.        *)
LEMMA PutPictureMaps ==
  ASSUME Control, Counts, PictqTyped, Ring, PicturesInOrder, PutPicture
  PROVE  Line!Next
<1>1. /\ vpc = "put" /\ size' = size + 1
      /\ pictq' = [pictq EXCEPT ![After(windex)].target_clock = frame]
      /\ UNCHANGED <<mpc, passed, rindex, windex>>
  BY DEF PutPicture, main
<1>2. \A s \in Slots : pictq'[s].pic = pictq[s].pic
  BY <1>1 DEF PictqTyped, Pictures
<1>3. /\ rindex \in Slots /\ windex \in Slots /\ After(rindex) \in Slots
      /\ After(rindex)' = After(rindex)
  BY <1>1 DEF PictqTyped, Slots, After
<1>4. Queued \in {0, 1} /\ Queued' = Queued + 1
  BY <1>1 DEF Ring, Queued, PictqTyped, Control
<1>5. /\ passed < frame /\ pictq[windex].pic < frame /\ pictq[After(windex)].pic = frame
      /\ frame \in Picture \ {0}
  <2>1. passed < frame /\ pictq[windex].pic < frame /\ pictq[After(windex)].pic = frame
    BY <1>1 DEF PicturesInOrder, Decoded
  <2>2. passed \in Nat /\ frame \in Picture /\ frame \in Nat
    BY PlayAssumption DEF Counts, Picture
  <2>3. QED
    BY <2>1, <2>2
<1>6. UNCHANGED passed
  BY <1>1
<1>7. CASE Queued = 0
  <2>1. rindex = After(windex)
    BY <1>1, <1>3, <1>7 DEF Ring, Slots, After
  <2>2. Waiting = <<>> /\ Waiting' = <<frame>>
    BY <1>1, <1>2, <1>3, <1>4, <1>5, <1>7, <2>1 DEF Waiting
  <2>3. Line!Put(frame)
    BY <1>5, <1>6, <2>2 DEF Line!Put
  <2>4. QED
    BY <1>5, <2>3 DEF Line!Next
<1>8. CASE Queued = 1
  <2>1. rindex = windex
    BY <1>1, <1>8 DEF Ring
  <2>2. Waiting = <<pictq[rindex].pic>>
    BY <1>8 DEF Waiting
  <2>3. Waiting' = <<pictq[rindex].pic, frame>>
    BY <1>1, <1>2, <1>3, <1>4, <1>5, <1>8, <2>1 DEF Waiting
  <2>4. Line!Put(frame)
    BY <1>5, <1>6, <2>1, <2>2, <2>3 DEF Line!Put
  <2>5. QED
    BY <1>5, <2>4 DEF Line!Next
<1>9. QED
  BY <1>4, <1>7, <1>8

(* Every other step leaves the queue as it is: CopyPicture writes where    *)
(* nothing is queued.                                                      *)
LEMMA OthersKeepWaiting ==
  ASSUME Control, PictqTyped, EventsTyped, Ring, Next, ~PassPicture, ~PutPicture
  PROVE  UNCHANGED Line!vars
<1> USE DEF main, video
<1>1. rindex \in Slots /\ After(rindex) \in Slots
  BY DEF PictqTyped, Slots, After
<1>2. ASSUME UNCHANGED <<passed, size, rindex>>,
             mpc' \in {"count", "drop"} <=> mpc \in {"count", "drop"},
             \A s \in Slots : pictq'[s].pic = pictq[s].pic
      PROVE  UNCHANGED Line!vars
  <2>1. Queued' = Queued
    BY <1>2 DEF Queued
  <2>2. QED
    BY <1>1, <1>2, <2>1, SameWaiting
<1>3. CASE User \/ RefreshThread \/ StreamClose
  BY <1>2, <1>3 DEF User, RefreshThread, StreamClose
<1>4. CASE TakeEvent
  BY <1>2, <1>4 DEF TakeEvent, DoExit
<1>5. CASE AllocPicture
  <2>1. ASSUME NEW s \in Slots,
               \/ pictq' = [pictq EXCEPT ![windex].bmp = TRUE, ![windex].allocated = TRUE]
               \/ pictq' = [pictq EXCEPT ![windex].bmp = FALSE]
        PROVE  pictq'[s].pic = pictq[s].pic
    BY <2>1 DEF PictqTyped, Pictures
  <2>2. \/ pictq' = [pictq EXCEPT ![windex].bmp = TRUE, ![windex].allocated = TRUE]
        \/ pictq' = [pictq EXCEPT ![windex].bmp = FALSE]
    BY <1>5 DEF AllocPicture
  <2>3. \A s \in Slots : pictq'[s].pic = pictq[s].pic
    BY <2>1, <2>2
  <2>4. QED
    BY <1>2, <1>5, <2>3 DEF AllocPicture, DoExit
<1>6. CASE NotDue \/ Due
  BY <1>2, <1>6 DEF NotDue, RefreshDone, Due
<1>7. CASE CountDown
  <2>1. Queued' = Queued
    BY <1>7 DEF CountDown, Count, RefreshDone, Queued, PictqTyped
  <2>2. QED
    BY <1>7, <2>1, SameWaiting DEF CountDown, Count
<1>8. CASE DecodeSeek \/ PutFlush \/ DecodeRead \/ DecodeEof \/ DecodeAgain
  BY <1>2, <1>8 DEF DecodeSeek, PutFlush, DecodeRead, DecodeEof, DecodeAgain
<1>9. CASE DecodeAbort \/ CloseSignal \/ CloseJoin \/ SendQuit
  BY <1>2, <1>9 DEF DecodeAbort, CloseSignal, CloseWith, CloseJoin, SendQuit
<1>10. CASE Get \/ Drain \/ AwaitAllocation
  BY <1>2, <1>10 DEF Get, Drain, AwaitAllocation
<1>11. CASE ZeroFirst \/ ZeroSecond \/ QueuePicture
  <2>1. \A s \in Slots : pictq'[s].pic = pictq[s].pic
    BY <1>11 DEF ZeroFirst, ZeroSecond, QueuePicture, QueueFrom, PictqTyped, Pictures
  <2>2. QED
    BY <1>2, <1>11, <2>1 DEF ZeroFirst, ZeroSecond, QueuePicture, QueueFrom
<1>12. CASE CopyPicture
  <2>1. Queued' = Queued
    BY <1>12 DEF CopyPicture, Queued
  <2>2. Queued \in {0, 1} /\ (Queued = 1 => rindex # windex)
    BY <1>12 DEF CopyPicture, Ring, Queued, PictqTyped, Control
  <2>3. Queued >= 1 => pictq'[rindex].pic = pictq[rindex].pic
    BY <1>1, <1>12, <2>2 DEF CopyPicture, PictqTyped, Pictures
  <2>4. QED
    BY <1>12, <2>1, <2>2, <2>3, SameWaiting DEF CopyPicture
<1>13. QED
  BY <1>3, <1>4, <1>5, <1>6, <1>7, <1>8, <1>9, <1>10, <1>11, <1>12
     DEF Next, MainThread, DecodeThread, VideoThread

(* The slots are a queue: pictures come out in the order they went in,     *)
(* each once and as it was put there, for any number of them.              *)
THEOREM Refinement == Spec => ImplementsPictureQueue
<1>1. ASSUME Init PROVE Line!Init
  <2>1. mpc = "events" /\ size = 0 /\ passed = 0
    BY <1>1 DEF Init
  <2>2. Queued = 0
    <3>1. mpc \notin {"count", "drop"}
      BY <2>1
    <3>2. Queued = size - 0
      BY <3>1, Zenon DEF Queued
    <3>3. QED
      BY <2>1, <3>2
  <2>3. QED
    BY <2>1, <2>2 DEF Line!Init, Waiting
<1>2. ASSUME IInv, [Next]_vars PROVE [Line!Next]_Line!vars
  <2>1. Control /\ Counts /\ EventsTyped /\ PictqTyped /\ Ring /\ PicturesInOrder
    BY <1>2, TypeParts DEF IInv, SlotsInv
  <2>2. CASE UNCHANGED vars
    <3>1. UNCHANGED <<passed, size, rindex, mpc, pictq>>
      BY <2>2 DEF vars, main
    <3>2. Queued' = Queued
      BY <3>1 DEF Queued
    <3>3. QED
      BY <3>1, <3>2, SameWaiting
  <2>3. CASE Next
    BY <2>1, <2>3, PassPictureMaps, PutPictureMaps, OthersKeepWaiting DEF Line!Next
  <2>4. QED
    BY <1>2, <2>2, <2>3
<1>3. QED
  BY <1>1, <1>2, InductiveInvariant, PTL DEF Spec, ImplementsPictureQueue, Line!Spec
------------------------------------------------------------------------------
(* The end of avplay.                                                      *)

(* The main thread is the one that begins to close, and then it only joins.*)
Closing == abort_request => mpc \in {"closing", "closing2", "ended"}

LEMMA ClosingStep ==
  ASSUME Control, Closing, [Next]_vars
  PROVE  Closing' /\ (abort_request => abort_request')
<1> USE DEF main, state, Closing
<1>1. CASE User \/ RefreshThread
  BY <1>1 DEF User, RefreshThread
<1>2. CASE TakeEvent \/ AllocPicture
  BY <1>2 DEF TakeEvent, AllocPicture, DoExit
<1>3. CASE NotDue \/ Due \/ PassPicture \/ CountDown
  BY <1>3 DEF NotDue, Due, PassPicture, CountDown, Count, RefreshDone
<1>4. CASE StreamClose
  BY <1>4 DEF StreamClose
<1>5. CASE DecodeThread
  <2>1. UNCHANGED <<mpc, abort_request>>
    BY <1>5 DEF DecodeThread, DecodeSeek, PutFlush, DecodeRead, DecodeEof, DecodeAgain,
       DecodeAbort, CloseSignal, CloseWith, CloseJoin, SendQuit
  <2>2. QED
    BY <2>1
<1>6. CASE VideoThread
  BY <1>6 DEF VideoThread, Get, ZeroFirst, ZeroSecond, Drain, QueuePicture, QueueFrom,
     AwaitAllocation, CopyPicture, PutPicture
<1>7. CASE UNCHANGED vars
  BY <1>7 DEF vars
<1>8. QED
  BY <1>1, <1>2, <1>3, <1>4, <1>5, <1>6, <1>7 DEF Next, MainThread

(* The joins are met in the end: decode_thread waits only for video_thread,*)
(* and video_thread sleeps only while decode_thread is still to signal.    *)
LEMMA NoDeadlockAtTheEnd ==
  ASSUME Control, Closing, Aborting, Sleeping, abort_request, mpc # "ended"
  PROVE  SomebodyCanStep
<1>1. CASE dpc = "signal"
  <2>1. vpc = "zero2" => ~asleep
    BY DEF Sleeping
  <2>2. QED
    BY <1>1, <2>1 DEF SomebodyCanStep, PictqMutex
<1>2. CASE dpc = "join"
  BY <1>2 DEF SomebodyCanStep, Aborting, Sleeping
<1>3. CASE dpc = "done"
  BY <1>3 DEF SomebodyCanStep, Closing, Control
<1>4. QED
  BY <1>1, <1>2, <1>3 DEF SomebodyCanStep, Control

(* The parts of the bound are numbers.                                     *)
StepsTyped ==
  /\ DecodeSteps \in 0 .. 5 /\ VideoSteps \in 0 .. 5 /\ OtherSteps \in 0 .. 4
  /\ Len(videoq) \in 0 .. MIN_FRAMES + 1

LEMMA StepsAreTyped ==
  ASSUME VideoqTyped
  PROVE  StepsTyped
<1>1. DecodeSteps \in 0 .. 5
  BY DEF DecodeSteps
<1>2. VideoSteps \in 0 .. 5
  BY DEF VideoSteps
<1>3. OtherSteps \in 0 .. 4
  BY DEF OtherSteps
<1>4. Len(videoq) \in 0 .. MIN_FRAMES + 1
  BY PlayAssumption DEF VideoqTyped
<1>5. QED
  BY <1>1, <1>2, <1>3, <1>4 DEF StepsTyped

(* decode_thread may still put a flush packet and wake video_thread, but   *)
(* each time it gets nearer to its end.                                    *)
LEMMA DecodeGetsOn ==
  ASSUME Control, VideoqTyped, abort_request, DecodeThread
  PROVE  /\ DecodeSteps' <= DecodeSteps - 1
         /\ Len(videoq') <= Len(videoq) + 1
         /\ VideoSteps' = VideoSteps
         /\ OtherSteps' <= OtherSteps + 1
<1> USE DEF Control, main, timer, video, packets, state
<1>1. UNCHANGED <<vpc, rpc, mpc>>
  BY DEF DecodeThread, DecodeSeek, PutFlush, DecodeRead, DecodeEof, DecodeAgain,
     DecodeAbort, CloseSignal, CloseWith, CloseJoin, SendQuit
<1>2. VideoSteps' = VideoSteps /\ OtherSteps' <= OtherSteps + 1
  BY <1>1 DEF VideoSteps, OtherSteps
<1>3. \/ dpc = "flushed" /\ dpc' = "read"
      \/ dpc = "eof" /\ dpc' \in {"read", "signal"}
      \/ dpc \in {"read", "idle"} /\ dpc' = "signal"
      \/ dpc = "signal" /\ dpc' = "join"
      \/ dpc = "join" /\ dpc' \in {"quit", "done"}
      \/ dpc = "quit" /\ dpc' = "done"
  BY DEF DecodeThread, DecodeSeek, PutFlush, DecodeRead, DecodeEof, DecodeAgain, Turn,
     DecodeAbort, CloseComponent, CloseSignal, CloseWith, CloseJoin, SendQuit
<1>4. DecodeSteps' <= DecodeSteps - 1
  BY <1>3 DEF DecodeSteps
<1>5. Len(videoq') <= Len(videoq) + 1
  <2>1. videoq' \in {videoq, <<>>, Append(videoq, Flush)}
    BY DEF DecodeThread, DecodeSeek, PutFlush, Put, DecodeRead, DecodeEof, DecodeAgain, Turn,
       DecodeAbort, CloseComponent, CloseSignal, CloseWith, CloseJoin, SendQuit
  <2>2. Flush \in Picture \cup {Flush} /\ videoq \in Seq(Picture \cup {Flush})
    BY DEF VideoqTyped
  <2>3. QED
    BY <2>1, <2>2
<1>6. QED
  BY <1>2, <1>4, <1>5

(* video_thread takes a packet, gets on with the one it has, or sleeps.    *)
LEMMA VideoGetsOn ==
  ASSUME Control, VideoqTyped, VideoThread
  PROVE  /\ DecodeSteps' = DecodeSteps
         /\ \/ /\ Len(videoq') = Len(videoq) - 1
               /\ VideoSteps' <= VideoSteps + 4 /\ OtherSteps' = OtherSteps
            \/ /\ videoq' = videoq
               /\ VideoSteps' <= VideoSteps - 1 /\ OtherSteps' = OtherSteps
            \/ /\ videoq' = videoq
               /\ VideoSteps' = VideoSteps /\ OtherSteps' = OtherSteps - 1
<1> USE DEF Control, main, timer, decode, packets, state
<1>1. UNCHANGED <<dpc, rpc, mpc>>
  BY DEF VideoThread, Get, ZeroFirst, ZeroSecond, Drain, QueuePicture, QueueFrom,
     AwaitAllocation, CopyPicture, PutPicture
<1>2. \/ /\ vpc = "get" /\ vpc' \in {"zero", "get", "queue"} /\ asleep' = asleep
         /\ videoq # <<>> /\ videoq' = Tail(videoq)
      \/ /\ videoq' = videoq /\ asleep' = asleep
         /\ \/ vpc = "get" /\ vpc' = "done"
            \/ vpc = "zero" /\ vpc' = "zero2"
            \/ vpc = "zero2" /\ vpc' = "drain"
            \/ vpc = "drain" /\ vpc' = "get"
            \/ vpc = "queue" /\ vpc' \in {"done", "alloc", "copy"}
            \/ vpc = "alloc" /\ vpc' \in {"done", "copy"}
            \/ vpc = "copy" /\ vpc' = "put"
            \/ vpc = "put" /\ vpc' = "get"
      \/ videoq' = videoq /\ vpc' = vpc /\ ~asleep /\ asleep'
  BY DEF VideoThread, Get, Decode, ZeroFirst, ZeroSecond, Drain, QueuePicture, QueueFrom,
     AwaitAllocation, CopyPicture, PutPicture, Wait, Goto, Leave
<1>3. DecodeSteps' = DecodeSteps
  BY <1>1 DEF DecodeSteps
<1>4. CASE /\ vpc = "get" /\ vpc' \in {"zero", "get", "queue"} /\ asleep' = asleep
           /\ videoq # <<>> /\ videoq' = Tail(videoq)
  <2>1. Len(videoq') = Len(videoq) - 1
    BY <1>4 DEF VideoqTyped
  <2>2. OtherSteps' = OtherSteps
    BY <1>1, <1>4 DEF OtherSteps
  <2>3. VideoSteps' <= VideoSteps + 4
    BY <1>4 DEF VideoSteps
  <2>4. QED
    BY <1>3, <2>1, <2>2, <2>3
<1>5. CASE /\ videoq' = videoq /\ asleep' = asleep
           /\ \/ vpc = "get" /\ vpc' = "done"
              \/ vpc = "zero" /\ vpc' = "zero2"
              \/ vpc = "zero2" /\ vpc' = "drain"
              \/ vpc = "drain" /\ vpc' = "get"
              \/ vpc = "queue" /\ vpc' \in {"done", "alloc", "copy"}
              \/ vpc = "alloc" /\ vpc' \in {"done", "copy"}
              \/ vpc = "copy" /\ vpc' = "put"
              \/ vpc = "put" /\ vpc' = "get"
  <2>1. OtherSteps' = OtherSteps
    BY <1>1, <1>5 DEF OtherSteps
  <2>2. VideoSteps' <= VideoSteps - 1
    BY <1>5 DEF VideoSteps
  <2>3. QED
    BY <1>3, <1>5, <2>1, <2>2
<1>6. CASE videoq' = videoq /\ vpc' = vpc /\ ~asleep /\ asleep'
  <2>1. OtherSteps' = OtherSteps - 1
    BY <1>1, <1>6 DEF OtherSteps
  <2>2. VideoSteps' = VideoSteps
    BY <1>6 DEF VideoSteps
  <2>3. QED
    BY <1>3, <1>6, <2>1, <2>2
<1>7. QED
  BY <1>2, <1>4, <1>5, <1>6

(* refresh_thread ends, and the main thread does nothing but join.         *)
LEMMA OthersGetOn ==
  ASSUME Control, Closing, abort_request, User \/ RefreshThread \/ MainThread
  PROVE  /\ DecodeSteps' = DecodeSteps /\ VideoSteps' = VideoSteps
         /\ videoq' = videoq /\ OtherSteps' = OtherSteps - 1
<1> USE DEF Control, main, timer, decode, video, packets
<1>1. RefreshThread \/ StreamClose
  BY DEF User, MainThread, TakeEvent, AllocPicture, NotDue, Due, PassPicture, CountDown, Count,
     Closing
<1>2. /\ UNCHANGED <<dpc, vpc, videoq, asleep>>
      /\ \/ mpc' = mpc /\ rpc = "top" /\ rpc' = "done"
         \/ rpc' = rpc /\ mpc = "closing" /\ mpc' = "closing2"
         \/ rpc' = rpc /\ mpc = "closing2" /\ mpc' = "ended"
  BY <1>1 DEF RefreshThread, StreamClose
<1>3. OtherSteps' = OtherSteps - 1
  BY <1>2 DEF OtherSteps
<1>4. QED
  BY <1>2, <1>3 DEF DecodeSteps, VideoSteps

(* Once avplay begins to close it has ended after at most                  *)
(* 8 MIN_FRAMES + 67 steps of all its threads, in whatever order they are  *)
(* taken, and until then there always is one to take: that is the proved   *)
(* part of NobodyHangs, and fairness only adds that steps are taken.       *)
THEOREM CloseEnds == Spec => CloseRunsOut
<1>1. Init => Closing
  BY DEF Init, Closing
<1>2. ASSUME IInv, Closing, [Next]_vars
      PROVE  Closing'
  <2>1. Control
    BY <1>2, TypeParts DEF IInv
  <2>2. QED
    BY <1>2, <2>1, ClosingStep
<1>3. ASSUME IInv, Closing
      PROVE  abort_request /\ mpc # "ended" => SomebodyCanStep
  <2>1. Control /\ Aborting /\ Sleeping
    BY <1>3, TypeParts DEF IInv, Wakes
  <2>2. QED
    BY <1>3, <2>1, NoDeadlockAtTheEnd
<1>4. IInv => StepsTyped
  BY TypeParts, StepsAreTyped DEF IInv
<1>5. ASSUME IInv, Closing, StepsTyped, StepsTyped', [Next]_vars
      PROVE  [IF abort_request THEN StepsToEnd' \in 0 .. StepsToEnd - 1
              ELSE abort_request' => StepsToEnd' <= 8 * MIN_FRAMES + 67]_vars
  <2>1. Control /\ VideoqTyped
    BY <1>5, TypeParts DEF IInv
  <2>2. /\ DecodeSteps \in 0 .. 5 /\ VideoSteps \in 0 .. 5 /\ OtherSteps \in 0 .. 4
        /\ Len(videoq) \in 0 .. MIN_FRAMES + 1
    BY <1>5 DEF StepsTyped
  <2>3. /\ DecodeSteps' \in 0 .. 5 /\ VideoSteps' \in 0 .. 5 /\ OtherSteps' \in 0 .. 4
        /\ Len(videoq') \in 0 .. MIN_FRAMES + 1
    BY <1>5 DEF StepsTyped
  <2>4. PICK d \in 0 .. 5, v \in 0 .. 5, o \in 0 .. 4, l \in 0 .. MIN_FRAMES + 1,
             e \in 0 .. 5, w \in 0 .. 5, p \in 0 .. 4, k \in 0 .. MIN_FRAMES + 1 :
             /\ d = DecodeSteps /\ v = VideoSteps /\ o = OtherSteps /\ l = Len(videoq)
             /\ e = DecodeSteps' /\ w = VideoSteps' /\ p = OtherSteps' /\ k = Len(videoq')
    BY <2>2, <2>3, Zenon
  <2>5. StepsToEnd = 10 * d + 8 * l + v + o /\ StepsToEnd' = 10 * e + 8 * k + w + p
    BY <2>4, Zenon DEF StepsToEnd
  <2>6. StepsToEnd' <= 8 * MIN_FRAMES + 67 /\ StepsToEnd' \in Nat
    BY <2>5, PlayAssumption
  <2>7. ASSUME abort_request, Next
        PROVE  10 * e + 8 * k + w + p < 10 * d + 8 * l + v + o
    <3>1. CASE DecodeThread
      <4>1. e <= d - 1 /\ k <= l + 1 /\ w = v /\ p <= o + 1
        BY <2>1, <2>4, <2>7, <3>1, DecodeGetsOn
      <4>2. QED
        BY <4>1, PlayAssumption
    <3>2. CASE VideoThread
      <4>1. /\ e = d
            /\ \/ k = l - 1 /\ w <= v + 4 /\ p = o
               \/ k = l /\ w <= v - 1 /\ p = o
               \/ k = l /\ w = v /\ p = o - 1
        BY <2>1, <2>4, <3>2, VideoGetsOn
      <4>2. QED
        BY <4>1, PlayAssumption
    <3>3. CASE User \/ RefreshThread \/ MainThread
      <4>1. e = d /\ w = v /\ k = l /\ p = o - 1
        BY <1>5, <2>1, <2>4, <2>7, <3>3, OthersGetOn
      <4>2. QED
        BY <4>1, PlayAssumption
    <3>4. QED
      BY <2>7, <3>1, <3>2, <3>3 DEF Next
  <2>8. ASSUME abort_request, Next
        PROVE  StepsToEnd' \in 0 .. StepsToEnd - 1
    BY <2>5, <2>7, <2>8, PlayAssumption
  <2>9. QED
    BY <1>5, <2>6, <2>8
<1>6. QED
  BY <1>1, <1>2, <1>3, <1>4, <1>5, InductiveInvariant, PTL DEF Spec, CloseRunsOut
==============================================================================
