-------------------------------- MODULE AvPlay --------------------------------
(***************************************************************************)
(* The video path of avplay (avplay.c): decode_thread reads packets into   *)
(* videoq, video_thread decodes them and queues pictures (two slots), the  *)
(* main thread handles SDL events and displays the pictures, refresh_thread*)
(* keeps asking it to.  The queue of SDL events is bounded, and nobody     *)
(* looks whether SDL_PushEvent succeeded.  Every section under a mutex is  *)
(* one action, but for the loop that zeroes target clocks under            *)
(* pictq_mutex, since the main thread reads them without it.  Times are    *)
(* abstracted to their order: a picture's target clock is its number, or   *)
(* 0.  The decoder, the demuxer, the clock and the user are external;      *)
(* audio, subtitles, pausing and changing channels are left out.           *)
(***************************************************************************)
EXTENDS Integers, Sequences

CONSTANTS MaxEvents,        \* events SDL holds, 128 in SDL 1.2
          MIN_FRAMES,       \* packets the queue may hold before it is full
          MaxPackets,       \* bound on the packets read
          MaxSeeks          \* bound on seeks

ASSUME PlayAssumption ==
  MaxEvents \in Nat \ {0} /\ {MIN_FRAMES, MaxPackets, MaxSeeks} \subseteq Nat

VARIABLES
  mpc, passed, clock,       \* main thread; the last picture it dequeued; its
                            \* copy of vp->target_clock
  events, lost,             \* the SDL queue; a push by the program failed
  rpc, refresh,             \* refresh_thread
  dpc, eof, exiting, read,  \* decode_thread: eof, ret # 0, packets read
  seek_req, seeks, abort_request, video_st,
  vpc, asleep, frame,       \* video_thread; in SDL_CondWait; the one decoded
  held,                     \* the pictures its decoder has not given yet
  videoq, qabort,           \* videoq and its abort_request
  rindex, windex, size,     \* pictq_rindex, pictq_windex, pictq_size
  pictq                     \* the slots

main    == <<mpc, passed, clock>>
sdl     == <<events, lost>>
timer   == <<rpc, refresh>>
decode  == <<dpc, eof, exiting, read>>
state   == <<seek_req, seeks, abort_request, video_st>>
video   == <<vpc, frame, held>>
packets == <<videoq, qabort>>
vars == <<main, sdl, timer, decode, state, video, asleep, packets,
          rindex, windex, size, pictq>>

Slots  == 0 .. 1                                \* VIDEO_PICTURE_QUEUE_SIZE
After(slot) == 1 - slot
Picture == 0 .. MaxPackets
Flush  == -1                                    \* flush_pkt
Null   == 0                                     \* a packet without data
Event  == {"refresh", "alloc", "quit", "seek"}

TypeOK ==
  /\ mpc \in {"events", "refresh", "look", "count", "drop", "closing", "closing2", "ended"}
  /\ rpc \in {"top", "done"}
  /\ dpc \in {"read", "flushed", "eof", "idle", "signal", "join", "quit", "done"}
  /\ vpc \in {"get", "zero", "zero2", "drain", "queue", "alloc", "copy", "put", "done"}
  /\ {lost, refresh, eof, exiting, seek_req} \subseteq BOOLEAN
  /\ {abort_request, video_st, asleep, qabort} \subseteq BOOLEAN
  /\ {passed, clock, read, frame} \subseteq Picture /\ held \subseteq Picture \ {0}
  /\ seeks \in 0 .. MaxSeeks
  /\ events \in Seq(Event) /\ Len(events) <= MaxEvents
  /\ videoq \in Seq(Picture \cup {Flush}) /\ Len(videoq) <= MIN_FRAMES + 1
  /\ rindex \in Slots /\ windex \in Slots /\ size \in 0 .. 2
  /\ pictq \in [Slots -> [pic : Picture, target_clock : Picture,
                          bmp : BOOLEAN, allocated : BOOLEAN]]

Init ==
  /\ mpc = "events" /\ passed = 0 /\ clock = 0
  /\ events = <<>> /\ lost = FALSE
  /\ rpc = "top" /\ refresh = FALSE
  /\ dpc = "read" /\ eof = FALSE /\ exiting = FALSE /\ read = 0
  /\ seek_req = FALSE /\ seeks = 0 /\ abort_request = FALSE /\ video_st = TRUE
  /\ vpc = "get" /\ asleep = FALSE /\ frame = 0 /\ held = {}
  /\ videoq = <<Flush>> /\ qabort = FALSE     \* packet_queue_init
  /\ rindex = 0 /\ windex = 0 /\ size = 0
  /\ pictq = [s \in Slots |->
                [pic |-> 0, target_clock |-> 0, bmp |-> FALSE, allocated |-> FALSE]]

------------------------------------------------------------------------------
(* SDL_PushEvent fails when the queue is full.                             *)
Push(e) ==
  IF Len(events) < MaxEvents THEN events' = Append(events, e) /\ UNCHANGED lost
                             ELSE lost' = TRUE /\ UNCHANGED events

(* SDL_CondSignal of pictq_cond and of videoq.cond: only video_thread      *)
(* waits on them.  pictq_mutex is held across two steps by one loop only.  *)
SignalPictq == asleep' = (asleep /\ vpc = "get")
SignalQueue == asleep' = (asleep /\ vpc # "get")
PictqMutex  == vpc # "zero2"                    \* it can be taken

(* refresh_thread.  Its flag is set before the push, successful or not.    *)
RefreshThread ==
  /\ \/ /\ rpc = "top" /\ abort_request
        /\ rpc' = "done"
        /\ UNCHANGED <<refresh, sdl>>
     \/ /\ rpc = "top" /\ ~abort_request /\ ~refresh
        /\ refresh' = TRUE
        /\ Push("refresh")
        /\ UNCHANGED rpc
  /\ UNCHANGED <<main, decode, state, video, asleep, packets, rindex, windex, size, pictq>>

(* The user: any other event does what a seek while one is pending does,   *)
(* and once avplay closes no event is handled.                             *)
User ==
  /\ ~abort_request /\ Len(events) < MaxEvents
  /\ \E e \in {"quit", "seek"} : events' = Append(events, e)
  /\ UNCHANGED <<main, lost, timer, decode, state, video, asleep, packets,
                 rindex, windex, size, pictq>>

------------------------------------------------------------------------------
(* event_loop.  stream_seek does nothing while a seek is pending.          *)
StreamSeek ==
  /\ seek_req' = (seek_req \/ seeks < MaxSeeks)
  /\ seeks' = IF seek_req \/ seeks = MaxSeeks THEN seeks ELSE seeks + 1

DoExit == mpc' = "closing" /\ abort_request' = TRUE

TakeEvent ==
  /\ mpc = "events" /\ events # <<>> /\ Head(events) # "alloc"
  /\ events' = Tail(events)
  /\ \/ /\ Head(events) = "refresh"
        /\ IF video_st THEN mpc' = "refresh" /\ UNCHANGED refresh
                       ELSE refresh' = FALSE /\ UNCHANGED mpc
        /\ UNCHANGED <<seek_req, seeks, abort_request>>
     \/ /\ Head(events) = "seek"
        /\ StreamSeek
        /\ UNCHANGED <<mpc, refresh, abort_request>>
     \/ /\ Head(events) = "quit"
        /\ DoExit
        /\ UNCHANGED <<refresh, seek_req, seeks>>
  /\ UNCHANGED <<passed, clock, lost, rpc, decode, video_st, video, asleep,
                 packets, rindex, windex, size, pictq>>

(* alloc_picture: SDL gives an overlay, or the program exits.  After the   *)
(* close of -autoexit the filter or the stream it takes the size from is   *)
(* freed (lines 1271-1279): if that does not stop the program, it goes on  *)
(* like this.                                                              *)
AllocPicture ==
  /\ mpc = "events" /\ events # <<>> /\ Head(events) = "alloc" /\ PictqMutex
  /\ events' = Tail(events)
  /\ \/ /\ pictq' = [pictq EXCEPT ![windex].bmp = TRUE, ![windex].allocated = TRUE]
        /\ SignalPictq
        /\ UNCHANGED <<mpc, abort_request>>
     \/ /\ pictq' = [pictq EXCEPT ![windex].bmp = FALSE]
        /\ DoExit
        /\ UNCHANGED asleep
  /\ UNCHANGED <<passed, clock, lost, timer, decode, seek_req, seeks, video_st,
                 video, packets, rindex, windex, size>>

(* video_refresh_timer: there is no picture, or its time has not come, or  *)
(* it has.  Then the main thread loads the picture's target clock, ...     *)
RefreshDone == mpc' = "events" /\ refresh' = FALSE

NotDue ==
  /\ mpc = "refresh" /\ (size = 0 \/ pictq[rindex].target_clock # 0)
  /\ RefreshDone
  /\ UNCHANGED <<passed, clock, sdl, rpc, decode, state, video, asleep, packets,
                 rindex, windex, size, pictq>>

Due ==
  /\ mpc = "refresh" /\ size > 0
  /\ clock' = pictq[rindex].target_clock
  /\ mpc' = "look"
  /\ UNCHANGED <<passed, sdl, timer, decode, state, video, asleep, packets,
                 rindex, windex, size, pictq>>

(* ... loads the next one's and asserts their order, in a step of its own  *)
(* (the model goes on whatever it finds, as with NDEBUG: AssertionHolds    *)
(* is about what it finds), drops or displays the picture, ++pictq_rindex, *)
PassPicture ==
  /\ mpc = "look"
  /\ passed' = pictq[rindex].pic /\ clock' = 0
  /\ rindex' = After(rindex)
  /\ mpc' \in {"count", "drop"}
  /\ UNCHANGED <<sdl, timer, decode, state, video, asleep, packets, windex, size, pictq>>

(* ... and pictq_size-- under the mutex; after a drop it starts again.     *)
Count(Signal) ==
  /\ mpc \in {"count", "drop"} /\ PictqMutex
  /\ size' = size - 1
  /\ Signal
  /\ IF mpc = "drop" THEN mpc' = "refresh" /\ UNCHANGED refresh ELSE RefreshDone
  /\ UNCHANGED <<passed, clock, sdl, rpc, decode, state, video, packets,
                 rindex, windex, pictq>>

CountSilently == Count(UNCHANGED asleep)    \* without SDL_CondSignal

CountDown == Count(SignalPictq)

(* stream_close: the two joins.                                            *)
StreamClose ==
  /\ \/ mpc = "closing" /\ dpc = "done" /\ mpc' = "closing2"
     \/ mpc = "closing2" /\ rpc = "done" /\ mpc' = "ended"
  /\ UNCHANGED <<passed, clock, sdl, timer, decode, state, video, asleep, packets,
                 rindex, windex, size, pictq>>

------------------------------------------------------------------------------
(* decode_thread: one turn of its loop.  A seek, ...                       *)
FullLate == Len(videoq) > MIN_FRAMES + 1        \* off by one

Full == Len(videoq) > MIN_FRAMES

Turn == dpc = "read" /\ ~abort_request

DecodeSeek ==
  /\ Turn /\ seek_req
  /\ \/ videoq' = <<>> /\ dpc' = "flushed" /\ UNCHANGED <<seek_req, eof>>
     \/ seek_req' = FALSE /\ eof' = FALSE /\ UNCHANGED <<videoq, dpc>>  \* an error
  /\ UNCHANGED <<main, sdl, timer, exiting, read, seeks, abort_request, video_st,
                 video, asleep, qabort, rindex, windex, size, pictq>>

Put(pkt) == videoq' = Append(videoq, pkt) /\ SignalQueue

(* ... whose flush packet follows once the queue is empty, ...             *)
PutFlush ==
  /\ dpc = "flushed"
  /\ Put(Flush)
  /\ dpc' = "read" /\ seek_req' = FALSE /\ eof' = FALSE
  /\ UNCHANGED <<main, sdl, timer, exiting, read, seeks, abort_request, video_st,
                 video, qabort, rindex, windex, size, pictq>>

(* ... a packet, the end of the file or an error, ...                      *)
DecodeRead ==
  /\ Turn /\ ~seek_req /\ ~Full /\ ~eof
  /\ \/ /\ read < MaxPackets
        /\ read' = read + 1
        /\ Put(read')
        /\ UNCHANGED <<dpc, eof>>
     \/ /\ eof' = TRUE /\ dpc' \in {"read", "idle"}
        /\ UNCHANGED <<read, videoq, asleep>>
  /\ UNCHANGED <<main, sdl, timer, exiting, state, video, qabort,
                 rindex, windex, size, pictq>>

(* ... or, past the end, an empty packet, ...                              *)
DecodeEof ==
  /\ Turn /\ ~seek_req /\ ~Full /\ eof
  /\ Put(Null)
  /\ dpc' = "eof"
  /\ UNCHANGED <<main, sdl, timer, eof, exiting, read, state, video, qabort,
                 rindex, windex, size, pictq>>

(* packet_queue_abort at the start of stream_component_close.              *)
CloseComponent(failed) ==
  /\ qabort' = TRUE /\ SignalQueue
  /\ exiting' = failed
  /\ dpc' = "signal"

(* ... and then, if all was decoded, another seek (-loop) or the end       *)
(* (-autoexit).                                                            *)
DecodeAgain ==
  /\ dpc = "eof"
  /\ \/ /\ dpc' = "read"
        /\ (videoq = <<>> /\ StreamSeek) \/ UNCHANGED <<seek_req, seeks>>
        /\ UNCHANGED <<exiting, qabort, asleep>>
     \/ /\ videoq = <<>>
        /\ CloseComponent(TRUE)
        /\ UNCHANGED <<seek_req, seeks>>
  /\ UNCHANGED <<main, sdl, timer, eof, read, abort_request, video_st, video, videoq,
                 rindex, windex, size, pictq>>

DecodeAbort ==
  /\ dpc \in {"read", "idle"} /\ abort_request
  /\ CloseComponent(FALSE)
  /\ UNCHANGED <<main, sdl, timer, eof, read, state, video, videoq,
                 rindex, windex, size, pictq>>

(* The rest of stream_component_close, ...                                 *)
CloseWith(Signal) ==
  /\ dpc = "signal" /\ PictqMutex
  /\ Signal
  /\ dpc' = "join"
  /\ UNCHANGED <<main, sdl, timer, eof, exiting, read, state, video, packets,
                 rindex, windex, size, pictq>>

CloseSilently == CloseWith(UNCHANGED asleep)    \* without SDL_CondSignal

CloseSignal == CloseWith(SignalPictq)

CloseJoin ==
  /\ dpc = "join" /\ vpc = "done"
  /\ videoq' = <<>> /\ video_st' = FALSE
  /\ dpc' = IF exiting THEN "quit" ELSE "done"
  /\ UNCHANGED <<main, sdl, timer, eof, exiting, read, seek_req, seeks, abort_request,
                 video, asleep, qabort, rindex, windex, size, pictq>>

(* ... and the event that ends avplay.                                     *)
SendQuit ==
  /\ dpc = "quit"
  /\ Push("quit")
  /\ dpc' = "done"
  /\ UNCHANGED <<main, timer, eof, exiting, read, state, video, asleep, packets,
                 rindex, windex, size, pictq>>

------------------------------------------------------------------------------
(* video_thread: packet_queue_get, and get_video_frame up to the loop over *)
(* the slots.  A flush packet empties the decoder.  Of any other one, an   *)
(* empty one too (lines 1474-1476), the decoder may keep the picture, or   *)
(* give one that it holds; what it held before that one is never queued.   *)
(* Pictures are numbered in the order the decoder gives them.              *)
Wait == asleep' = TRUE /\ UNCHANGED <<vpc, frame>>
Goto(label) == vpc' = label /\ UNCHANGED asleep
Leave == Goto("done") /\ frame' = 0

Decode(pkt) ==
  LET pictures == held \cup ({pkt} \ {Null})
  IN  \/ pkt = Flush /\ held' = {} /\ Goto("zero") /\ UNCHANGED frame
      \/ pkt # Flush /\ held' = pictures /\ Goto("get") /\ UNCHANGED frame
      \/ /\ pkt # Flush /\ frame' \in pictures
         /\ held' = {p \in pictures : p > frame'}
         /\ Goto("queue")

Get ==
  /\ vpc = "get" /\ ~asleep
  /\ IF qabort THEN Leave /\ UNCHANGED <<videoq, held>>
     ELSE IF videoq = <<>> THEN Wait /\ UNCHANGED <<videoq, held>>
     ELSE videoq' = Tail(videoq) /\ Decode(Head(videoq))
  /\ UNCHANGED <<main, sdl, timer, decode, state, qabort, rindex, windex, size, pictq>>

(* The rest of a flush packet: target clocks, one after the other, and the *)
(* wait until every picture is displayed.                                  *)
ZeroFirst ==
  /\ vpc = "zero"
  /\ pictq' = [pictq EXCEPT ![0].target_clock = 0]
  /\ Goto("zero2")
  /\ UNCHANGED <<main, sdl, timer, decode, state, frame, held, packets, rindex, windex, size>>

ZeroNoMore ==                       \* the loop stops after the first
  /\ vpc = "zero2"
  /\ Goto("drain")
  /\ UNCHANGED <<main, sdl, timer, decode, state, frame, held, packets,
                 rindex, windex, size, pictq>>

ZeroSecond ==
  /\ vpc = "zero2"
  /\ pictq' = [pictq EXCEPT ![1].target_clock = 0]
  /\ Goto("drain")
  /\ UNCHANGED <<main, sdl, timer, decode, state, frame, held, packets, rindex, windex, size>>

Drain ==
  /\ vpc = "drain" /\ ~asleep
  /\ IF size > 0 /\ ~qabort THEN Wait ELSE Goto("get") /\ UNCHANGED frame
  /\ UNCHANGED <<main, sdl, timer, decode, state, held, packets, rindex, windex, size, pictq>>

(* queue_picture: wait for a slot; allocate its bitmap if there is none or *)
(* the size of the video has changed; ...                                  *)
QueueFrom(limit) ==
  /\ vpc = "queue" /\ ~asleep
  /\ IF qabort THEN Leave /\ UNCHANGED <<pictq, sdl>>
     ELSE IF size >= limit THEN Wait /\ UNCHANGED <<pictq, sdl>>
     ELSE /\ UNCHANGED frame
          /\ \/ /\ pictq' = [pictq EXCEPT ![windex].allocated = FALSE]
                /\ Push("alloc")
                /\ Goto("alloc")
             \/ pictq[windex].bmp /\ Goto("copy") /\ UNCHANGED <<pictq, sdl>>
  /\ UNCHANGED <<main, timer, decode, state, held, packets, rindex, windex, size>>

QueueTooFar == QueueFrom(3)         \* > for >= in line 1318

QueuePicture == QueueFrom(2)

AwaitAllocation ==
  /\ vpc = "alloc" /\ ~asleep
  /\ IF qabort THEN Leave
     ELSE IF ~pictq[windex].allocated THEN Wait
     ELSE Goto("copy") /\ UNCHANGED frame
  /\ UNCHANGED <<main, sdl, timer, decode, state, held, packets, rindex, windex, size, pictq>>

(* ... copy the picture and ++pictq_windex; pictq_size++ under the mutex.  *)
CopyPicture ==
  /\ vpc = "copy"
  /\ pictq' = [pictq EXCEPT ![windex].pic = frame]
  /\ windex' = After(windex)
  /\ Goto("put")
  /\ UNCHANGED <<main, sdl, timer, decode, state, frame, held, packets, rindex, size>>

PutPicture ==
  /\ vpc = "put"
  /\ pictq' = [pictq EXCEPT ![After(windex)].target_clock = frame]
  /\ size' = size + 1
  /\ frame' = 0
  /\ Goto("get")
  /\ UNCHANGED <<main, sdl, timer, decode, state, held, packets, rindex, windex>>

------------------------------------------------------------------------------
MainThread == TakeEvent \/ AllocPicture \/ NotDue \/ Due \/ PassPicture
              \/ CountDown \/ StreamClose
DecodeThread == DecodeSeek \/ PutFlush \/ DecodeRead \/ DecodeEof \/ DecodeAgain \/ DecodeAbort
                \/ CloseSignal \/ CloseJoin \/ SendQuit
VideoThread == Get \/ ZeroFirst \/ ZeroSecond \/ Drain \/ QueuePicture
               \/ AwaitAllocation \/ CopyPicture \/ PutPicture

Next == User \/ RefreshThread \/ MainThread \/ DecodeThread \/ VideoThread

Spec == Init /\ [][Next]_vars

(* Every thread runs, and the time of a picture comes.                     *)
FairSpec ==
  /\ Spec
  /\ WF_vars(RefreshThread) /\ WF_vars(MainThread) /\ WF_vars(DecodeThread)
  /\ WF_vars(VideoThread) /\ SF_vars(Due)

------------------------------------------------------------------------------
(* The slots that hold pictures still to be displayed: pictq_rindex and    *)
(* pictq_size are not changed together (lines 1109-1113, 1169-1174).       *)
Queued == size - (IF mpc \in {"count", "drop"} THEN 1 ELSE 0)
Live   == {s \in Slots : Queued = 2 \/ (Queued = 1 /\ s = rindex)}

(* The slots and their indices are a queue of two: what is done to a slot  *)
(* between the moves of the indices and the changes of the size is not     *)
(* seen in the queue.                                                      *)
Waiting ==
  IF Queued = 2 THEN <<pictq[rindex].pic, pictq[After(rindex)].pic>>
  ELSE IF Queued = 1 THEN <<pictq[rindex].pic>> ELSE <<>>
Line == INSTANCE PictureQueue WITH
  Pictures <- Picture \ {0}, Capacity <- 2, queue <- Waiting, taken <- passed
ImplementsPictureQueue == Line!Spec

(* The two threads use the slots, which no mutex protects, apart: one that *)
(* is queued has a bitmap, and video_thread or alloc_picture never touches *)
(* a slot that is queued or being displayed.                               *)
SlotsApart ==
  /\ \A s \in Live : pictq[s].bmp
  /\ vpc \in {"alloc", "copy"} => windex \notin Live
  /\ \A i \in 1 .. Len(events) : events[i] = "alloc" => vpc \in {"alloc", "done"}

(* The pictures that wait have target clocks in their order, and get_video_*)
(* frame waits for pictures none of which has a delay ("Make sure there    *)
(* are no long delay timers", line 1455), however the seek came in between *)
(* the steps that display or queue one.  The loop that zeroes the clocks   *)
(* is excepted: the first may be done and the second not.                  *)
TargetsOrdered ==
  /\ Queued = 2 /\ vpc # "zero2" =>
       pictq[rindex].target_clock <= pictq[After(rindex)].target_clock
  /\ vpc = "drain" => \A s \in Live : pictq[s].target_clock = 0

(* assert(nextvp->target_clock >= vp->target_clock) of line 1100.  The     *)
(* main thread makes it without pictq_mutex, under which get_video_frame   *)
(* zeroes the clocks.                                                      *)
AssertionHolds ==
  mpc = "look" /\ size > 1 => clock <= pictq[After(rindex)].target_clock

(* A sleeping video_thread has something to wait for, and somebody still   *)
(* has to signal it: stream_component_close, or the main thread, which has *)
(* been or will be asked by an event that is under way.  The flags are set *)
(* and tested under different mutexes or none (lines 303-308, 1317-1370,   *)
(* 1459-1461, 2178-2186); only a lost event can leave video_thread waiting *)
(* for good, and only until avplay closes.                                 *)
UnderWay(e) == \E i \in 1 .. Len(events) : events[i] = e
Refreshing  == mpc \in {"refresh", "look", "count", "drop"} \/ UnderWay("refresh")
NoWakeUpMissed ==
  asleep =>
    /\ vpc \in {"get", "drain", "queue", "alloc"}
    /\ vpc = "get" => videoq = <<>> /\ ~qabort
    /\ qabort => dpc = "signal"
    /\ vpc = "queue" => size = 2
    /\ vpc = "drain" => size > 0
    /\ vpc \in {"queue", "drain"} => ~refresh \/ Refreshing \/ lost \/ abort_request
    /\ vpc = "alloc" => /\ ~pictq[windex].allocated
                        /\ UnderWay("alloc") \/ lost \/ abort_request

(* Once avplay begins to close, however its threads are scheduled: there   *)
(* is a step to take until it has ended (the joins of lines 2178, 1221 and *)
(* 1222 do not wait for each other or for a sleeper nobody signals), and   *)
(* StepsToEnd, which counts what is left of each thread and of the packets *)
(* video_thread may still decode, goes down with every step.               *)
SomebodyCanStep ==
  \/ rpc = "top"
  \/ dpc \in {"flushed", "eof", "read", "idle", "quit"}
  \/ dpc = "signal" /\ PictqMutex
  \/ dpc = "join" /\ vpc = "done"
  \/ vpc # "done" /\ ~asleep
  \/ mpc = "closing" /\ dpc = "done"
  \/ mpc = "closing2" /\ rpc = "done"
DecodeSteps ==
  IF dpc \in {"flushed", "eof"} THEN 5
  ELSE IF dpc \in {"read", "idle"} THEN 4
  ELSE IF dpc = "signal" THEN 3 ELSE IF dpc = "join" THEN 2 ELSE IF dpc = "quit" THEN 1 ELSE 0
VideoSteps ==
  IF vpc = "queue" THEN 5
  ELSE IF vpc \in {"alloc", "zero"} THEN 4
  ELSE IF vpc \in {"copy", "zero2"} THEN 3
  ELSE IF vpc \in {"put", "drain"} THEN 2 ELSE IF vpc = "get" THEN 1 ELSE 0
OtherSteps ==
  (IF asleep THEN 0 ELSE 1) + (IF rpc = "top" THEN 1 ELSE 0)
    + (IF mpc = "closing" THEN 2 ELSE IF mpc = "closing2" THEN 1 ELSE 0)
StepsToEnd == 10 * DecodeSteps + 8 * Len(videoq) + VideoSteps + OtherSteps
CloseRunsOut ==
  /\ [](abort_request /\ mpc # "ended" => SomebodyCanStep)
  /\ [][IF abort_request THEN StepsToEnd' \in 0 .. StepsToEnd - 1
        ELSE abort_request' => StepsToEnd' <= 8 * MIN_FRAMES + 67]_vars

(* A picture that was decoded is queued, or thrown away because videoq was *)
(* aborted, and a flush gets done; unless an event was lost.  Even then    *)
(* stream_component_close, of -autoexit or of the end, comes through.      *)
(* Once avplay begins to close it ends, and at the end of the file         *)
(* -autoexit makes it begin, unless an event was lost.                     *)
Closes == mpc \in {"closing", "closing2"}
NobodyHangs ==
  /\ (vpc \notin {"get", "done"}) ~> (vpc = "get" \/ (vpc = "done" /\ qabort) \/ lost)
  /\ qabort ~> dpc = "done"
  /\ (Closes \/ dpc = "quit") ~> (mpc = "ended" \/ (lost /\ ~Closes))
==============================================================================
