# Formal models of threads, queues and buffers

This directory holds TLA+ models of the concurrent parts of this repository, a
port of libav (libavutil, libavcodec, libavformat, libavfilter and the tools
`avconv`, `avplay`, `avserver`) with a front end for the Xbox 360. Codecs,
containers, scalers and filters are numerical or parsing code, which
`tests/ref` compares with reference output. What those tests hardly reach is
the order in which threads do their work and packets arrive. The models are
about that order.

Paths below are relative to `src/`; "pthread.c" is `libavcodec/pthread.c`, and
"w32pthreads.h" is `libavcodec/w32pthreads.h`; `avconv.c` and `avplay.c` are the
tools.

## 1. Inventory

### The system's parts

| part | state | operations | talks to |
|---|---|---|---|
| condition variables over Win32 semaphores, `w32pthreads.h` | `win32_cond_t`: two mutexes, `waiter_count`, a semaphore, the event `waiters_done`, `is_broadcast` | wait, signal, broadcast, init, destroy | used by every thread pool of the port |
| slice threading, `pthread.c` 67-343 | `ThreadContext`: `current_job`, `job_count`, `done`, job arguments; per worker its number and its job | `thread_init`, `avcodec_thread_execute(2)`, `thread_free`; thread function `worker` | the codec calls execute from its decode(); workers call the codec's `func` |
| frame threading, `pthread.c` 84-149, 345-1005 | `FrameThreadContext`: ring indices, `prev_thread`, `delaying`, `die`; per worker: state, packet, frame, result, released buffers, progress of its frame | `ff_thread_decode_frame`, `_flush`, `frame_thread_init/free`; for codecs `ff_thread_finish_setup`, `_get_buffer`, `_release_buffer`, `_report_progress`, `_await_progress` | the client calls decode and flush; workers call decode(), which calls back into the client for buffers; workers wait for each other's progress |
| buffers and buffer pool, `libavutil/buffer.c` | reference counts; a lock-free list of free entries | ref, unref, make_writable, realloc; pool get, release, uninit | frames of all codecs, from any thread |
| byte FIFO, `libavutil/fifo.c` | buffer, read and write pointers, free-running 32-bit indices | write, read, peek, drain, grow | avconv's input threads, audio code |
| avconv input threads, `avconv.c` 1930-2160 | per file a FIFO of eight packets, `finished`, `joined`; `transcoding_finished` | `input_thread`, `get_input_packet_mt`, `free_input_threads` | the transcoding loop polls the FIFOs |
| avconv transcoding loop | streams, filter graphs, encoders | one step reads, decodes, filters, encodes, muxes | libraries |
| avplay, `avplay.c` | packet queues, the picture and subtitle queues, clocks, seek and pause requests | threads that demux, decode video and subtitles and refresh; SDL's audio callback and event loop | through the queues, `pictq_cond`, `subpq_cond` and SDL events |
| muxer interleaving, `libavformat/mux.c` 416-590 | `packet_buffer` and its last packet per stream | add by dts, take the next, flush | avconv, avserver |
| RTP reordering, `libavformat/rtpdec.c` 640-830 | `seq`, the sorted queue, `queue_len`, `prev_ret` | receive, return a queued packet, reset | RTSP and RTP demuxers |
| filters, `libavfilter/fifo.c`, `avfilter.c`, `buffersink.c` | frames queued on links | request and filter frames | avconv |
| avserver, `avserver.c` | connections and their states, feeds | one loop over `poll` | sockets |
| Xbox 360 front end, `projects_files/libav/src` | one player loop | read, decode, draw | libraries |
| codecs, parsers, DSP; containers and protocols; scaling, resampling, devices | numerical or I/O code | | |

`PROJECT.json` lists each of them with what is modelled and why the others are
not, and lists the hazards of the code, each at its line with the properties
that would catch it.

### What is hard

* **Condition variables from semaphores.** A unit released for one waiter must
  not be taken by a thread that began to wait later; a waker must learn that
  its waiter is out before the next waker begins; "last waiter" is decided from
  a count and from a mode that others change. `last_waiter = !waiter_count ||
  !is_broadcast` (line 237) reads as if it could be wrong in both directions.
* **Slice pool.** One integer, `current_job`, numbers the workers, hands out
  jobs and counts their completion. First jobs are taken by worker number,
  later ones from the counter; main's wait is not in a loop (line 227) and
  trusts one signal from whichever worker comes last.
* **Frame pool.** Two ring indices advance in one thread while workers change
  the four states of each slot, partly outside the lock that protects them
  (lines 383 and 936). Contexts are copied between threads; three kinds of
  waiters share `progress_cond` and some wakers use signal instead of
  broadcast; drains, flushes and free may come at any time.
* **Buffer pool.** The list of free entries has no lock; `get_pool` takes the
  whole list if its head is the one it saw, and puts back what it does not need
  while others return theirs. The pool lives as long as its last buffer.
* **Input threads.** `transcoding_finished` and `finished` are plain ints read
  and written without the lock. At the end a thread may sleep on a full FIFO, be
  about to, or hold a packet it will still put into a FIFO already drained. The
  end of a file must not overtake its last packets.
* **avplay.** Two threads use the slots of the picture queue without a lock on
  the slots; bitmaps are allocated by a third party through SDL's bounded queue
  of events; a close must get the video thread out of four different waits.
* **RTP.** Sequence numbers wrap, zero doubles as "none yet", and the answers of
  the parser (frame, more frames, not yet, error) steer a caller in another file.

### What makes the modelled parts correct

* condition variables: a signal wakes one thread that was waiting, a broadcast
  all of them, nobody else wakes, and no internal state survives the call;
* slice pool: execute() returns, only after every job has run, each once, on
  distinct thread numbers; free returns;
* frame pool: packets leave in the order they were submitted, after a delay of
  at most one packet per extra thread; no context is copied into while its
  worker decodes, nor from before the setup of that worker's packet was declared
  over; every call returns, every packet is decoded;
* buffer pool: an entry has one owner; who finds a buffer writable is alone with
  it; the pool is freed once, after its last buffer;
* byte FIFO and input threads: packets come out as they went in; a file ends
  after its last packet; the end of transcoding wakes, drains and joins every
  thread and loses no packet;
* avplay: pictures are displayed in order and from slots nobody writes; what was
  decoded is queued, unless avplay closes or an event was lost; a close ends;
* RTP: payloads are handed on in order, and one that arrives in time is handed on.

## 2. The modules

```
CondVar  <-- implemented by --  W32Cond        W32CondProofs
   (its semantics is assumed by)
SliceThreads  -- implements -->  TaskPool      SliceThreadsProofs
FrameThreads  -- implements -->  FrameQueue    FrameThreadsProofs

BufferPool                                     BufferPoolProofs
AVFifo  <-- extended by --  InputThreads       AVFifoProofs <-- InputThreadsProofs
AvPlay  -- implements -->  PictureQueue        AvPlayProofs
RtpQueue                                       RtpQueueProofs
```

A module of proofs extends the module left of it.

**CondVar** is what callers of `pthread_cond_*` rely on: a wait releases the
mutex and blocks in one step, a signal wakes one blocked thread if there is
one, a broadcast all, no thread wakes by itself. The two pools model their
condition variables with this semantics, so `W32Cond` implementing `CondVar`
is what makes their results apply to the Win32 build.

**W32Cond** models w32pthreads.h 184-270 one primitive at a time. `pc[t]` is
the statement a thread is at (`wait_...` and `wake_...` in `pthread_cond_wait`
before and after the semaphore, `sig_...`, `bc_...` in the wakers); the fields
of `win32_cond_t` have their own names. The client's mutex is `mutex`; clients
lock, unlock and call whatever they like, signal and broadcast with or without
the mutex. `EnterBroadcast`, `EnterWaiterCount` and `LeaveBroadcast` stand for
the lock and unlock statements the three functions share. The abstract state is
`AbstractLoc` and `AbstractCall`: a wait takes effect when `waiter_count` is
incremented, a broadcast when the units are released, a signal when its unit is
taken.

**TaskPool** is the promise of execute() (avcodec.h 2472-2498): each job of a call
is begun once and done, in a thread number no other job has meanwhile, and the
call returns when all are over. Which thread does which job is left open.

**SliceThreads** models pthread.c 192-343. A section under `current_job_lock`
is one action, since only the `pthread_cond_wait` that ends it blocks; the lock
spans several actions only in `thread_init`, which holds it while it creates
workers (`LockFree`). `mpc` and `wpc` say where main and the workers are;
`our_job`, `self_id` and `expected` are the worker's locals (`expected` is its
copy of `thread_count`). `finished` is the only variable the code does not
have: the jobs that have returned. `avcodec_thread_execute2` differs from
`_execute` in the function pointer it stores and is the same action. The
abstract state is `Calling` (from `mpc`), `Todo`, the jobs of the call neither
finished nor held by a running worker, and `JobsOf(k)`, the job of the running
worker whose `self_id` is `k`.

| action | code |
|---|---|
| `Create`, `ParkAfterInit`, `CreateFails` | `thread_init` 328-339 |
| `Execute`, `Unpark` | `avcodec_thread_execute` 251-281, `..park_workers` 225-229 |
| `Free`, `Join` | `thread_free` 231-249 |
| `Start` | `worker` 196-197, the reads before the lock |
| `Enter`, `Resume`, `Draw` | `worker` 200-215: number, wake-up, next job; each runs on to the wait or to the unlock (`DrawOrWait`) |
| `RunJob` | 217-218 |

**FrameQueue** is the promise of frame threading: packets are accepted into a
line and leave it in order, with their frame or without one, each before `Depth`
more are accepted. Packets are numbered as they are accepted, so the line is a
set of numbers whose least is the oldest.

**FrameThreads** models pthread.c 345-1005. The client's thread has `cpc`, each
worker `wpc`; `state`, `mutex`, `out` (`got_frame`, `frame` and `result`),
`packet`, `progress` and `delayed` (released buffers) are fields of
`PerThreadContext`, the rest of `FrameThreadContext`. A section under
`progress_mutex` is one action; what the code does outside it is an action of
its own (`SetReady` line 383, `RequestBuffer` line 936, `Die` line 736,
`UserUpdated` line 602). `p->mutex` and `buffer_mutex` are held across actions.
A thread in `asleep` waits on the condition variable given by where it is:
`InputWaiters`, `OutputWaiters` and `ProgressWaiters` say whom a wake-up on each
of the three may reach, and a signal picks any one of them.

| action | code |
|---|---|
| `Top`, `Input`, `Check`, `Begin`, `Return`, `SetReady`, `SignalOutput` | `frame_worker_thread` 352-392 |
| `CodecFinishesSetup`, `AwaitProgress`, `ReportProgress`, `RequestBuffer` ... `GetBufferReturns`, `ReleaseBuffer` | what decode() may call, 661-706 and 899-1005 |
| `Decode`, `UserUpdated`, `Submitted`, `Collect` | `ff_thread_decode_frame` 588-659 |
| `LockWorker`, `ReleaseDelayed`, `AwaitPrevious`, `Updated`, `UpdateFails`, `Fill`, `Callback` | `submit_packet` 514-586 |
| `StartParking`, `Park`, `Flush` | `park_frame_worker_threads`, `ff_thread_flush` 708-723, 872-897 |
| `Die`, `WakeToDie`, `Join` | `frame_thread_free` 725-780 |

The codec is external. It does what `thread.h` and `doc/multithreading.txt`
allow: a codec with `update_thread_context` calls `ff_thread_finish_setup` at
some point, waits at will for the frame of the packet before its own, asks for
buffers before its setup is over, and completes its progress before it
returns. `Setups` names the kinds of codec and client: `update` (the codec has
`update_thread_context`), `delay` (`CODEC_CAP_DELAY`), `safe`
(`thread_safe_callbacks`), `default` (the default get_buffer). Packet contents,
pictures and the fields of `AVCodecContext` are left out: what matters is who
may read them when.

**BufferPool** models `libavutil/buffer.c`. Each atomic operation (a
compare-and-swap, an add-and-fetch) is one action and everything between two of
them belongs to the first of them, since it touches nothing another thread
could see. `pool` is the list a thread finds behind `pool->pool`, `list[t]` the
chain a thread owns (`buf` of `add_to_pool`), `entry[t]` the entry it has picked
and `cur[t]` what its last compare-and-swap in `get_pool` returned. Chains are
sequences; that nobody else changes a `next` pointer of a chain one owns is what
`ExclusiveEntries` says. `GetPool` compares only the head of the list, as the
code does, so a list that was taken and put back with another tail passes.
Threads are clients too: they get buffers, make references for others (at most
one per thread and buffer), release them, ask for a writable buffer and write,
and one of them gives the pool up when nobody is getting a buffer
(`Uninit`, buffer.h:217-218). Allocation may fail wherever the code tests it.

| action | code |
|---|---|
| `Get`, `GetPool`, `Keep`, `Put`, `Create`, `Alloc`, `Count` | `av_buffer_pool_get` 314-337, `get_pool` 240-252, `add_to_pool` 254-273, `pool_alloc_buffer` 286-312 |
| `Ref`, `Release`, `Drop` | `av_buffer_ref`, `av_buffer_unref` 91-118, `pool_release_buffer` 275-282 |
| `Uninit`, `Free` | `av_buffer_pool_uninit`, `buffer_pool_free` 214-237 |
| `MakeWritable`, `Written`, `Copied` | `av_buffer_make_writable` 120-144 and the use of its answer; a buffer that `pool->alloc` made read-only is copied however few hold it |

**AVFifo** is `libavutil/fifo.c` as operators on a record `Ring`: `rptr` and
`wptr` are offsets into the buffer and wrap at its end, `rndx` and `wndx` wrap at
`Word`. `Alloc`, `Size`, `Space`, `Write`, `Peek`, `Drain` and `Grow` are the
`av_fifo_` functions (a read is a peek and a drain); `Contents` is what a ring
stands for, a sequence.

**InputThreads** models avconv.c 1930-2160 over AVFifo, one FIFO per input file. A
section under `fifo_lock` is one action; `finished` and `transcoding_finished`
are written and read outside it, in actions of their own. `mpc` is where the
main thread is and `tpc[f]` the thread of file `f`. The bytes of a file are
numbered; `read` and `written` are how many its thread got and put, `taken` and
`dropped` how many the decoders got and the shutdown freed. These four are not in
the code. `discard` are files none of whose streams is used: avconv reads them
and never polls them, so their threads end up asleep on a full FIFO.

| action | code |
|---|---|
| `Start` | `init_input_threads`, one file, with both failures |
| `Take`, `TakeNothing`, `TryAgain` | `process_input` with `get_input_packet_mt` and `select_input_file` |
| `Stop` | the loop of `transcode` ends |
| `DrainFile`, `Join`, `JoinNobody`, `Skip` | `free_input_threads`, which a regular end runs twice; `JoinNobody` joins a thread that `pthread_create` failed to make, which with `<pthread.h>` (avconv.c 71-73) is undefined: it returns, or the program is `"crashed"` |
| `Top`, `ReadFrame`, `ReadNothing`, `WriteFrame`, `Finish` | `input_thread` |
| `SpuriousWakeup` | `pthread_cond_wait` returns for no reason; its loop tests again |

**PictureQueue** is what the two slots of `pictq` are for: a queue of at most
`Capacity` pictures, put in the order they were decoded and taken from the
front.

**AvPlay** models the video path of avplay.c: four threads, `pictq`, `videoq` and
SDL's queue of events, which holds `MaxEvents` and silently refuses more (`lost`
remembers that it did). A section under `pictq_mutex` or the mutex of a packet
queue is one action, except the loop that zeroes the target clocks
(`ZeroFirst`, `ZeroSecond`): the main thread reads them without the mutex. It
loads the clock of the picture that is due (`Due`; `clock` is what it found) and
that of the next one in two steps. The index of a slot and `pictq_size` change in
two steps, as in the code (`PassPicture` then `CountDown`, `CopyPicture` then
`PutPicture`). A picture is the number of its packet, a target clock that number
or 0, and when a picture is due is left open, since it depends on clocks. A
decoder may keep pictures back, `held`, and gives them for later packets or for
the empty ones that follow the last (avplay.c 2409-2415), in their order, one for
a packet, or drops them. The abstract queue is `Waiting`: the pictures from
`rindex` on, `Queued` of them, which is `pictq_size` less the one whose index has
moved and whose count has not.

| action | code |
|---|---|
| `RefreshThread`, `User` | `refresh_thread`; keys and the window |
| `TakeEvent`, `AllocPicture` | `event_loop`, `alloc_picture` |
| `NotDue`, `Due`, `PassPicture`, `CountDown` | `video_refresh_timer` |
| `DecodeSeek`, `PutFlush`, `DecodeRead`, `DecodeEof`, `DecodeAgain`, `DecodeAbort` | `decode_thread`, with seek, end of file, `-loop` and `-autoexit` |
| `CloseSignal`, `CloseJoin`, `SendQuit`, `StreamClose` | `stream_component_close`, the end of `decode_thread`, `stream_close` |
| `Get`, `Decode`, `ZeroFirst`, `ZeroSecond`, `Drain` | `video_thread` with `get_video_frame` |
| `QueuePicture`, `AwaitAllocation`, `CopyPicture`, `PutPicture` | `queue_picture` |

**RtpQueue** models rtpdec.c 160-229 and 573-820, with the loop of
`ff_rtsp_fetch_packet` that calls it. The network counts packets without end;
the program sees their numbers modulo `RTP_SEQ_MOD`, and `Diff` is the 16-bit
subtraction. `prev_ret`, `seq` and the queue are the fields of `RTPDemuxContext`;
`cur` says that `cur_transport_priv` is set, so the caller will ask again
without a new packet; `rest` and `last` are what the payload handler still
holds and what it got last. What a handler answers is external.

| action | code |
|---|---|
| `Send` | the network: a packet arrives later, perhaps twice, or never |
| `ReceiveNext`, `ReceiveLate`, `ReceiveEarly` | `rtp_parse_one_packet` with a packet; `Accept` and `Refuse` are `rtp_valid_packet_in_sequence`, `Places` is the search of `enqueue_packet` |
| `More`, `Timeout` | the same without a packet, for the rest of a payload or when the first in the queue has waited too long |
| `Again` | the loop after an EAGAIN, rtpdec.c 817 |
| `Reset` | `ff_rtp_reset_packet_queue`, a seek |

## 3. The runs

| run | instance | shows |
|---|---|---|
| `w32cond` | 4 threads | `ImplementsCondVar`; `NothingLeftOver`, `CallsGoOn`; `WakerReturns` under fairness |
| `slice` | 3 workers, calls of 1 to 5 jobs, any number of calls | `ImplementsTaskPool`; `AllTasksDone`, `NobodyStranded`, `StepsRunOut`; `CallsReturn` under fairness |
| `slice_spurious` | 2 workers, 2 jobs, wake-ups without a signal | `AllTasksDone` fails |
| `slice_create_fails` | 2 workers, of which the second cannot be created | `FreeReturns` fails |
| `frame` | 3 workers, 4 packets; `update safe delay` and `safe default` | `ImplementsFrameQueue`, `DelayBound`, `ContextsAreQuiet`, `SafeNeverWaits` |
| `frame_live` | 2 workers, 3 packets, a buffer request each; `update` and `delay`, both with callbacks | `NobodyStranded`; `CallsReturn`, `DecodesFinish` under fairness |
| `pool` | 3 threads, 2 entries | `ExclusiveEntries`, `PoolOutlivesBuffers`, `WritersAlone`; `PoolIsFreed` under fairness |
| `input` | 2 files of up to 3 packets of 2 bytes, FIFOs of 2 packets, indices modulo 5 | `FifoHoldsTheRest`, `EofAfterEverything`, `QuietTeardown`; `Ends` under fairness |
| `avplay` | 3 packets, 1 seek, room for 2 events | `ImplementsPictureQueue`; `SlotsApart`, `TargetsOrdered`, `NoWakeUpMissed`, `CloseRunsOut`; `NobodyHangs` under fairness |
| `rtp` | 8 packets from number 12 modulo 16, queue of 3, 1 seek | `PayloadsInOrder`, `TimelyPacketsKept`, `RestReturned` |
| `frame_flush` | 2 workers | `NoFrameForgotten` fails |
| `avplay_assert` | 2 packets, 1 seek, room for 2 events | `AssertionHolds` fails |

Why the bounds are enough. *W32Cond*: a stolen wake-up needs a waiter, a late
waiter and a waker; four threads add a second waiter for a broadcast or a second
waker. The client loops for ever, so there is no other bound. *SliceThreads*:
with three workers, one to five jobs give calls with fewer jobs than workers, as
many, and enough that every worker draws from the counter; calls repeat without
bound. *FrameThreads*: four packets over three slots wrap the ring and reuse a
slot, after drains and flushes at every point; `MaxPackets` bounds packets
because they are numbered. At most two workers and the client take part in a
buffer callback (one worker is in its setup at a time, another may still hold
`buffer_mutex`), so the callback runs use two workers. `MaxRequests` bounds the
buffers of one decode(); zero where there is no callback changes nothing.
*BufferPool*: two entries are enough for a list that comes back with the same
head and another tail, and for a thread that keeps one and returns the rest;
three threads let two of them interfere with the third. With three entries
(about a million states) the result is the same. Gets and releases repeat
without bound. *InputThreads*: a FIFO of two packets fills, empties and wraps
within three; five is the least number above its four bytes, so the indices wrap
at another moment than the pointers. Two files can starve each other. *AvPlay*:
three packets fill both slots and leave a third waiting; room for two events is
little enough that pushes fail, and a seek meets any state of the queue. The
close of `-autoexit` meets video_thread in every wait it can be in, `queue_picture`
included, since the picture of an empty packet is queued too.
*RtpQueue*: eight packets from 12 pass the wrap at 16, the packet numbered 0
included; a packet may be overtaken by three, as many as the queue holds, so
the queue overflows and packets come too late; a dropout of 5 and a
misorder of 3 leave jumps between them.
Deadlock checking is off because every one of these systems may stop: clients
need not call, and a freed pool does nothing.

Fairness. Threads that the operating system runs are given weak fairness, one
assumption per thread: `Internal(t)` in `W32Cond` (only inside a call; clients
are free not to call), `Worker(w)` and the steps main takes inside its calls in
`SliceThreads`, `Worker(t)` and `InCall` in `FrameThreads`, `Internal(t)` in
`BufferPool`, `InputThread(f)` and the steps of the main thread in
`InputThreads`, the four threads of `AvPlay`. `InputThreads` adds that a demuxer
does not answer EAGAIN for ever (strong fairness of its next packet or end),
that transcoding stops after all files have ended (`StopAtEnd`; the outputs are
then flushed), and nothing about wake-ups without a signal. `AvPlay` adds that
the time of a picture comes (`SF(Due)`: a refresh event that finds it not due is
repeated); a user need not do anything. `RtpQueue` claims no liveness: how long
a packet waits is decided by the timeouts of its caller and by the network. The
loops of `get_pool` and `add_to_pool` may in principle lose to others again and
again; nothing is claimed of a single call, only that the pool is freed when
nobody gets buffers any more. Nothing makes a client call again. Mutexes need no
more than weak fairness here: the checked liveness holds although a thread may
lose any race for a lock that is free only now and then. `Fairness` of
`SliceThreads` includes that `thread_free` follows a failed creation (line 333).
In `FrameThreads` weak fairness of `Worker(t)` lets a codec choose what it does
next but not run for ever: with finitely many buffer requests the only step it
can repeat without end is one that changes nothing (`AwaitProgress` of a
complete frame, a second `ReleaseBuffer`), which fairness does not count.

### What the failing runs show

* `slice_spurious`: `avcodec_thread_park_workers` waits once. POSIX permits a
  wait to return without a signal; execute() then returns with jobs running.
  The worker's wait has the same trait: line 208 overwrites `our_job` on every
  wake-up, so a worker that wakes without a signal during a call runs the job of
  its own number again (`SpuriousWorker`). The emulation of w32pthreads.h never
  wakes a thread by itself (`ImplementsCondVar`), so its users are safe.
* `slice_create_fails`: `thread_free` after a failed `pthread_create` wakes the
  workers that already wait. A worker still on its way to its wait does not look
  at `done` before it sleeps, and the join never ends.
* `frame_flush`: a flush clears `got_frame` and not the frame. The next decode()
  of that worker begins by clearing the AVFrame, so the client never hears of
  those buffers again.
* `avplay_assert`: `video_refresh_timer` asserts that the next picture's target
  clock is not before that of the one due (line 1100), and takes no mutex for it.
  It may load the first clock before the flush of a seek zeroes both
  (lines 1456-1458) and the second after, or look between the two writes; the
  assertion then fails and avplay aborts (`configure` does not define `NDEBUG`;
  only the Xbox projects of the libraries do).
  `TargetsOrdered` says what does hold of the slots themselves: all queued clocks
  are in order, but between the two writes.

Some other traits are part of the models, and a property that meets one names it
as its exception:

* `p->result` of the last worker a drain passes is returned even if an earlier
  call reported it (pthread.c 658; `Collected` keeps `"error"` in `out`).
* rtpdec.c 817-818: when the loop after an EAGAIN ends with the answer "more
  frames in this payload", that answer is returned and not stored in
  `prev_ret`; the next call parses another packet and those frames are lost.
  `RestReturned` excepts it (`"unrecorded"`).
* rtpdec.c 772: `seq == 0` means that no packet came yet, and is also a number.
  After packet 0, with an empty queue, any packet passes for the next one.
  `PayloadsInOrder` excepts it.
* avplay.c 945, 1347 and 2486: a refresh, allocation or quit event that does not
  fit is lost. Then nothing is refreshed any more, the video thread waits until
  avplay is closed, or `-autoexit` does not exit. `NobodyHangs` shows that a close
  always ends, and that without a loss no picture is stuck.
* avplay.c 2425: `-autoexit` ("Exit when video is done playing.",
  doc/avplay.texi:117) closes when the packet queue is empty, though pictures may
  still wait to be displayed or for a slot; those that wait for one are thrown
  away. `AvPlay` allows it, and so does `NobodyHangs`.
* avplay.c 1271-1279: `alloc_picture` may be called for an event sent before that
  close, and then follows freed pointers. The model goes on with whatever is read
  there; a crash stops the program.
* avconv.c 2030: joining a thread that was never created may crash the program.
  `Ends` excepts it.
* pthread.c 369: avcodec.h:2466 says of `thread_safe_callbacks` "Ignored if the
  default get_buffer() is used." It is not: without it a codec that hands no
  context on ends its setup only when decode() returns (line 381), or in a buffer
  callback, and the client waits for it. `SafeNeverWaits` is about clients that
  set it.
* pthread.c 406-433 copies width, height and pix_fmt from the worker before for
  every codec. One without `update_thread_context` may write them in decode(),
  after its setup was declared over (line 369; lagarith.c 521 does), while the
  client copies them. `ContextsAreQuiet` says that no copy starts before that
  setup is over; that this is enough is promised only for the others
  (thread.h:66-69).

## 4. The proofs

All theorems hold for every value of the constants, from the assumptions
`ThreadsAssumption` (a finite set of threads), `SliceAssumption` (at least two
workers, at least one job), `FrameAssumption` (at least two workers, any kinds of
codec), `PoolAssumption` (finite sets of threads and entries), `WordAssumption` and
`InputAssumption` (a packet and a FIFO are not empty, and a FIFO is smaller than
a word can count), `PlayAssumption` (room for one event) and `RtpAssumption` (the
thresholds fit the range of the sequence numbers, a queue holds two packets).

**W32CondProofs.** The safety properties are not inductive: nothing in
`NothingLeftOver` says why a unit cannot remain. `IInv` adds who owns which
critical section at which label (`Ownership`), that `waiter_count` is the number
of threads between their increment and decrement (`Counting`), and how far the
handshake between the one waker and its waiters is: for a signal, the unit is
still there and someone sleeps, or exactly one thread took it and has not
acknowledged, or the event is set and nobody is left; for a broadcast, as many
units as sleepers, and the event set once the count is zero. `mtx_broadcast`
makes the waker unique, and makes threads that want to count themselves in wait
for it to finish; that is why nobody can steal a unit. `InductiveInvariant`
gives `TypeCorrect`, `NothingIsLeftOver`, `UnitsAlwaysHaveTakers`, and
`Refinement`: each step of the emulation is a step of `CondVar` or changes
nothing in it. `CallsNeverBlockEachOther` shows that the three internal locks
and the event never close a circle: a thread that needs `mtx_waiter_count` waits
for a holder that can go on, one that needs `mtx_broadcast` for a holder that
needs no more than that or the event, and the handshake says that a waker that
waits for the event has a unit out with a thread to take it, or a taker on its
way to set the event.

**SliceThreadsProofs.** The invariant is the meaning of the counter. While the
pool starts, `current_job` is the number of workers that have a number. During a
call, `current_job + |Reporting| = ThreadCount + |finished|`, where `Reporting`
are the workers between the end of a job and the increment that reports it: so
the counter reaches `thread_count + job_count` exactly when the last job is
reported, and only the worker that moves it there signals main. `FirstJobs` says
that a worker that has been woken and not yet run finds its first job
untouched, `JobsHeld` that a running worker holds either the job of its number
or one below the counter that nobody else has. From `InductiveInvariant` follow
`TypeCorrect`, `ExecuteFinishesAllTasks`, `NoJobRunsTwice` and
`ThreadNumbersAreDistinct`, and with these four `Refinement`: the pool implements
`TaskPool`. `NobodyIsStranded` needs a second invariant, `Progress`: every
job that has been drawn is finished or in somebody's hands (`NoJobLost`), and
while main sleeps the counter is below its last value (`Awake`). If all workers
slept, every job would be drawn, finished and reported, and the counter would
have reached that value. `CallsRunOut` counts steps: `StepsLeft` adds what each
worker has to do before it sleeps (`Rank` of its label), two steps for each job
not drawn (`Undrawn`) and those of main; every step but the two that begin a call
lowers it. So under any schedule `thread_init` ends after at most
5 thread_count + 2 steps of all threads (every worker draws a number), a call of n
jobs after 2n + 3 thread_count + 1 and `thread_free`, which finds nothing left to
draw, after 3 thread_count + 1; and by `NobodyIsStranded` there is a step
to take until it has ended. That is the proved part of `CallsReturn`; fairness
only adds that steps are taken.

**FrameThreadsProofs.** `IInv` adds four parts to the types. `Indices` says where
`next_decoding`, `next_finished`, `cur` and `finished` are in each part of a call;
that `next_decoding` may stand one past the ring inside a call is why it is
needed. `Ring` says that an uncollected packet lies between `next_finished` and
the end of the line, and that its number is `accepted` less the distance of its
slot from the end (`Age`): so slots in the order of the ring hold packets in the
order of their numbers, which is what the refinement needs, and the slot of
`next_decoding` is always empty again when it is used, which is `DelayBound`. A
drain that comes round leaves nothing behind, since it passes every slot.
`Workers` is the table of labels, states and mutexes of one worker, and says that
only an uncollected slot is busy or holds a frame. `ClientWaits` says what the
client found before it slept and what it knows afterwards.
`ContextsStayQuiet` follows from the last two, for codecs that hand their context
on and for those that do not; so does `SafeClientNeverWaits`. `Refinement`: `Fill`
accepts a packet, `Collect` delivers, skips or changes nothing, `Flush` empties
the line, all else is a stutter.
`NobodyIsStranded` rests on a second invariant, `Sleep`, which says of every
sleeper what it waits for and that this has not come: a worker without a packet
for its input, one in a buffer callback for the client, one that waits for
progress for a packet older than its own whose frame is not complete. Of the
packets that are not decoded take the oldest (`LeastPacket`, from the
well-ordering of the naturals): nobody older holds its worker up, so that worker
can go on, or asks for a buffer and the client, which waits for it or for another
one in its setup, is awake and will serve it (`OldestGoesOn`). Without such a
packet every wait of the client is over (`ClientGoesOn`).

**BufferPoolProofs.** `ExclusiveEntries` speaks of the pool; to preserve it each
entry must be known to have one owner wherever it is: `Apart` says that the pool,
the chains and hands of the threads and the buffers in use share nothing and are
all that was allocated, and each list has no repetition. That `get_pool` compares
only heads is harmless because the list it takes is the list as it is at
that moment. `Counted` relates references to their holders, `PoolCounted` the
pool's count to one for the client, one per buffer in use and one per thread
still returning one; `Freeing` follows. `Freed` is the other direction: the call
that brings the count to zero is the one that frees, so a pool nobody refers to
is never left behind (`PoolOutlivesItsBuffers`, both halves).

**AVFifoProofs** shows of the ring, for any size and wherever pointers and indices
have wrapped, that writing appends to its contents, draining removes from the
front, and growing keeps them. **InputThreadsProofs** rests on it: `BytesKept`
relates the four counts of bytes to the contents of the FIFO and keeps all of
them multiples of the size of a packet (a FIFO is never full with half a packet
of space left, line 1966), and `Stages` ties each label of a thread to what it
has read and written and to what the main thread may have seen of `finished`. That a
thread asleep on a full FIFO is never the one being joined is part of
`QuietTeardown`: the drain signals every file before its join, and a thread that
wakes then sees `transcoding_finished` or finds room.

**AvPlayProofs.** `Ring` relates `rindex`, `windex` and the pictures queued,
counting a picture whose index moved and whose count did not. `Allocations`
allows at most one pending allocation event, for the slot at `windex`, while it
is not in use. `PicturesInOrder` and `PacketsInOrder` order the numbers through
packet queue, video thread, slots and display; with the flush that follows a
seek the numbers still only grow; `HeldInOrder` puts those the decoder holds
between the packets and the slots. `Targets` says that the clocks are those of
the pictures or, once both were zeroed, all zero, until nothing is queued:
`TargetsAreOrdered`. It is about the slots; the unlocked loads of the main
thread are what the run `avplay_assert` is about. `Refinement`: `PassPicture`
takes the first picture of `PictureQueue`, `PutPicture` puts one, and all else
leaves `Waiting` as it is, the displacement of the index from the count
included. `Wakes` says for each reason video_thread sleeps what still has to
happen and who is going to do it: the abort that `decode_thread` signals, the
allocation event, the refresh. Events under way are consumed only from the front
(`StillUnderWay`), so one that was pushed arrives or was lost;
`NoWakeUpIsMissed` follows. `CloseEnds` is what `NobodyHangs` says of the end
without fairness: once `do_exit` has set `abort_request` the main thread only
joins (`Closing`), every step lowers `StepsToEnd`, and until avplay has ended
there is one to take, because a video_thread that still sleeps is one
`decode_thread` has yet to signal. A turn of `decode_thread` weighs more than
the flush packet it may still put and the wake-up that comes with it, and a
packet more than all that can be done with its picture; so no more than 8
MIN_FRAMES + 67 steps are left when the closing begins.

**RtpQueueProofs.** `MoreIsAsked` says that more frames are held only while
`prev_ret` is 1 and the caller is about to ask; types and `RestReturned` follow
without further assumptions. `Order` says of a network that repeats nothing that
a packet is in flight, in the queue or behind `last`, that the queue is sorted and
newer than `last`, and that `seq` is the number of `last` unless it is 0 with an
empty queue. This is about packets; the program compares numbers. That the two
agree (`DiffIsDistance`, from `DifferenceOfRemainders`) needs that no two packets
are half the range of the numbers apart. `PayloadsKeepTheirOrder` and
`TimelyPacketsAreKept` therefore assume `MaxPackets <= Half`, 2^15 packets: a
packet may stay queued as long as the caller does not time out, so after more
losses than that it could be taken for a late one.

Only model-checked: liveness, since the proof system does not handle fairness
and `ENABLED`. For each component with a liveness property a safety half is
proved: `CallsGoOn`, `NobodyStranded` (of both pools), the second half of
`PoolOutlivesBuffers`, the second half of `QuietTeardown`, `NoWakeUpMissed`.
They say that there is always somebody who can go on; that it will is TLC's, and
that this ends too, but for the calls of the slice pool (`StepsRunOut`) and the
end of avplay (`CloseRunsOut`), where a bound is proved. `CanStep` and
`ClientCanStep` are written out instead of `ENABLED` for the same reason. What
fails is found by TLC in the runs of section 3. `NoJobTwice` and
`ThreadNumbersDistinct` are proved and not run, as `ImplementsTaskPool`, which
is run, implies them; so is `UnitsHaveTakers`, which is a part of the handshake
that the refinement of `CondVar` rests on.

## 5. Not modelled

Failures of `frame_thread_init` (an allocation or a `pthread_create` that fails;
pthread.c 824 and 860); `pthread_cond_init/destroy` and the once-only lookup of
native condition variables; thread affinity; what `pthread_join` reads of the
handle (w32pthreads.h 108); `execute()` with one thread, which runs the jobs in a
loop; validation of parameters; buffers made outside a pool, and
`av_buffer_realloc`, which does not reallocate a pool's buffer.

Of the byte FIFO: writes by a callback that stops half-way, peeking at offsets.
Of avconv: which file is chosen among those that can be read, the decoding and
encoding themselves; `av_dup_packet` that fails (line 1969), and a read error,
which the code takes for the end of the file, is `ReadNothing`. Of avplay: audio
and subtitles, which have queues of the same kind, pausing and stepping, changing
channels while `decode_thread` puts packets (line 2519), and pointers into a
stream that a close has freed (line 1275). Of RTP: RTCP, jitter, and a sender that
starts again at a lower number; of a network that repeats packets only
`RestReturned` is claimed.

The muxer's interleaving, the filters and avserver run in one thread each and are
next in the plan. Codecs, parsers, containers, protocols, scaling, resampling,
devices and the front end are numerical code, tables and I/O: nearly all of the
repository's lines, whose difficulty is in the data and which `tests/ref` covers.

## 6. Plan

In the order of what would hurt most if it went wrong:

1. An abstract pool for `BufferPool`, a set of free entries from which a get takes
   any and a release returns one, as the specification it implements.
2. A bound on the steps of a call of `FrameThreads`, as proved for the slice pool
   and for the end of avplay; `frame_thread_init` with failures, composed with it.
3. **Interleaver** (`mux.c` 416-590): insertion by dts with a hint per stream;
   abstract: packets leave sorted by dts, each stream in its own order.
4. The audio and subtitle queues of avplay with pausing and changing channels, over
   the packet queue of `AvPlay`.
5. The filter FIFO and the request and filter recursion of `avfilter.c`.
6. avserver's connection states.
