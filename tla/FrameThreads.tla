----------------------------- MODULE FrameThreads -----------------------------
(***************************************************************************)
(* Frame threading of libavcodec/pthread.c (lines 84-149, 345-1005): the   *)
(* client's thread hands packet after packet to a ring of workers and      *)
(* collects their frames in the same order.  A worker may call back into   *)
(* the client's thread for a buffer, and may wait for the progress of the  *)
(* frame before its own.                                                   *)
(*                                                                         *)
(* A section under progress_mutex is one action (nothing in it blocks but  *)
(* the wait that ends it); reads and writes of state outside it are        *)
(* actions of their own.  p->mutex and buffer_mutex are held across        *)
(* actions.  A thread that waits on a condition variable is in asleep      *)
(* until it is woken; what it waits on follows from where it is.  The      *)
(* codec's decode() is external: it does what its contract in thread.h and *)
(* doc/multithreading.txt allows.                                          *)
(***************************************************************************)
EXTENDS Integers, FiniteSets

CONSTANTS ThreadCount,
          Setups,           \* codecs and clients, as sets of what they have
          MaxPackets,       \* bound on the packets submitted to workers
          MaxRequests,      \* bound on the get_buffer() calls of one decode()
          Outcomes          \* what decode() may give: "frame", "none", "error"

ASSUME FrameAssumption ==
  /\ ThreadCount \in Nat /\ ThreadCount >= 2
  /\ Setups \subseteq SUBSET {"update", "safe", "default", "delay"}
  /\ MaxPackets \in Nat /\ MaxRequests \in Nat
  /\ Outcomes \subseteq {"none", "frame", "error"}

Threads == 0 .. ThreadCount - 1
Nobody  == ThreadCount
Client  == ThreadCount      \* the client's thread among the sleepers

VARIABLES
  setup,                    \* which of Setups this codec and client are
  cpc,                      \* where the client's thread is
  size,                     \* avpkt->size # 0, of the call of decode_frame
  cur, finished,            \* p of the submission; the local of decode_frame
  prev_thread, next_decoding, next_finished, delaying, die,
  state, mutex,             \* of each PerThreadContext
  buffer_mutex,
  wpc,                      \* where each worker is
  out,                      \* got_frame, frame and result of each worker
  requests,                 \* get_buffer() calls of its present decode()
  packet, ref, progress,    \* its packet, the frame it refers to, and whether
                            \* the progress of its own frame is complete
  delayed,                  \* workers with released_buffers
  pending,                  \* workers whose packet has not been collected
  asleep,
  accepted, delivered

client == <<size, cur, finished, prev_thread, next_decoding, next_finished, delaying, die>>
codec  == <<out, requests, progress>>
given  == <<setup, packet, ref, pending, accepted, delivered>>
vars   == <<cpc, client, state, mutex, buffer_mutex, wpc, codec, given, delayed, asleep>>

(* The codec has an update_thread_context method; CODEC_CAP_DELAY; the     *)
(* client sets thread_safe_callbacks; its get_buffer and get_buffer2 are   *)
(* the default ones.                                                       *)
UpdatesContext == "update" \in setup
CapDelay       == "delay" \in setup
SafeCallbacks  == "safe" \in setup
DefaultBuffers == "default" \in setup
NeedsCallback  == ~SafeCallbacks /\ ~DefaultBuffers

ClientLabels == {"idle", "user", "lock", "release", "prev", "update", "fill", "callback",
                 "after", "collect", "flush", "free", "kill", "join", "freed"}
WorkerLabels == {"top", "input", "check", "lock", "codec", "request", "granted", "got",
                 "await", "returned", "signal", "exited"}

TypeOK ==
  /\ setup \in Setups
  /\ cpc \in ClientLabels /\ size \in BOOLEAN /\ cur \in Threads /\ finished \in Threads
  /\ prev_thread \in Threads \cup {Nobody}
  /\ next_decoding \in 0 .. ThreadCount /\ next_finished \in Threads
  /\ cpc = "idle" => next_decoding \in Threads
  /\ delaying \in BOOLEAN /\ die \in BOOLEAN
  /\ state \in [Threads -> {"ready", "setup", "buffer", "set"}]
  /\ mutex \in [Threads -> {"free", "client", "worker"}]
  /\ buffer_mutex \in Threads \cup {Nobody}
  /\ wpc \in [Threads -> WorkerLabels]
  /\ out \in [Threads -> {"none", "frame", "error", "stale"}]
  /\ requests \in [Threads -> 0 .. MaxRequests]
  /\ packet \in [Threads -> 0 .. MaxPackets]
  /\ ref \in [Threads -> [packet : 0 .. MaxPackets, owner : Threads \cup {Nobody}]]
  /\ progress \in [Threads -> BOOLEAN]
  /\ delayed \subseteq Threads /\ pending \subseteq Threads
  /\ asleep \subseteq Threads \cup {Client}
  /\ accepted \in 0 .. MaxPackets /\ delivered \in 0 .. MaxPackets

(* frame_thread_init, with every worker created.                           *)
Init ==
  /\ setup \in Setups
  /\ cpc = "idle" /\ size = FALSE /\ cur = 0 /\ finished = 0
  /\ prev_thread = Nobody /\ next_decoding = 0 /\ next_finished = 0
  /\ delaying = TRUE /\ die = FALSE
  /\ state = [t \in Threads |-> "ready"] /\ mutex = [t \in Threads |-> "free"]
  /\ buffer_mutex = Nobody
  /\ wpc = [t \in Threads |-> "top"]
  /\ out = [t \in Threads |-> "none"] /\ requests = [t \in Threads |-> 0]
  /\ packet = [t \in Threads |-> 0]
  /\ ref = [t \in Threads |-> [packet |-> 0, owner |-> Nobody]]
  /\ progress = [t \in Threads |-> TRUE]
  /\ delayed = {} /\ pending = {} /\ asleep = {} /\ accepted = 0 /\ delivered = 0

------------------------------------------------------------------------------
(* The three condition variables of thread t.                              *)
InputWaiters(t)  == {w \in {t} : wpc[w] = "input"}
OutputWaiters(t) == {c \in {Client} : cpc \in {"collect", "flush", "free"} /\ finished = t}
ProgressWaiters(t) ==
  {w \in Threads : \/ wpc[w] = "granted" /\ w = t
                   \/ wpc[w] = "await" /\ ref[w].owner = t}
  \cup {c \in {Client} : \/ cpc = "prev" /\ prev_thread = t
                         \/ cpc = "callback" /\ cur = t}

Broadcast(waiters) == asleep' = asleep \ waiters
Signalled(waiters) == IF waiters \cap asleep = {} THEN {asleep}
                      ELSE {asleep \ {w} : w \in waiters \cap asleep}
Signal(waiters)    == asleep' \in Signalled(waiters)
Awake(x)           == x \notin asleep

(* ff_thread_finish_setup, lines 697-706.                                  *)
FinishSetup(t) ==
  /\ state' = [state EXCEPT ![t] = "set"]
  /\ Broadcast(ProgressWaiters(t))

------------------------------------------------------------------------------
(* frame_worker_thread: wait for a packet, lines 359-365.                  *)
Top(t) ==
  /\ wpc[t] = "top"
  /\ wpc' = [wpc EXCEPT ![t] = IF state[t] = "ready" /\ ~die THEN "input" ELSE "check"]
  /\ UNCHANGED <<cpc, client, state, mutex, buffer_mutex, codec, given, delayed, asleep>>

Input(t) ==
  /\ wpc[t] = "input" /\ mutex[t] = "free" /\ Awake(t)
  /\ IF state[t] = "ready" /\ ~die
     THEN asleep' = asleep \cup {t} /\ UNCHANGED wpc
     ELSE wpc' = [wpc EXCEPT ![t] = "check"] /\ UNCHANGED asleep
  /\ UNCHANGED <<cpc, client, state, mutex, buffer_mutex, codec, given, delayed>>

(* Lines 367-370; the setup is declared over at once for a codec that      *)
(* hands nothing on.                                                       *)
CheckKeepsSetup(t) ==               \* leaves it to the end of decode()
  /\ wpc[t] = "check"
  /\ wpc' = [wpc EXCEPT ![t] = IF die THEN "exited" ELSE "lock"]
  /\ UNCHANGED <<cpc, client, state, mutex, buffer_mutex, codec, given, delayed, asleep>>

Check(t) ==
  /\ wpc[t] = "check"
  /\ wpc' = [wpc EXCEPT ![t] = IF die THEN "exited" ELSE "lock"]
  /\ IF ~die /\ ~UpdatesContext /\ SafeCallbacks
     THEN FinishSetup(t)
     ELSE UNCHANGED <<state, asleep>>
  /\ UNCHANGED <<cpc, client, mutex, buffer_mutex, codec, given, delayed>>

(* Lines 372-375: the frame is cleared and decode() entered.               *)
Begin(t) ==
  /\ wpc[t] = "lock" /\ mutex[t] = "free"
  /\ mutex' = [mutex EXCEPT ![t] = "worker"]
  /\ wpc' = [wpc EXCEPT ![t] = "codec"]
  /\ out' = [out EXCEPT ![t] = "none"]
  /\ requests' = [requests EXCEPT ![t] = 0]
  /\ UNCHANGED <<cpc, client, state, buffer_mutex, progress, given, delayed, asleep>>

(* What decode() may do.  A codec with update_thread_context declares its  *)
(* setup over (thread.h:66-72)...                                          *)
CodecFinishesSetup(t) ==
  /\ wpc[t] = "codec" /\ UpdatesContext /\ state[t] = "setup"
  /\ FinishSetup(t)
  /\ UNCHANGED <<cpc, client, mutex, buffer_mutex, wpc, codec, given, delayed>>

(* ... and asks for buffers before that.  With a callback that is not      *)
(* thread-safe ff_thread_get_buffer sets the state outside progress_mutex  *)
(* (lines 926-936); otherwise (line 932) it changes nothing modelled.      *)
RequestBuffer(t) ==
  /\ wpc[t] = "codec" /\ NeedsCallback /\ state[t] = "setup"
  /\ requests[t] < MaxRequests
  /\ buffer_mutex = Nobody /\ buffer_mutex' = t
  /\ requests' = [requests EXCEPT ![t] = @ + 1]
  /\ state' = [state EXCEPT ![t] = "buffer"]
  /\ wpc' = [wpc EXCEPT ![t] = "request"]
  /\ UNCHANGED <<cpc, client, mutex, out, progress, given, delayed, asleep>>

(* Lines 937-945.                                                          *)
AwaitBuffer(t, wakes) ==
  IF state[t] # "setup"
  THEN /\ wpc' = [wpc EXCEPT ![t] = "granted"]
       /\ \E s \in wakes : asleep' = s \cup {t}
  ELSE /\ wpc' = [wpc EXCEPT ![t] = "got"]
       /\ asleep' \in wakes

SignalRequest(t) ==
  /\ wpc[t] = "request"
  /\ AwaitBuffer(t, Signalled(ProgressWaiters(t)))
  /\ UNCHANGED <<cpc, client, state, mutex, buffer_mutex, codec, given, delayed>>

BufferGranted(t) ==
  /\ wpc[t] = "granted" /\ Awake(t)
  /\ AwaitBuffer(t, {asleep})
  /\ UNCHANGED <<cpc, client, state, mutex, buffer_mutex, codec, given, delayed>>

(* Lines 947-956.                                                          *)
GetBufferReturns(t) ==
  /\ wpc[t] = "got"
  /\ wpc' = [wpc EXCEPT ![t] = "codec"]
  /\ IF UpdatesContext THEN UNCHANGED <<state, asleep>> ELSE FinishSetup(t)
  /\ buffer_mutex' = Nobody
  /\ UNCHANGED <<cpc, client, mutex, codec, given, delayed>>

(* ff_thread_release_buffer when it may not free directly (lines 959-1005).*)
ReleaseBuffer(t) ==
  /\ wpc[t] = "codec" /\ NeedsCallback /\ buffer_mutex = Nobody
  /\ delayed' = delayed \cup {t}
  /\ UNCHANGED <<cpc, client, state, mutex, buffer_mutex, wpc, codec, given, asleep>>

(* ff_thread_await_progress on the frame of the packet before, and         *)
(* ff_thread_report_progress on its own (lines 661-695).  A codec that     *)
(* hands no context on has no frame to wait for.                           *)
Complete(r) == r.owner = Nobody \/ packet[r.owner] # r.packet \/ progress[r.owner]

AwaitProgress(t) ==
  /\ \/ wpc[t] = "codec" /\ UpdatesContext
     \/ wpc[t] = "await" /\ Awake(t)
  /\ IF Complete(ref[t])
     THEN wpc' = [wpc EXCEPT ![t] = "codec"] /\ UNCHANGED asleep
     ELSE wpc' = [wpc EXCEPT ![t] = "await"] /\ asleep' = asleep \cup {t}
  /\ UNCHANGED <<cpc, client, state, mutex, buffer_mutex, codec, given, delayed>>

ReportQuietly(t) ==                 \* without the broadcast
  /\ wpc[t] = "codec" /\ ~progress[t]
  /\ progress' = [progress EXCEPT ![t] = TRUE]
  /\ UNCHANGED <<cpc, client, state, mutex, buffer_mutex, wpc, out, requests, given, delayed,
                 asleep>>

ReportProgress(t) ==
  /\ wpc[t] = "codec" /\ ~progress[t]
  /\ progress' = [progress EXCEPT ![t] = TRUE]
  /\ Broadcast(ProgressWaiters(t))
  /\ UNCHANGED <<cpc, client, state, mutex, buffer_mutex, wpc, out, requests, given, delayed>>

(* decode() returns with a frame, with none or with an error, and has      *)
(* reported all of its frame (lines 375-381).                              *)
Return(t) ==
  /\ wpc[t] = "codec" /\ progress[t]
  /\ \E o \in Outcomes : out' = [out EXCEPT ![t] = o]
  /\ wpc' = [wpc EXCEPT ![t] = "returned"]
  /\ IF state[t] = "setup" THEN FinishSetup(t) ELSE UNCHANGED <<state, asleep>>
  /\ UNCHANGED <<cpc, client, mutex, buffer_mutex, requests, progress, given, delayed>>

(* Line 383: the state is set with mutex held, but without progress_mutex. *)
SetReady(t) ==
  /\ wpc[t] = "returned"
  /\ state' = [state EXCEPT ![t] = "ready"]
  /\ wpc' = [wpc EXCEPT ![t] = "signal"]
  /\ UNCHANGED <<cpc, client, mutex, buffer_mutex, codec, given, delayed, asleep>>

(* Lines 385-389.                                                          *)
SignalOutput(t) ==
  /\ wpc[t] = "signal"
  /\ Signal(OutputWaiters(t))
  /\ mutex' = [mutex EXCEPT ![t] = "free"]
  /\ wpc' = [wpc EXCEPT ![t] = "top"]
  /\ UNCHANGED <<cpc, client, state, buffer_mutex, codec, given, delayed>>

Worker(t) ==
  \/ Top(t) \/ Input(t) \/ Check(t) \/ Begin(t)
  \/ CodecFinishesSetup(t) \/ RequestBuffer(t) \/ SignalRequest(t) \/ BufferGranted(t)
  \/ GetBufferReturns(t) \/ ReleaseBuffer(t) \/ AwaitProgress(t) \/ ReportProgress(t)
  \/ Return(t) \/ SetReady(t) \/ SignalOutput(t)

------------------------------------------------------------------------------
(* ff_thread_decode_frame and submit_packet.  While cpc = "user" the       *)
(* client's settings are copied into the worker's context, without a lock. *)
Submits == size \/ CapDelay

Decode ==
  /\ cpc = "idle"
  /\ size' \in BOOLEAN
  /\ size' \/ CapDelay => accepted < MaxPackets
  /\ cur' = next_decoding /\ finished' = next_finished
  /\ cpc' = "user"
  /\ UNCHANGED <<prev_thread, next_decoding, next_finished, delaying, die, state, mutex,
                 buffer_mutex, wpc, codec, given, delayed, asleep>>

UserUpdated ==
  /\ cpc = "user"
  /\ cpc' = IF Submits THEN "lock" ELSE "after"
  /\ UNCHANGED <<client, state, mutex, buffer_mutex, wpc, codec, given, delayed, asleep>>

LockWorker ==
  /\ cpc = "lock" /\ mutex[cur] = "free"
  /\ mutex' = [mutex EXCEPT ![cur] = "client"]
  /\ cpc' = "release"
  /\ UNCHANGED <<client, state, buffer_mutex, wpc, codec, given, delayed, asleep>>

(* release_delayed_buffers, lines 495-512.                                 *)
ReleaseDelayed ==
  /\ cpc = "release"
  /\ cur \in delayed => buffer_mutex = Nobody
  /\ delayed' = delayed \ {cur}
  /\ cpc' = IF prev_thread = Nobody THEN "fill" ELSE "prev"
  /\ UNCHANGED <<client, state, mutex, buffer_mutex, wpc, codec, given, asleep>>

(* Lines 526-533: wait until the worker before is done with its setup.     *)
PassPrevious ==                     \* without waiting
  /\ cpc = "prev"
  /\ cpc' = "update"
  /\ UNCHANGED <<client, state, mutex, buffer_mutex, wpc, codec, given, delayed, asleep>>

AwaitPrevious ==
  /\ cpc = "prev" /\ Awake(Client)
  /\ IF state[prev_thread] = "setup"
     THEN asleep' = asleep \cup {Client} /\ UNCHANGED cpc
     ELSE cpc' = "update" /\ UNCHANGED asleep
  /\ UNCHANGED <<client, state, mutex, buffer_mutex, wpc, codec, given, delayed>>

(* Lines 535-539.  While cpc = "update" the context is being copied.       *)
Updated ==
  /\ cpc = "update"
  /\ cpc' = "fill"
  /\ UNCHANGED <<client, state, mutex, buffer_mutex, wpc, codec, given, delayed, asleep>>

UpdateFails ==
  /\ cpc = "update" /\ UpdatesContext
  /\ mutex' = [mutex EXCEPT ![cur] = "free"]
  /\ cpc' = "idle" /\ size' = FALSE
  /\ UNCHANGED <<cur, finished, prev_thread, next_decoding, next_finished, delaying, die, state,
                 buffer_mutex, wpc, codec, given, delayed, asleep>>

(* Lines 542-555.                                                          *)
Fill ==
  /\ cpc = "fill"
  /\ accepted' = accepted + 1
  /\ packet' = [packet EXCEPT ![cur] = accepted + 1]
  /\ ref' = [ref EXCEPT ![cur] =
               [packet |-> IF prev_thread = Nobody THEN 0 ELSE packet[prev_thread],
                owner  |-> prev_thread]]
  /\ progress' = [progress EXCEPT ![cur] = ~UpdatesContext]
  /\ pending' = pending \cup {cur}
  /\ state' = [state EXCEPT ![cur] = "setup"]
  /\ Signal(InputWaiters(cur))
  /\ mutex' = [mutex EXCEPT ![cur] = "free"]
  /\ cpc' = IF NeedsCallback THEN "callback" ELSE "after"
  /\ UNCHANGED <<client, buffer_mutex, wpc, out, requests, setup, delivered, delayed>>

(* Lines 563-580: serve get_buffer() until the setup is over.              *)
CallbackOnce ==                     \* tests the state once, after the first wake-up
  /\ cpc = "callback" /\ Awake(Client)
  /\ \/ /\ state[cur] # "buffer"
        /\ cpc' = "after"
        /\ UNCHANGED <<state, asleep>>
     \/ /\ state[cur] = "buffer"
        /\ state' = [state EXCEPT ![cur] = "setup"]
        /\ Signal(ProgressWaiters(cur))
        /\ UNCHANGED cpc
  /\ UNCHANGED <<client, mutex, buffer_mutex, wpc, codec, given, delayed>>

CallbackQuietly ==                  \* grants the buffer without a signal
  /\ cpc = "callback" /\ Awake(Client)
  /\ \/ /\ state[cur] \in {"set", "ready"}
        /\ cpc' = "after"
        /\ UNCHANGED <<state, asleep>>
     \/ /\ state[cur] = "setup"
        /\ asleep' = asleep \cup {Client}
        /\ UNCHANGED <<cpc, state>>
     \/ /\ state[cur] = "buffer"
        /\ state' = [state EXCEPT ![cur] = "setup"]
        /\ UNCHANGED <<cpc, asleep>>
  /\ UNCHANGED <<client, mutex, buffer_mutex, wpc, codec, given, delayed>>

Callback ==
  /\ cpc = "callback" /\ Awake(Client)
  /\ \/ /\ state[cur] \in {"set", "ready"}
        /\ cpc' = "after"
        /\ UNCHANGED <<state, asleep>>
     \/ /\ state[cur] = "setup"
        /\ asleep' = asleep \cup {Client}
        /\ UNCHANGED <<cpc, state>>
     \/ /\ state[cur] = "buffer"
        /\ state' = [state EXCEPT ![cur] = "setup"]
        /\ Signal(ProgressWaiters(cur))
        /\ UNCHANGED cpc
  /\ UNCHANGED <<client, mutex, buffer_mutex, wpc, codec, given, delayed>>

(* The indices of the ring (lines 648 and 655).                            *)
Wrap(t)  == IF t >= ThreadCount THEN 0 ELSE t
After(t) == Wrap(t + 1)

(* Lines 582-583 and 611-617.                                              *)
SubmittedLate ==                    \* waits for one packet more than it may
  /\ cpc = "after"
  /\ LET next == IF Submits THEN next_decoding + 1 ELSE next_decoding
     IN  /\ next_decoding' = Wrap(next)
         /\ delaying' = (delaying /\ next < ThreadCount)
  /\ prev_thread' = IF Submits THEN cur ELSE prev_thread
  /\ IF delaying /\ size THEN cpc' = "idle" /\ size' = FALSE
                         ELSE cpc' = "collect" /\ UNCHANGED size
  /\ UNCHANGED <<cur, finished, next_finished, die,
                 state, mutex, buffer_mutex, wpc, codec, given, delayed, asleep>>

Submitted ==
  /\ cpc = "after"
  /\ LET next == IF Submits THEN next_decoding + 1 ELSE next_decoding
     IN  /\ next_decoding' = next
         /\ delaying' = (delaying /\ next < ThreadCount - 1)
  /\ prev_thread' = IF Submits THEN cur ELSE prev_thread
  /\ IF delaying /\ size THEN cpc' = "idle" /\ size' = FALSE
                         ELSE cpc' = "collect" /\ UNCHANGED size
  /\ UNCHANGED <<cur, finished, next_finished, die,
                 state, mutex, buffer_mutex, wpc, codec, given, delayed, asleep>>

(* Lines 627-658: take the frame of the worker at finished.                *)
CollectedNoWrap ==                  \* forgets that the ring ends
  /\ delivered' = IF out[finished] = "frame" THEN packet[finished] ELSE delivered
  /\ pending' = pending \ {finished}
  /\ out' = [out EXCEPT ![finished] = IF @ = "error" THEN @ ELSE "none"]
  /\ finished' = After(finished)
  /\ IF ~size /\ out[finished] # "frame" /\ After(finished) # next_finished
     THEN UNCHANGED <<cpc, size, next_decoding, next_finished>>
     ELSE /\ cpc' = "idle" /\ size' = FALSE
          /\ next_decoding' = next_decoding
          /\ next_finished' = After(finished)

CollectedDrainsOne ==               \* steps over a worker when it drains
  /\ delivered' = IF out[finished] = "frame" THEN packet[finished] ELSE delivered
  /\ pending' = pending \ {finished}
  /\ out' = [out EXCEPT ![finished] = IF @ = "error" THEN @ ELSE "none"]
  /\ finished' = After(finished)
  /\ cpc' = "idle" /\ size' = FALSE
  /\ next_decoding' = Wrap(next_decoding)
  /\ next_finished' = IF size THEN After(finished) ELSE After(After(finished))

Collected ==
  /\ delivered' = IF out[finished] = "frame" THEN packet[finished] ELSE delivered
  /\ pending' = pending \ {finished}
  /\ out' = [out EXCEPT ![finished] = IF @ = "error" THEN @ ELSE "none"]
  /\ finished' = After(finished)
  /\ IF ~size /\ out[finished] # "frame" /\ After(finished) # next_finished
     THEN UNCHANGED <<cpc, size, next_decoding, next_finished>>
     ELSE /\ cpc' = "idle" /\ size' = FALSE
          /\ next_decoding' = Wrap(next_decoding)
          /\ next_finished' = After(finished)

AwaitOutput ==
  /\ state[finished] # "ready"
  /\ asleep' = asleep \cup {Client}

Collect ==
  /\ cpc = "collect" /\ Awake(Client)
  /\ \/ AwaitOutput /\ UNCHANGED <<cpc, size, finished, next_decoding, next_finished,
                                   out, pending, delivered>>
     \/ state[finished] = "ready" /\ Collected /\ UNCHANGED asleep
  /\ UNCHANGED <<cur, prev_thread, delaying, die, state, mutex, buffer_mutex, wpc,
                 setup, requests, progress, packet, ref, accepted, delayed>>

------------------------------------------------------------------------------
(* ff_thread_flush and frame_thread_free begin by waiting for every worker *)
(* in turn (park_frame_worker_threads, lines 708-723).                     *)
StartParking ==
  /\ cpc = "idle"
  /\ cpc' \in {"flush", "free"}
  /\ finished' = 0
  /\ UNCHANGED <<size, cur, prev_thread, next_decoding, next_finished, delaying, die, state,
                 mutex, buffer_mutex, wpc, codec, given, delayed, asleep>>

Park ==
  /\ cpc \in {"flush", "free"} /\ Awake(Client)
  /\ \/ AwaitOutput /\ UNCHANGED finished
     \/ /\ state[finished] = "ready" /\ finished < ThreadCount - 1
        /\ finished' = finished + 1
        /\ UNCHANGED asleep
  /\ UNCHANGED <<cpc, size, cur, prev_thread, next_decoding, next_finished, delaying, die,
                 state, mutex, buffer_mutex, wpc, codec, given, delayed>>

AllParked == finished = ThreadCount - 1 /\ state[finished] = "ready" /\ Awake(Client)

(* Lines 880-896.  got_frame is cleared, the frame stays in p->frame.      *)
Flush ==
  /\ cpc = "flush" /\ AllParked
  /\ next_decoding' = 0 /\ next_finished' = 0 /\ delaying' = TRUE /\ prev_thread' = Nobody
  /\ out' = [t \in Threads |-> IF out[t] = "frame" THEN "stale" ELSE out[t]]
  /\ pending' = {} /\ delayed' = {}
  /\ cpc' = "idle"
  /\ UNCHANGED <<size, cur, finished, die, state, mutex, buffer_mutex, wpc,
                 setup, requests, progress, packet, ref, accepted, delivered, asleep>>

(* Lines 736-746: die is set without a lock, then each worker is woken and *)
(* joined.                                                                 *)
Die ==
  /\ cpc = "free" /\ AllParked
  /\ die' = TRUE /\ finished' = 0
  /\ cpc' = "kill"
  /\ UNCHANGED <<size, cur, prev_thread, next_decoding, next_finished, delaying, state,
                 mutex, buffer_mutex, wpc, codec, given, delayed, asleep>>

WakeToDie ==
  /\ cpc = "kill" /\ mutex[finished] = "free"
  /\ Signal(InputWaiters(finished))
  /\ cpc' = "join"
  /\ UNCHANGED <<client, state, mutex, buffer_mutex, wpc, codec, given, delayed>>

Join ==
  /\ cpc = "join" /\ wpc[finished] = "exited"
  /\ delayed' = delayed \ {finished}
  /\ finished' = After(finished)
  /\ cpc' = IF finished = ThreadCount - 1 THEN "freed" ELSE "kill"
  /\ UNCHANGED <<size, cur, prev_thread, next_decoding, next_finished, delaying, die, state,
                 mutex, buffer_mutex, wpc, codec, given, asleep>>

Call == Decode \/ StartParking

InCall ==
  \/ UserUpdated \/ LockWorker \/ ReleaseDelayed \/ AwaitPrevious \/ Updated \/ UpdateFails
  \/ Fill \/ Callback \/ Submitted \/ Collect
  \/ Park \/ Flush \/ Die \/ WakeToDie \/ Join

Next == Call \/ InCall \/ \E t \in Threads : Worker(t)

Spec == Init /\ [][Next]_vars

(* Every worker is scheduled and the codec's decode() does not run forever; *)
(* the client finishes the call it is in and calls when it likes.          *)
Fairness == WF_vars(InCall) /\ \A t \in Threads : WF_vars(Worker(t))

FairSpec == Spec /\ Fairness

------------------------------------------------------------------------------
(* Packets leave in the order they were submitted, none is overwritten     *)
(* before it was collected (multithreading.txt:9-12): the ring of workers  *)
(* with its two indices implements a queue.                                *)
Line == INSTANCE FrameQueue WITH
          Depth <- ThreadCount, line <- {packet[t] : t \in pending}

ImplementsFrameQueue == Line!Spec

(* "There is one frame of delay added for every thread beyond the first    *)
(* one" (multithreading.txt:25), and never more, drained or not.           *)
DelayBound == cpc = "idle" => Cardinality(pending) < ThreadCount

(* A context is never copied into while its worker decodes, although line  *)
(* 602 copies without a lock, and never copied from before the setup of    *)
(* the packet its worker decodes was declared over (lines 526-535).  For a *)
(* codec with update_thread_context that is enough: it promises to change  *)
(* nothing afterwards that is copied (thread.h:66-69).  One without        *)
(* promises nothing, and lines 369-370 declare its setup over before       *)
(* decode(): what decode() writes to width, height or pix_fmt may be       *)
(* copied (lines 410-432) while it is written.                             *)
InDecode(t) == wpc[t] \in {"codec", "request", "granted", "got", "await"}

ContextsAreQuiet ==
  /\ cpc \in {"user", "update", "fill"} => ~InDecode(cur)
  /\ cpc = "update" /\ InDecode(prev_thread) => state[prev_thread] = "set"

(* With thread_safe_callbacks the client, when it submits a packet, does   *)
(* not wait for the decode() of the packet before if the codec hands no    *)
(* context on: that setup is over before decode() is entered, and whoever  *)
(* already waits is woken (lines 369-370, 528-533, 646-659).               *)
SafeNeverWaits ==
  SafeCallbacks /\ ~UpdatesContext /\ cpc = "prev" /\ Client \in asleep =>
    ~InDecode(prev_thread)

(* The client is told of every buffer the decoder no longer needs          *)
(* (avcodec.h:3353-3355): no frame is still held by a worker that clears   *)
(* its AVFrame (lines 373, 789-795 of utils.c) to decode the next packet.  *)
NoFrameForgotten ==
  [][\A t \in Threads : wpc[t] = "lock" /\ wpc'[t] = "codec" => out[t] \notin {"frame", "stale"}]_vars

(* Which threads have a step to take: they are not asleep and the mutex    *)
(* they need next is free.  codec is not a wait: decode() can go on.       *)
CanStep(t) ==
  \/ wpc[t] \in {"top", "check", "codec", "request", "got", "returned", "signal"}
  \/ wpc[t] \in {"input", "lock"} /\ mutex[t] = "free" /\ Awake(t)
  \/ wpc[t] \in {"granted", "await"} /\ Awake(t)

ClientCanStep ==
  \/ cpc \in {"user", "update", "fill", "after"}
  \/ cpc = "lock" /\ mutex[cur] = "free"
  \/ cpc = "release" /\ (cur \in delayed => buffer_mutex = Nobody)
  \/ cpc \in {"prev", "callback", "collect", "flush", "free"} /\ Awake(Client)
  \/ cpc = "kill" /\ mutex[finished] = "free"
  \/ cpc = "join" /\ wpc[finished] = "exited"

(* No wake-up is missed and nobody waits on everybody, the safety behind   *)
(* the two properties below.  As long as a packet is not decoded, a worker *)
(* that has one can go on, or the client is about to serve one that wants  *)
(* a buffer; and in a call the client can go on, or a worker can.          *)
NobodyStranded ==
  /\ (\E t \in Threads : state[t] # "ready") =>
       \/ \E t \in Threads : state[t] # "ready" /\ CanStep(t)
       \/ cpc = "callback" /\ Awake(Client)
  /\ cpc \notin {"idle", "freed"} => ClientCanStep \/ \E t \in Threads : CanStep(t)

(* Every call of the client returns.                                       *)
CallsReturn == cpc \notin {"idle", "freed"} ~> cpc \in {"idle", "freed"}

(* A packet is decoded even if the client does not call again.             *)
DecodesFinish == \A t \in Threads : state[t] # "ready" ~> state[t] = "ready"
==============================================================================
