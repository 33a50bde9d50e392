------------------------- MODULE FrameThreadsProofs --------------------------
(***************************************************************************)
(* Proofs about frame threading, for any number of workers, packets and    *)
(* buffer requests and any kinds of codec and client: the inductive        *)
(* invariant, and from it that contexts are copied only once the setup is  *)
(* over, that no more packets wait than there is room for, that the ring   *)
(* of workers implements the queue of FrameQueue, and that nobody is left  *)
(* asleep.                                                                 *)
(***************************************************************************)
EXTENDS FrameThreads, FiniteSetTheorems, WellFoundedInduction, TLAPS

(* The slots of the ring from f up to and without e; none if f = e.        *)
Between(f, t, e) ==
  IF f <= e THEN f <= t /\ t < e ELSE f <= t \/ t < e

(* Where the client's call is.                                             *)
Submitting == {"lock", "release", "prev", "update", "fill"}
Holding    == {"release", "prev", "update", "fill"}
Deciding   == {"user", "after"} \cup Submitting \cup {"callback"}
HasSubmitted == cpc = "callback" \/ (cpc \in {"after", "collect"} /\ Submits)
Waiting    == {"prev", "callback", "collect", "flush", "free"}

(* The end of the line: the packet of the present call is not counted.     *)
LineEnd == IF cpc = "collect" THEN cur ELSE next_decoding

(* The indices of the ring, in the call and between the calls.             *)
Indices ==
  /\ cpc # "collect" => next_decoding \in Threads
  /\ cpc \in Deciding => cur = next_decoding /\ finished = next_finished
  /\ cpc = "collect" => next_decoding = IF Submits THEN cur + 1 ELSE cur
  /\ cpc \in Submitting \cup {"callback"} => Submits
  /\ cpc \in Submitting \cup {"user"} /\ Submits => accepted < MaxPackets
  /\ delaying => next_finished <= LineEnd /\ next_decoding < ThreadCount - 1
  /\ delaying /\ cpc = "collect" => ~size

(* The slot of the last packet accepted, and how many came after that in t.*)
Last   == IF HasSubmitted THEN cur ELSE LineEnd - 1
Age(t) == IF t <= Last THEN Last - t ELSE Last - t + ThreadCount

(* The packets that were not collected lie between the two indices, in the *)
(* order they came; a drain leaves none behind it.                         *)
InLine(t) ==
  /\ Between(next_finished, t, LineEnd) \/ (HasSubmitted /\ t = cur)
  /\ cpc = "collect" => ~Between(next_finished, t, finished)
  /\ packet[t] = accepted - Age(t)

Ring == \A t \in pending : InLine(t)

(* What each worker is at, which state its slot is in and who holds its    *)
(* mutex.                                                                  *)
States(t) ==
  /\ wpc[t] \in {"top", "input"} => state[t] \in {"ready", "setup"}
  /\ wpc[t] = "check" => state[t] = "setup" \/ (state[t] = "ready" /\ die)
  /\ wpc[t] \in {"lock", "codec", "await"} => state[t] \in {"setup", "set"}
  /\ wpc[t] \in {"request", "granted"} => state[t] \in {"setup", "buffer"}
  /\ wpc[t] = "got" => state[t] = "setup"
  /\ wpc[t] = "returned" => state[t] = "set"
  /\ wpc[t] \in {"signal", "exited"} => state[t] = "ready"
  /\ wpc[t] = "exited" => die
  /\ state[t] = "buffer" => wpc[t] \in {"request", "granted"}
  /\ wpc[t] \in {"request", "granted", "got"} => NeedsCallback
  /\ NeedsCallback /\ state[t] \in {"setup", "buffer"} => cpc = "callback" /\ cur = t
  /\ ~UpdatesContext /\ SafeCallbacks /\ (wpc[t] = "lock" \/ InDecode(t)) => state[t] = "set"

Mutexes(t) ==
  /\ mutex[t] = "worker" <=> InDecode(t) \/ wpc[t] \in {"returned", "signal"}
  /\ mutex[t] = "client" <=> cpc \in Holding /\ t = cur

(* Only a packet that was not collected is decoded or has a frame.         *)
Outstanding(t) == state[t] # "ready" \/ out[t] = "frame" => t \in pending

Workers == \A t \in Threads : States(t) /\ Mutexes(t) /\ Outstanding(t)

(* What the client waits for, and what it has waited for.                  *)
ClientWaits ==
  /\ Client \in asleep => cpc \in Waiting
  /\ cpc \in {"prev", "update"} => prev_thread \in Threads
  /\ cpc = "prev" /\ Client \in asleep => state[prev_thread] = "setup"
  /\ cpc = "update" => state[prev_thread] # "setup"
  /\ cpc = "callback" => NeedsCallback
  /\ cpc \in {"flush", "free"} => \A t \in Threads : t < finished => state[t] = "ready"
  /\ die => \A t \in Threads : state[t] = "ready"
  /\ die <=> cpc \in {"kill", "join", "freed"}

IInv == TypeOK /\ Indices /\ Ring /\ Workers /\ ClientWaits

(* A wake-up puts nobody to sleep.                                         *)
LEMMA SignalWakes == ASSUME NEW W PROVE \A s \in Signalled(W) : s \subseteq asleep
  BY DEF Signalled

(* The parts of TypeOK.                                                    *)
Scalars ==
  /\ setup \in Setups
  /\ cpc \in ClientLabels /\ size \in BOOLEAN /\ cur \in Threads /\ finished \in Threads
  /\ prev_thread \in Threads \cup {Nobody}
  /\ next_decoding \in 0 .. ThreadCount /\ next_finished \in Threads
  /\ delaying \in BOOLEAN /\ die \in BOOLEAN
  /\ accepted \in 0 .. MaxPackets /\ delivered \in 0 .. MaxPackets
Slots ==
  /\ state \in [Threads -> {"ready", "setup", "buffer", "set"}]
  /\ mutex \in [Threads -> {"free", "client", "worker"}]
  /\ wpc \in [Threads -> WorkerLabels]
  /\ out \in [Threads -> {"none", "frame", "error", "stale"}]
  /\ requests \in [Threads -> 0 .. MaxRequests]
  /\ packet \in [Threads -> 0 .. MaxPackets]
  /\ progress \in [Threads -> BOOLEAN]
Refs ==
  ref \in [Threads -> [packet : 0 .. MaxPackets, owner : Threads \cup {Nobody}]]
Sleepers ==
  /\ buffer_mutex \in Threads \cup {Nobody}
  /\ delayed \subseteq Threads /\ pending \subseteq Threads
  /\ asleep \subseteq Threads \cup {Client}

(* A step of a worker keeps the types.                                     *)
LEMMA WorkerSlots ==
  ASSUME Slots, NEW t \in Threads, Worker(t)
  PROVE  Slots'
<1> USE DEF client, codec, given, Slots, WorkerLabels
<1>1. CASE Top(t)
  BY <1>1 DEF Top
<1>2. CASE Input(t)
  <2>1. /\ wpc' \in {wpc, [wpc EXCEPT ![t] = "check"]}
        /\ UNCHANGED <<state, mutex, out, requests, packet, progress>>
    BY <1>2 DEF Input
  <2>2. QED
    BY <2>1
<1>3. CASE Check(t)
  BY <1>3 DEF Check, FinishSetup
<1>4. CASE Begin(t)
  BY <1>4, FrameAssumption DEF Begin
<1>5. CASE CodecFinishesSetup(t)
  BY <1>5 DEF CodecFinishesSetup, FinishSetup
<1>6. CASE RequestBuffer(t)
  BY <1>6, FrameAssumption DEF RequestBuffer
<1>7. CASE SignalRequest(t)
  <2>1. /\ wpc' \in {[wpc EXCEPT ![t] = "granted"], [wpc EXCEPT ![t] = "got"]}
        /\ UNCHANGED <<state, mutex, out, requests, packet, progress>>
    BY <1>7 DEF SignalRequest, AwaitBuffer
  <2>2. QED
    BY <2>1
<1>8. CASE BufferGranted(t)
  <2>1. /\ wpc' \in {[wpc EXCEPT ![t] = "granted"], [wpc EXCEPT ![t] = "got"]}
        /\ UNCHANGED <<state, mutex, out, requests, packet, progress>>
    BY <1>8 DEF BufferGranted, AwaitBuffer
  <2>2. QED
    BY <2>1
<1>9. CASE GetBufferReturns(t)
  BY <1>9 DEF GetBufferReturns, FinishSetup
<1>10. CASE ReleaseBuffer(t)
  BY <1>10 DEF ReleaseBuffer
<1>11. CASE AwaitProgress(t)
  BY <1>11 DEF AwaitProgress
<1>12. CASE ReportProgress(t)
  BY <1>12 DEF ReportProgress
<1>13. CASE Return(t)
  <2>1. PICK o \in Outcomes : out' = [out EXCEPT ![t] = o]
    BY <1>13 DEF Return
  <2>2. o \in {"none", "frame", "error"}
    BY FrameAssumption
  <2>3. out' \in [Threads -> {"none", "frame", "error", "stale"}]
    BY <2>1, <2>2
  <2>4. /\ wpc' = [wpc EXCEPT ![t] = "returned"]
        /\ state' \in {state, [state EXCEPT ![t] = "set"]}
        /\ UNCHANGED <<mutex, requests, packet, progress>>
    BY <1>13 DEF Return, FinishSetup
  <2>5. QED
    BY <2>3, <2>4
<1>14. CASE SetReady(t)
  BY <1>14 DEF SetReady
<1>15. CASE SignalOutput(t)
  BY <1>15 DEF SignalOutput
<1>16. QED
  BY <1>1, <1>2, <1>3, <1>4, <1>5, <1>6, <1>7, <1>8, <1>9, <1>10, <1>11, <1>12, <1>13,
       <1>14, <1>15 DEF Worker

(* It adds nobody to the sleepers but itself.                              *)
LEMMA WorkerSleepers ==
  ASSUME Sleepers, NEW t \in Threads, Worker(t)
  PROVE  Sleepers'
<1> USE FrameAssumption DEF Threads, Nobody, Client, client, codec, given, Sleepers
<1>1. CASE Top(t)
  BY <1>1, SignalWakes DEF Top, Broadcast, Signal
<1>2. CASE Input(t)
  <2>1. asleep' \in {asleep, asleep \cup {t}}
    BY <1>2 DEF Input
  <2>2. QED
    BY <1>2, <2>1 DEF Input
<1>3. CASE Check(t)
  BY <1>3, SignalWakes DEF Check, FinishSetup, Broadcast, Signal
<1>4. CASE Begin(t)
  BY <1>4, SignalWakes DEF Begin, Broadcast, Signal
<1>5. CASE CodecFinishesSetup(t)
  BY <1>5, SignalWakes DEF CodecFinishesSetup, FinishSetup, Broadcast, Signal
<1>6. CASE RequestBuffer(t)
  BY <1>6, SignalWakes DEF RequestBuffer, Broadcast, Signal
<1>7. CASE SignalRequest(t)
  BY <1>7, SignalWakes DEF SignalRequest, AwaitBuffer, Broadcast, Signal
<1>8. CASE BufferGranted(t)
  <2>1. asleep' \in {asleep, asleep \cup {t}}
    BY <1>8 DEF BufferGranted, AwaitBuffer
  <2>2. QED
    BY <1>8, <2>1 DEF BufferGranted
<1>9. CASE GetBufferReturns(t)
  BY <1>9, SignalWakes DEF GetBufferReturns, FinishSetup, Broadcast, Signal
<1>10. CASE ReleaseBuffer(t)
  BY <1>10, SignalWakes DEF ReleaseBuffer, Broadcast, Signal
<1>11. CASE AwaitProgress(t)
  BY <1>11, SignalWakes DEF AwaitProgress, Broadcast, Signal
<1>12. CASE ReportProgress(t)
  BY <1>12, SignalWakes DEF ReportProgress, Broadcast, Signal
<1>13. CASE Return(t)
  BY <1>13, SignalWakes DEF Return, FinishSetup, Broadcast, Signal
<1>14. CASE SetReady(t)
  BY <1>14, SignalWakes DEF SetReady, Broadcast, Signal
<1>15. CASE SignalOutput(t)
  BY <1>15, SignalWakes DEF SignalOutput, Broadcast, Signal
<1>16. QED
  BY <1>1, <1>2, <1>3, <1>4, <1>5, <1>6, <1>7, <1>8, <1>9, <1>10, <1>11, <1>12, <1>13,
       <1>14, <1>15 DEF Worker

(* A step of the client keeps the types of what it alone writes,           *)
LEMMA ClientScalars ==
  ASSUME Scalars, Slots, Indices, ClientWaits, Call \/ InCall
  PROVE  Scalars'
<1> USE FrameAssumption DEF Threads, Nobody, Client, client, codec, given, Scalars, Slots,
      Indices, ClientLabels, Deciding, Submitting, Submits
<1>1. CASE Decode
  BY <1>1 DEF Decode, Submits, Wrap, After
<1>2. CASE StartParking
  BY <1>2 DEF StartParking, Wrap, After
<1>3. CASE UserUpdated
  BY <1>3 DEF UserUpdated, Submits, Wrap, After
<1>4. CASE LockWorker
  BY <1>4 DEF LockWorker, Wrap, After
<1>5. CASE ReleaseDelayed
  BY <1>5 DEF ReleaseDelayed, Wrap, After
<1>6. CASE AwaitPrevious
  BY <1>6 DEF AwaitPrevious, Wrap, After
<1>7. CASE Updated
  BY <1>7 DEF Updated, Wrap, After
<1>8. CASE UpdateFails
  BY <1>8 DEF UpdateFails, Wrap, After
<1>9. CASE Fill
  BY <1>9 DEF Fill, Wrap, After
<1>10. CASE Callback
  BY <1>10 DEF Callback, Wrap, After
<1>11. CASE Submitted
  <2>1. delaying' \in BOOLEAN
    BY <1>11, Zenon DEF Submitted
  <2>2. next_decoding' \in 0 .. ThreadCount
    BY <1>11 DEF Submitted
  <2>3. QED
    BY <1>11, <2>1, <2>2 DEF Submitted
<1>12. CASE Collect
  <2>1. CASE AwaitOutput
    BY <1>12, <2>1 DEF Collect, AwaitOutput
  <2>2. CASE Collected
    <3>1. After(finished) \in Threads /\ Wrap(next_decoding) \in 0 .. ThreadCount
      BY DEF After, Wrap
    <3>2. UNCHANGED <<cur, prev_thread, delaying, die, setup, accepted>>
      BY <1>12 DEF Collect
    <3>3. /\ finished' \in Threads /\ next_finished' \in Threads
          /\ next_decoding' \in 0 .. ThreadCount
      BY <1>12, <2>2, <3>1 DEF Collect, Collected
    <3>4. delivered' \in 0 .. MaxPackets
      BY <2>2 DEF Collected, Slots
    <3>5. cpc' \in ClientLabels /\ size' \in BOOLEAN
      BY <2>2 DEF Collected
    <3>6. QED
      BY <3>2, <3>3, <3>4, <3>5
  <2>3. QED
    BY <1>12, <2>1, <2>2 DEF Collect
<1>13. CASE Park
  BY <1>13 DEF Park, AwaitOutput, Wrap, After
<1>14. CASE Flush
  BY <1>14 DEF Flush, AllParked, Wrap, After
<1>15. CASE Die
  BY <1>15 DEF Die, AllParked, Wrap, After
<1>16. CASE WakeToDie
  BY <1>16 DEF WakeToDie, Wrap, After
<1>17. CASE Join
  BY <1>17 DEF Join, Wrap, After
<1>18. QED
  BY <1>1, <1>2, <1>3, <1>4, <1>5, <1>6, <1>7, <1>8, <1>9, <1>10, <1>11, <1>12, <1>13,
       <1>14, <1>15, <1>16, <1>17 DEF Call, InCall

(* of the slots,                                                           *)
LEMMA ClientSlots ==
  ASSUME Scalars, Slots, Indices, Call \/ InCall
  PROVE  Slots'
<1> USE DEF client, codec, given, Slots, Scalars
<1>1. CASE Decode
  BY <1>1 DEF Decode, Submits
<1>2. CASE StartParking
  BY <1>2 DEF StartParking
<1>3. CASE UserUpdated
  BY <1>3 DEF UserUpdated, Submits
<1>4. CASE LockWorker
  BY <1>4 DEF LockWorker
<1>5. CASE ReleaseDelayed
  BY <1>5 DEF ReleaseDelayed
<1>6. CASE AwaitPrevious
  BY <1>6 DEF AwaitPrevious
<1>7. CASE Updated
  BY <1>7 DEF Updated
<1>8. CASE UpdateFails
  BY <1>8 DEF UpdateFails
<1>9. CASE Fill
  <2>1. /\ packet' = [packet EXCEPT ![cur] = accepted + 1]
        /\ progress' = [progress EXCEPT ![cur] = ~UpdatesContext]
        /\ state' = [state EXCEPT ![cur] = "setup"]
        /\ mutex' = [mutex EXCEPT ![cur] = "free"]
        /\ UNCHANGED <<wpc, out, requests>>
    BY <1>9 DEF Fill
  <2>2. accepted + 1 \in 0 .. MaxPackets /\ (~UpdatesContext) \in BOOLEAN
    BY <1>9, FrameAssumption DEF Fill, Indices, Submitting, Submits, CapDelay
  <2>3. QED
    BY <2>1, <2>2
<1>10. CASE Callback
  BY <1>10 DEF Callback
<1>11. CASE Submitted
  BY <1>11 DEF Submitted, Submits
<1>12. CASE Collect
  <2>1. UNCHANGED <<state, mutex, wpc, requests, packet, progress>>
    BY <1>12 DEF Collect
  <2>2. out' = out \/ out' = [out EXCEPT ![finished] = IF @ = "error" THEN @ ELSE "none"]
    BY <1>12 DEF Collect, Collected
  <2>3. QED
    BY <2>1, <2>2
<1>13. CASE Park
  BY <1>13 DEF Park, AwaitOutput
<1>14. CASE Flush
  BY <1>14 DEF Flush, AllParked
<1>15. CASE Die
  BY <1>15 DEF Die, AllParked
<1>16. CASE WakeToDie
  BY <1>16 DEF WakeToDie
<1>17. CASE Join
  BY <1>17 DEF Join
<1>18. QED
  BY <1>1, <1>2, <1>3, <1>4, <1>5, <1>6, <1>7, <1>8, <1>9, <1>10, <1>11, <1>12, <1>13,
       <1>14, <1>15, <1>16, <1>17 DEF Call, InCall

(* of the references between frames,                                       *)
LEMMA ClientRefs ==
  ASSUME Scalars, Slots, Refs, Call \/ InCall
  PROVE  Refs'
<1> USE FrameAssumption DEF Threads, Nobody, Client, client, codec, given, Refs, Slots,
      Scalars
<1>1. CASE Decode
  BY <1>1 DEF Decode, Submits, Wrap, After
<1>2. CASE StartParking
  BY <1>2 DEF StartParking, Wrap, After
<1>3. CASE UserUpdated
  BY <1>3 DEF UserUpdated, Submits, Wrap, After
<1>4. CASE LockWorker
  BY <1>4 DEF LockWorker, Wrap, After
<1>5. CASE ReleaseDelayed
  BY <1>5 DEF ReleaseDelayed, Wrap, After
<1>6. CASE AwaitPrevious
  BY <1>6 DEF AwaitPrevious, Wrap, After
<1>7. CASE Updated
  BY <1>7 DEF Updated, Wrap, After
<1>8. CASE UpdateFails
  BY <1>8 DEF UpdateFails, Wrap, After
<1>9. CASE Fill
  <2>1. /\ prev_thread \in Threads => packet[prev_thread] \in 0 .. MaxPackets
        /\ prev_thread # Nobody => prev_thread \in Threads
        /\ 0 \in 0 .. MaxPackets
    OBVIOUS
  <2>2. [packet |-> IF prev_thread = Nobody THEN 0 ELSE packet[prev_thread],
         owner  |-> prev_thread] \in [packet : 0 .. MaxPackets, owner : Threads \cup {Nobody}]
    BY <2>1
  <2>3. QED
    BY <1>9, <2>2 DEF Fill
<1>10. CASE Callback
  BY <1>10 DEF Callback, Wrap, After
<1>11. CASE Submitted
  BY <1>11 DEF Submitted, Submits, Wrap, After
<1>12. CASE Collect
  BY <1>12 DEF Collect, AwaitOutput, Collected, Submits, Wrap, After
<1>13. CASE Park
  BY <1>13 DEF Park, AwaitOutput, Wrap, After
<1>14. CASE Flush
  BY <1>14 DEF Flush, AllParked, Wrap, After
<1>15. CASE Die
  BY <1>15 DEF Die, AllParked, Wrap, After
<1>16. CASE WakeToDie
  BY <1>16 DEF WakeToDie, Wrap, After
<1>17. CASE Join
  BY <1>17 DEF Join, Wrap, After
<1>18. QED
  BY <1>1, <1>2, <1>3, <1>4, <1>5, <1>6, <1>7, <1>8, <1>9, <1>10, <1>11, <1>12, <1>13,
       <1>14, <1>15, <1>16, <1>17 DEF Call, InCall

(* and of the sets.                                                        *)
LEMMA ClientSleepers ==
  ASSUME Scalars, Sleepers, Call \/ InCall
  PROVE  Sleepers'
<1> USE FrameAssumption DEF Threads, Nobody, Client, client, codec, given, Sleepers, Scalars
<1>1. CASE Decode
  BY <1>1, SignalWakes DEF Decode, Submits, Broadcast, Signal
<1>2. CASE StartParking
  BY <1>2, SignalWakes DEF StartParking, Broadcast, Signal
<1>3. CASE UserUpdated
  BY <1>3, SignalWakes DEF UserUpdated, Submits, Broadcast, Signal
<1>4. CASE LockWorker
  BY <1>4, SignalWakes DEF LockWorker, Broadcast, Signal
<1>5. CASE ReleaseDelayed
  BY <1>5, SignalWakes DEF ReleaseDelayed, Broadcast, Signal
<1>6. CASE AwaitPrevious
  BY <1>6, SignalWakes DEF AwaitPrevious, Broadcast, Signal
<1>7. CASE Updated
  BY <1>7, SignalWakes DEF Updated, Broadcast, Signal
<1>8. CASE UpdateFails
  BY <1>8, SignalWakes DEF UpdateFails, Broadcast, Signal
<1>9. CASE Fill
  BY <1>9, SignalWakes DEF Fill, Broadcast, Signal
<1>10. CASE Callback
  BY <1>10, SignalWakes DEF Callback, Broadcast, Signal
<1>11. CASE Submitted
  BY <1>11, SignalWakes DEF Submitted, Submits, Broadcast, Signal
<1>12. CASE Collect
  BY <1>12, SignalWakes DEF Collect, AwaitOutput, Collected, Submits, Broadcast, Signal
<1>13. CASE Park
  BY <1>13, SignalWakes DEF Park, AwaitOutput, Broadcast, Signal
<1>14. CASE Flush
  BY <1>14, SignalWakes DEF Flush, AllParked, Broadcast, Signal
<1>15. CASE Die
  BY <1>15, SignalWakes DEF Die, AllParked, Broadcast, Signal
<1>16. CASE WakeToDie
  BY <1>16, SignalWakes DEF WakeToDie, Broadcast, Signal
<1>17. CASE Join
  BY <1>17, SignalWakes DEF Join, Broadcast, Signal
<1>18. QED
  BY <1>1, <1>2, <1>3, <1>4, <1>5, <1>6, <1>7, <1>8, <1>9, <1>10, <1>11, <1>12, <1>13,
       <1>14, <1>15, <1>16, <1>17 DEF Call, InCall

(* Arithmetic of the ring.  When the slot at g is left, what was not       *)
(* collected lies from the next one on, to the end of the line; n is where *)
(* the index points that wraps.                                            *)
LEMMA LineShrinks ==
  ASSUME NEW f \in Threads, NEW g \in Threads, NEW e \in Threads, NEW t \in Threads,
         NEW n \in 0 .. ThreadCount, t # g, ~Between(f, t, g),
         \/ Between(f, t, e) /\ n \in {e, e + 1}
         \/ n = e + 1 /\ t = e
  PROVE  /\ Between(After(g), t, Wrap(n))
         /\ After(g) # f
         /\ ~Between(f, t, After(g))
  BY FrameAssumption DEF After, Wrap, Between, Threads

(* Before a packet is submitted its slot is free ...                       *)
LEMMA CurIsReady ==
  ASSUME Scalars, Indices, Ring, Workers, cpc \in Submitting \cup {"user"}
  PROVE  cur \notin pending /\ state[cur] = "ready"
<1>1. /\ cur = next_decoding /\ next_decoding \in Threads
      /\ ~HasSubmitted /\ LineEnd = next_decoding
  BY DEF Indices, Submitting, Deciding, HasSubmitted, LineEnd
<1>2. next_finished \in Threads
  BY DEF Scalars
<1>3. \A t \in pending : Between(next_finished, t, cur)
  BY <1>1 DEF Ring, InLine
<1>4. cur \notin pending
  BY <1>1, <1>2, <1>3 DEF Between, Threads
<1>5. QED
  BY <1>1, <1>4 DEF Workers, Outstanding

(* ... and then the packet is the last of the line.                        *)
LEMMA FillRing ==
  ASSUME Scalars, Slots, Sleepers, Indices, Ring, Fill
  PROVE  Ring'
<1>1. /\ accepted' = accepted + 1 /\ packet' = [packet EXCEPT ![cur] = accepted + 1]
      /\ cpc = "fill" /\ cpc' \in {"callback", "after"} /\ pending' = pending \cup {cur}
      /\ UNCHANGED <<size, cur, finished, next_decoding, next_finished, setup>>
  BY DEF Fill, client
<1>2. /\ Submits /\ Submits' /\ cur = next_decoding /\ cur \in Threads
      /\ next_finished \in Threads /\ accepted \in Nat
  BY <1>1 DEF Indices, Submitting, Deciding, Submits, CapDelay, Scalars
<1>3. /\ LineEnd = cur /\ LineEnd' = cur /\ ~HasSubmitted /\ HasSubmitted'
      /\ Last = cur - 1 /\ Last' = cur
  BY <1>1, <1>2 DEF LineEnd, HasSubmitted, Last
<1>4. \A t \in pending : /\ Between(next_finished, t, cur) /\ t \in Threads
                         /\ packet[t] = accepted - Age(t)
  BY <1>3 DEF Ring, InLine, Sleepers
<1>5. \A t \in pending : t # cur /\ packet'[t] = packet[t] /\ Age(t)' = Age(t) + 1
  BY <1>1, <1>2, <1>3, <1>4, FrameAssumption DEF Age, Between, Threads
<1>6. packet'[cur] = accepted + 1 /\ Age(cur)' = 0
  BY <1>1, <1>2, <1>3 DEF Slots, Age, Threads
<1>7. \A t \in pending : Age(t) \in Int
  BY <1>2, <1>3, <1>4, FrameAssumption DEF Age, Threads
<1>8. (\A t \in pending : InLine(t))'
  BY <1>1, <1>2, <1>3, <1>4, <1>5, <1>6, <1>7 DEF InLine
<1>9. QED
  BY <1>8 DEF Ring

(* The call has submitted its packet: the index moves on, and the first    *)
(* packets are not waited for.                                             *)
LEMMA SubmittedRing ==
  ASSUME Scalars, Sleepers, Indices, Ring, Submitted
  PROVE  Indices' /\ Ring'
<1>1. /\ cpc = "after" /\ cur = next_decoding /\ finished = next_finished
      /\ cur \in Threads /\ next_finished \in Threads
  BY DEF Submitted, Indices, Deciding, Scalars
<1>2. /\ next_decoding' = (IF Submits THEN cur + 1 ELSE cur)
      /\ delaying' <=> delaying /\ next_decoding' < ThreadCount - 1
      /\ UNCHANGED <<cur, finished, next_finished, setup, accepted, pending, packet>>
  BY <1>1 DEF Submitted, given
<1>3. /\ delaying /\ size => cpc' = "idle" /\ size' = FALSE
      /\ ~(delaying /\ size) => cpc' = "collect" /\ size' = size
  BY DEF Submitted
<1>4. delaying => next_finished <= cur /\ cur < ThreadCount - 1
  BY <1>1 DEF Indices, LineEnd
<1>5. \A t \in pending : /\ t \in Threads /\ packet[t] = accepted - Age(t)
                         /\ Between(next_finished, t, cur) \/ (Submits /\ t = cur)
  BY <1>1 DEF Ring, InLine, HasSubmitted, LineEnd, Sleepers
<1>6. Last = next_decoding' - 1
  BY <1>1, <1>2 DEF Last, LineEnd, HasSubmitted, Threads
<1>7. CASE delaying /\ size
  <2>1. /\ cpc' = "idle" /\ next_decoding' \in Threads
        /\ ~HasSubmitted' /\ LineEnd' = next_decoding'
    BY <1>1, <1>2, <1>3, <1>4, <1>7, FrameAssumption DEF HasSubmitted, LineEnd, Threads
  <2>2. delaying' => next_finished' <= next_decoding' /\ next_decoding' < ThreadCount - 1
    BY <1>1, <1>2, <1>4 DEF Threads
  <2>3. Indices'
    BY <2>1, <2>2 DEF Indices, Deciding, Submitting
  <2>4. \A t \in pending : Between(next_finished, t, next_decoding')
    BY <1>1, <1>2, <1>4, <1>5, <1>7, FrameAssumption DEF Between, Threads
  <2>5. Last' = Last
    BY <1>6, <2>1 DEF Last
  <2>6. (\A t \in pending : InLine(t))'
    BY <1>2, <1>5, <2>1, <2>4, <2>5 DEF InLine, Age
  <2>7. QED
    BY <2>3, <2>6 DEF Ring
<1>8. CASE ~(delaying /\ size)
  <2>1. cpc' = "collect" /\ size' = size /\ (Submits' <=> Submits)
    BY <1>2, <1>3, <1>8 DEF Submits, CapDelay
  <2>2. LineEnd' = cur /\ (HasSubmitted' <=> Submits)
    BY <1>2, <2>1 DEF LineEnd, HasSubmitted
  <2>3. delaying' => next_finished' <= cur' /\ next_decoding' < ThreadCount - 1
    BY <1>1, <1>2, <1>4 DEF Threads
  <2>4. Indices'
    BY <1>2, <1>8, <2>1, <2>2, <2>3 DEF Indices, Deciding, Submitting
  <2>5. \A t \in pending : ~Between(next_finished, t, next_finished)
    BY <1>1, <1>5 DEF Between, Threads
  <2>6. Last' = Last
    BY <1>1, <1>2, <1>6, <2>2 DEF Last, Threads
  <2>7. (\A t \in pending : InLine(t))'
    BY <1>1, <1>2, <1>5, <2>1, <2>2, <2>5, <2>6 DEF InLine, Age
  <2>8. QED
    BY <2>4, <2>7 DEF Ring
<1>9. QED
  BY <1>7, <1>8

(* What the call collects is nothing or the slot that is next in the ring. *)
CollectStep ==
  LET last == size \/ out[finished] = "frame" \/ After(finished) = next_finished
  IN  /\ cpc = "collect"
      /\ pending' = pending \ {finished}
      /\ finished' = After(finished)
      /\ cpc' = (IF last THEN "idle" ELSE "collect")
      /\ size' = (IF last THEN FALSE ELSE size)
      /\ next_decoding' = (IF last THEN Wrap(next_decoding) ELSE next_decoding)
      /\ next_finished' = (IF last THEN After(finished) ELSE next_finished)
      /\ UNCHANGED <<cur, delaying, setup, packet, accepted, state, asleep>>

(* A step of Collect that does not put the client to sleep is such a step. *)
LEMMA CollectSteps ==
  ASSUME Collect
  PROVE  \/ CollectStep
         \/ UNCHANGED <<cpc, client, pending, packet, setup, accepted, state>>
  BY DEF Collect, Collected, CollectStep, AwaitOutput, client

(* Where the packets are while the call collects.                          *)
LEMMA Collecting ==
  ASSUME Scalars, Sleepers, Indices, Ring, cpc = "collect"
  PROVE  /\ next_decoding = (IF Submits THEN cur + 1 ELSE cur)
         /\ Last = next_decoding - 1
         /\ \A t \in pending :
              /\ t \in Threads /\ packet[t] = accepted - Age(t)
              /\ ~Between(next_finished, t, finished)
              /\ \/ Between(next_finished, t, cur) /\ next_decoding \in {cur, cur + 1}
                 \/ next_decoding = cur + 1 /\ t = cur
<1>1. /\ next_decoding = (IF Submits THEN cur + 1 ELSE cur)
      /\ LineEnd = cur /\ (HasSubmitted <=> Submits)
  BY DEF Indices, LineEnd, HasSubmitted
<1>2. Last = next_decoding - 1
  BY <1>1 DEF Last, Scalars, Threads
<1>3. QED
  BY <1>1, <1>2 DEF Ring, InLine, Sleepers

(* A packet that is collected was at the head of the line, and the rest of *)
(* the line lies behind it; a drain that comes round has left nothing.     *)
LEMMA CollectRing ==
  ASSUME Scalars, Slots, Sleepers, Indices, Ring, Workers, CollectStep
  PROVE  Indices' /\ Ring'
<1>1. /\ cur \in Threads /\ next_finished \in Threads /\ finished \in Threads
      /\ next_decoding \in 0 .. ThreadCount /\ cpc = "collect"
      /\ delaying => ~size /\ next_finished <= cur /\ next_decoding < ThreadCount - 1
  BY DEF CollectStep, Scalars, Indices, LineEnd
<1>2. /\ next_decoding = (IF Submits THEN cur + 1 ELSE cur) /\ Last = next_decoding - 1
      /\ \A t \in pending :
           /\ t \in Threads /\ packet[t] = accepted - Age(t)
           /\ ~Between(next_finished, t, finished)
           /\ \/ Between(next_finished, t, cur) /\ next_decoding \in {cur, cur + 1}
              \/ next_decoding = cur + 1 /\ t = cur
  BY <1>1, Collecting
<1>3. \A t \in pending \ {finished} :
        /\ Between(After(finished), t, Wrap(next_decoding))
        /\ After(finished) # next_finished /\ ~Between(next_finished, t, After(finished))
  BY <1>1, <1>2, LineShrinks
<1>4. Wrap(next_decoding) \in Threads /\ (delaying => Wrap(next_decoding) = next_decoding)
  BY <1>1, FrameAssumption DEF Wrap, Threads
<1>5. CASE cpc' = "idle"
  <2>1. /\ next_decoding' = Wrap(next_decoding) /\ next_finished' = After(finished)
        /\ pending' = pending \ {finished}
        /\ UNCHANGED <<delaying, packet, accepted>>
    BY <1>5 DEF CollectStep
  <2>2. delaying => After(finished) <= next_decoding
    <3>1. CASE out[finished] = "frame"
      <4>1. finished \in pending
        BY <1>1, <3>1 DEF Workers, Outstanding
      <4>2. QED
        BY <1>1, <1>2, <4>1, FrameAssumption DEF Between, After, Wrap, Threads
    <3>2. CASE After(finished) = next_finished
      BY <1>1, <1>2, <3>2 DEF Threads
    <3>3. QED
      BY <1>1, <1>5, <3>1, <3>2 DEF CollectStep
  <2>3. Indices'
    BY <1>1, <1>4, <1>5, <2>1, <2>2 DEF Indices, Deciding, Submitting, LineEnd
  <2>4. Last' = Wrap(next_decoding) - 1
    BY <1>5, <2>1 DEF Last, HasSubmitted, LineEnd
  <2>5. \A t \in pending : Age(t)' = Age(t)
    BY <1>1, <1>2, <2>4, FrameAssumption DEF Age, Wrap, Threads
  <2>6. (\A t \in pending : InLine(t))'
    BY <1>2, <1>3, <1>5, <2>1, <2>5 DEF InLine, LineEnd
  <2>7. QED
    BY <2>3, <2>6 DEF Ring
<1>6. CASE cpc' # "idle"
  <2>1. /\ cpc' = "collect" /\ finished' = After(finished) /\ pending' = pending \ {finished}
        /\ UNCHANGED <<cur, size, setup, next_decoding, next_finished, delaying, packet,
                       accepted>>
    BY <1>6 DEF CollectStep
  <2>2. Indices'
    BY <1>1, <1>2, <2>1 DEF Indices, Deciding, Submitting, LineEnd, Submits, CapDelay
  <2>3. Last' = Last
    BY <1>1, <2>1 DEF Last, HasSubmitted, LineEnd, Submits, CapDelay
  <2>4. (\A t \in pending : InLine(t))'
    BY <1>1, <1>3, <2>1, <2>3 DEF InLine, HasSubmitted, LineEnd, Ring, Age, Submits,
         CapDelay
  <2>5. QED
    BY <2>2, <2>4 DEF Ring
<1>7. QED
  BY <1>5, <1>6

(* The step in which the client goes to sleep.                             *)
LEMMA CollectLeaves ==
  ASSUME Indices, Ring, UNCHANGED <<cpc, client, pending, packet, setup, accepted, state>>
  PROVE  Indices' /\ Ring'
  BY DEF client, Indices, Ring, InLine, HasSubmitted, LineEnd, Last, Age, Submits, CapDelay

(* No worker moves the client or changes what it was given.                *)
LEMMA WorkerLeaves ==
  ASSUME NEW t \in Threads, Worker(t)
  PROVE  UNCHANGED <<cpc, client, given>>
<1> USE DEF client, given
<1>1. CASE Top(t)
  BY <1>1 DEF Top
<1>2. CASE Input(t)
  BY <1>2 DEF Input
<1>3. CASE Check(t)
  BY <1>3 DEF Check, FinishSetup
<1>4. CASE Begin(t)
  BY <1>4 DEF Begin
<1>5. CASE CodecFinishesSetup(t)
  BY <1>5 DEF CodecFinishesSetup, FinishSetup
<1>6. CASE RequestBuffer(t)
  BY <1>6 DEF RequestBuffer
<1>7. CASE SignalRequest(t)
  BY <1>7 DEF SignalRequest, AwaitBuffer
<1>8. CASE BufferGranted(t)
  BY <1>8 DEF BufferGranted, AwaitBuffer
<1>9. CASE GetBufferReturns(t)
  BY <1>9 DEF GetBufferReturns, FinishSetup
<1>10. CASE ReleaseBuffer(t)
  BY <1>10 DEF ReleaseBuffer
<1>11. CASE AwaitProgress(t)
  BY <1>11 DEF AwaitProgress
<1>12. CASE ReportProgress(t)
  BY <1>12 DEF ReportProgress
<1>13. CASE Return(t)
  BY <1>13 DEF Return, FinishSetup
<1>14. CASE SetReady(t)
  BY <1>14 DEF SetReady
<1>15. CASE SignalOutput(t)
  BY <1>15 DEF SignalOutput
<1>16. QED
  BY <1>1, <1>2, <1>3, <1>4, <1>5, <1>6, <1>7, <1>8, <1>9, <1>10, <1>11, <1>12, <1>13,
       <1>14, <1>15 DEF Worker

(* Each step of a worker takes its slot to the state that belongs to where *)
(* the worker is then; only a slot in its setup asks for a buffer.         *)
LEMMA WorkerStates ==
  ASSUME Slots, Workers, ClientWaits, NEW t \in Threads, Worker(t)
  PROVE  \A u \in Threads : States(u)'
<1> USE WorkerLeaves DEF client, given, Slots, Workers, States, Outstanding, InDecode,
      ClientWaits, NeedsCallback, UpdatesContext, SafeCallbacks, DefaultBuffers
<1>1. CASE Top(t)
  BY <1>1 DEF Top
<1>2. CASE Input(t)
  BY <1>2 DEF Input
<1>3. CASE Check(t)
  BY <1>3 DEF Check, FinishSetup
<1>4. CASE Begin(t)
  BY <1>4 DEF Begin
<1>5. CASE CodecFinishesSetup(t)
  BY <1>5 DEF CodecFinishesSetup, FinishSetup
<1>6. CASE RequestBuffer(t)
  BY <1>6 DEF RequestBuffer
<1>7. CASE SignalRequest(t)
  BY <1>7 DEF SignalRequest, AwaitBuffer
<1>8. CASE BufferGranted(t)
  BY <1>8 DEF BufferGranted, AwaitBuffer
<1>9. CASE GetBufferReturns(t)
  BY <1>9 DEF GetBufferReturns, FinishSetup
<1>10. CASE ReleaseBuffer(t)
  BY <1>10 DEF ReleaseBuffer
<1>11. CASE AwaitProgress(t)
  BY <1>11 DEF AwaitProgress
<1>12. CASE ReportProgress(t)
  BY <1>12 DEF ReportProgress
<1>13. CASE Return(t)
  BY <1>13 DEF Return, FinishSetup
<1>14. CASE SetReady(t)
  BY <1>14 DEF SetReady
<1>15. CASE SignalOutput(t)
  BY <1>15 DEF SignalOutput
<1>16. QED
  BY <1>1, <1>2, <1>3, <1>4, <1>5, <1>6, <1>7, <1>8, <1>9, <1>10, <1>11, <1>12, <1>13,
       <1>14, <1>15 DEF Worker

(* A worker holds its mutex from the beginning of decode() to the signal.  *)
LEMMA WorkerMutexes ==
  ASSUME Slots, Workers, NEW t \in Threads, Worker(t)
  PROVE  \A u \in Threads : Mutexes(u)'
<1> USE WorkerLeaves DEF client, given, Slots, Workers, Mutexes, InDecode
<1>1. CASE Top(t)
  BY <1>1 DEF Top
<1>2. CASE Input(t)
  BY <1>2 DEF Input
<1>3. CASE Check(t)
  BY <1>3 DEF Check, FinishSetup
<1>4. CASE Begin(t)
  BY <1>4 DEF Begin
<1>5. CASE CodecFinishesSetup(t)
  BY <1>5 DEF CodecFinishesSetup, FinishSetup
<1>6. CASE RequestBuffer(t)
  BY <1>6 DEF RequestBuffer
<1>7. CASE SignalRequest(t)
  BY <1>7 DEF SignalRequest, AwaitBuffer
<1>8. CASE BufferGranted(t)
  BY <1>8 DEF BufferGranted, AwaitBuffer
<1>9. CASE GetBufferReturns(t)
  BY <1>9 DEF GetBufferReturns, FinishSetup
<1>10. CASE ReleaseBuffer(t)
  BY <1>10 DEF ReleaseBuffer
<1>11. CASE AwaitProgress(t)
  BY <1>11 DEF AwaitProgress
<1>12. CASE ReportProgress(t)
  BY <1>12 DEF ReportProgress
<1>13. CASE Return(t)
  BY <1>13 DEF Return, FinishSetup
<1>14. CASE SetReady(t)
  BY <1>14 DEF SetReady
<1>15. CASE SignalOutput(t)
  BY <1>15 DEF SignalOutput
<1>16. QED
  BY <1>1, <1>2, <1>3, <1>4, <1>5, <1>6, <1>7, <1>8, <1>9, <1>10, <1>11, <1>12, <1>13,
       <1>14, <1>15 DEF Worker

(* A worker decodes only what the client gave it and has not collected.    *)
LEMMA WorkerOutstanding ==
  ASSUME Slots, Workers, NEW t \in Threads, Worker(t)
  PROVE  \A u \in Threads : Outstanding(u)'
<1> USE WorkerLeaves DEF client, codec, given, Slots, Workers, States, Outstanding, InDecode
<1>1. CASE Top(t)
  BY <1>1 DEF Top
<1>2. CASE Input(t)
  BY <1>2 DEF Input
<1>3. CASE Check(t)
  BY <1>3 DEF Check, FinishSetup
<1>4. CASE Begin(t)
  BY <1>4 DEF Begin
<1>5. CASE CodecFinishesSetup(t)
  BY <1>5 DEF CodecFinishesSetup, FinishSetup
<1>6. CASE RequestBuffer(t)
  BY <1>6 DEF RequestBuffer
<1>7. CASE SignalRequest(t)
  BY <1>7 DEF SignalRequest, AwaitBuffer
<1>8. CASE BufferGranted(t)
  BY <1>8 DEF BufferGranted, AwaitBuffer
<1>9. CASE GetBufferReturns(t)
  BY <1>9 DEF GetBufferReturns, FinishSetup
<1>10. CASE ReleaseBuffer(t)
  BY <1>10 DEF ReleaseBuffer
<1>11. CASE AwaitProgress(t)
  BY <1>11 DEF AwaitProgress
<1>12. CASE ReportProgress(t)
  BY <1>12 DEF ReportProgress
<1>13. CASE Return(t)
  BY <1>13 DEF Return, FinishSetup
<1>14. CASE SetReady(t)
  BY <1>14 DEF SetReady
<1>15. CASE SignalOutput(t)
  BY <1>15 DEF SignalOutput
<1>16. QED
  BY <1>1, <1>2, <1>3, <1>4, <1>5, <1>6, <1>7, <1>8, <1>9, <1>10, <1>11, <1>12, <1>13,
       <1>14, <1>15 DEF Worker

(* A worker whose setup is over wakes the client that waits for it.        *)
LEMMA WorkerWaits ==
  ASSUME Slots, Scalars, Workers, ClientWaits, NEW t \in Threads, Worker(t)
  PROVE  ClientWaits'
<1> USE WorkerLeaves DEF client, given, Scalars, Slots, Workers, States, ClientWaits,
      Threads, Client, NeedsCallback, DefaultBuffers, SafeCallbacks
<1>1. CASE Top(t)
  BY <1>1 DEF Top, Broadcast, Signal, ProgressWaiters
<1>2. CASE Input(t)
  BY <1>2 DEF Input, Broadcast, Signal, ProgressWaiters
<1>3. CASE Check(t)
  <2>1. UNCHANGED die
    BY <1>3 DEF Check
  <2>2. CASE ~die /\ ~UpdatesContext /\ SafeCallbacks
    <3>1. state' = [state EXCEPT ![t] = "set"] /\ asleep' = asleep \ ProgressWaiters(t)
      BY <1>3, <2>2 DEF Check, FinishSetup, Broadcast
    <3>2. state[t] = "setup" /\ (cpc = "prev" /\ prev_thread = t => Client \notin asleep')
      BY <1>3, <2>2, <3>1 DEF Check, ProgressWaiters
    <3>3. QED
      BY <2>1, <2>2, <3>1, <3>2
  <2>3. CASE ~(~die /\ ~UpdatesContext /\ SafeCallbacks)
    <3>1. UNCHANGED <<state, asleep>>
      BY <1>3, <2>3 DEF Check
    <3>2. QED
      BY <2>1, <3>1
  <2>4. QED
    BY <2>2, <2>3
<1>4. CASE Begin(t)
  BY <1>4 DEF Begin, Broadcast, Signal, ProgressWaiters
<1>5. CASE CodecFinishesSetup(t)
  BY <1>5 DEF CodecFinishesSetup, FinishSetup, Broadcast, Signal, ProgressWaiters
<1>6. CASE RequestBuffer(t)
  BY <1>6 DEF RequestBuffer, Broadcast, Signal, ProgressWaiters
<1>7. CASE SignalRequest(t)
  BY <1>7, SignalWakes DEF SignalRequest, AwaitBuffer, Broadcast, Signal, ProgressWaiters
<1>8. CASE BufferGranted(t)
  BY <1>8 DEF BufferGranted, AwaitBuffer, Broadcast, Signal, ProgressWaiters
<1>9. CASE GetBufferReturns(t)
  BY <1>9 DEF GetBufferReturns, FinishSetup, Broadcast, Signal, ProgressWaiters
<1>10. CASE ReleaseBuffer(t)
  BY <1>10 DEF ReleaseBuffer, Broadcast, Signal, ProgressWaiters
<1>11. CASE AwaitProgress(t)
  BY <1>11 DEF AwaitProgress, Broadcast, Signal, ProgressWaiters
<1>12. CASE ReportProgress(t)
  BY <1>12 DEF ReportProgress, Broadcast, Signal, ProgressWaiters
<1>13. CASE Return(t)
  <2>1. UNCHANGED die /\ wpc[t] = "codec"
    BY <1>13 DEF Return
  <2>2. CASE state[t] = "setup"
    <3>1. state' = [state EXCEPT ![t] = "set"] /\ asleep' = asleep \ ProgressWaiters(t)
      BY <1>13, <2>2 DEF Return, FinishSetup, Broadcast
    <3>2. cpc = "prev" /\ prev_thread = t => Client \notin asleep'
      BY <3>1 DEF ProgressWaiters
    <3>3. QED
      BY <2>1, <2>2, <3>1, <3>2
  <2>3. CASE state[t] # "setup"
    BY <1>13, <2>1, <2>3 DEF Return
  <2>4. QED
    BY <2>2, <2>3
<1>14. CASE SetReady(t)
  BY <1>14 DEF SetReady, Broadcast, Signal, ProgressWaiters
<1>15. CASE SignalOutput(t)
  BY <1>15, SignalWakes DEF SignalOutput, Broadcast, Signal, ProgressWaiters
<1>16. QED
  BY <1>1, <1>2, <1>3, <1>4, <1>5, <1>6, <1>7, <1>8, <1>9, <1>10, <1>11, <1>12, <1>13,
       <1>14, <1>15 DEF Worker

(* The steps of the client: the indices,                                   *)
LEMMA ClientIndices ==
  ASSUME Scalars, Slots, Sleepers, Indices, Ring, ClientWaits, Workers, Call \/ InCall
  PROVE  Indices'
<1>1. CASE Submitted
  BY <1>1, SubmittedRing
<1>2. CASE Collect
  BY <1>2, CollectSteps, CollectRing, CollectLeaves
<1> USE FrameAssumption DEF client, given, Scalars, Threads, Indices, Submitting, Deciding,
      LineEnd, Submits, CapDelay
<1>3. CASE Decode
  BY <1>3 DEF Decode
<1>4. CASE StartParking
  BY <1>4 DEF StartParking
<1>5. CASE UserUpdated
  BY <1>5 DEF UserUpdated
<1>6. CASE LockWorker
  BY <1>6 DEF LockWorker
<1>7. CASE ReleaseDelayed
  BY <1>7 DEF ReleaseDelayed
<1>8. CASE AwaitPrevious
  BY <1>8 DEF AwaitPrevious
<1>9. CASE Updated
  BY <1>9 DEF Updated
<1>10. CASE UpdateFails
  BY <1>10 DEF UpdateFails
<1>11. CASE Fill
  BY <1>11 DEF Fill
<1>12. CASE Callback
  BY <1>12 DEF Callback
<1>13. CASE Park
  BY <1>13 DEF Park, AwaitOutput
<1>14. CASE Flush
  BY <1>14 DEF Flush, AllParked
<1>15. CASE Die
  BY <1>15 DEF Die, AllParked
<1>16. CASE WakeToDie
  BY <1>16 DEF WakeToDie
<1>17. CASE Join
  BY <1>17 DEF Join
<1>18. QED
  BY <1>1, <1>2, <1>3, <1>4, <1>5, <1>6, <1>7, <1>8, <1>9, <1>10, <1>11, <1>12, <1>13,
       <1>14, <1>15, <1>16, <1>17 DEF Call, InCall

(* the packets between them,                                               *)
LEMMA ClientRing ==
  ASSUME Scalars, Slots, Sleepers, Indices, Ring, Workers, Call \/ InCall
  PROVE  Ring'
<1>1. CASE Fill
  BY <1>1, FillRing
<1>2. CASE Submitted
  BY <1>2, SubmittedRing
<1>3. CASE Collect
  BY <1>3, CollectSteps, CollectRing, CollectLeaves
<1> USE DEF client, given, Indices, Submitting, Deciding, HasSubmitted, LineEnd, Last, Age,
      Ring, InLine, Between, Submits, CapDelay
<1>4. CASE Decode
  BY <1>4 DEF Decode
<1>5. CASE StartParking
  BY <1>5 DEF StartParking
<1>6. CASE UserUpdated
  BY <1>6 DEF UserUpdated
<1>7. CASE LockWorker
  BY <1>7 DEF LockWorker
<1>8. CASE ReleaseDelayed
  BY <1>8 DEF ReleaseDelayed
<1>9. CASE AwaitPrevious
  BY <1>9 DEF AwaitPrevious
<1>10. CASE Updated
  BY <1>10 DEF Updated
<1>11. CASE UpdateFails
  BY <1>11 DEF UpdateFails
<1>12. CASE Callback
  BY <1>12 DEF Callback
<1>13. CASE Park
  BY <1>13 DEF Park, AwaitOutput
<1>14. CASE Flush
  BY <1>14 DEF Flush, AllParked
<1>15. CASE Die
  BY <1>15 DEF Die, AllParked
<1>16. CASE WakeToDie
  BY <1>16 DEF WakeToDie
<1>17. CASE Join
  BY <1>17 DEF Join
<1>18. QED
  BY <1>1, <1>2, <1>3, <1>4, <1>5, <1>6, <1>7, <1>8, <1>9, <1>10, <1>11, <1>12, <1>13,
       <1>14, <1>15, <1>16, <1>17 DEF Call, InCall

(* the states: a slot that is filled belongs to a worker that waits,       *)
LEMMA ClientStates ==
  ASSUME Scalars, Slots, Indices, Ring, Workers, ClientWaits, Call \/ InCall
  PROVE  \A u \in Threads : States(u)'
<1>a. cpc \in Submitting \cup {"user"} => cur \notin pending /\ state[cur] = "ready"
  BY CurIsReady
<1> USE DEF client, given, Scalars, Slots, Indices, Workers, States, InDecode, ClientWaits,
      NeedsCallback, UpdatesContext, SafeCallbacks, DefaultBuffers
<1>1. CASE Decode
  BY <1>1 DEF Decode
<1>2. CASE StartParking
  BY <1>2 DEF StartParking
<1>3. CASE UserUpdated
  BY <1>3 DEF UserUpdated
<1>4. CASE LockWorker
  BY <1>4 DEF LockWorker
<1>5. CASE ReleaseDelayed
  BY <1>5 DEF ReleaseDelayed
<1>6. CASE AwaitPrevious
  BY <1>6 DEF AwaitPrevious
<1>7. CASE Updated
  BY <1>7 DEF Updated
<1>8. CASE UpdateFails
  BY <1>8 DEF UpdateFails
<1>9. CASE Fill
  <2>1. state[cur] = "ready" /\ cur \in Threads
    BY <1>9, <1>a DEF Fill, Submitting
  <2>2. wpc[cur] \in {"top", "input"}
    BY <1>9, <2>1 DEF Fill, Mutexes, InDecode, Holding, WorkerLabels
  <2>3. /\ state' = [state EXCEPT ![cur] = "setup"]
        /\ cpc' = IF NeedsCallback THEN "callback" ELSE "after"
        /\ UNCHANGED <<cur, wpc, setup, die>>
    BY <1>9 DEF Fill
  <2>4. QED
    BY <1>9, <2>1, <2>2, <2>3 DEF Fill
<1>10. CASE Callback
  BY <1>10 DEF Callback
<1>11. CASE Submitted
  BY <1>11 DEF Submitted
<1>12. CASE Collect
  BY <1>12 DEF Collect, AwaitOutput, Collected
<1>13. CASE Park
  BY <1>13 DEF Park, AwaitOutput
<1>14. CASE Flush
  BY <1>14 DEF Flush, AllParked
<1>15. CASE Die
  BY <1>15 DEF Die, AllParked
<1>16. CASE WakeToDie
  BY <1>16 DEF WakeToDie
<1>17. CASE Join
  BY <1>17 DEF Join
<1>18. QED
  BY <1>1, <1>2, <1>3, <1>4, <1>5, <1>6, <1>7, <1>8, <1>9, <1>10, <1>11, <1>12, <1>13,
       <1>14, <1>15, <1>16, <1>17 DEF Call, InCall

(* the mutexes,                                                            *)
LEMMA ClientMutexes ==
  ASSUME Scalars, Slots, Indices, Ring, Workers, ClientWaits, Call \/ InCall
  PROVE  \A u \in Threads : Mutexes(u)'
<1> USE DEF client, given, Scalars, Slots, Indices, Workers, Mutexes, InDecode, Holding
<1>1. CASE Decode
  BY <1>1 DEF Decode
<1>2. CASE StartParking
  BY <1>2 DEF StartParking
<1>3. CASE UserUpdated
  BY <1>3 DEF UserUpdated
<1>4. CASE LockWorker
  BY <1>4 DEF LockWorker
<1>5. CASE ReleaseDelayed
  BY <1>5 DEF ReleaseDelayed
<1>6. CASE AwaitPrevious
  BY <1>6 DEF AwaitPrevious
<1>7. CASE Updated
  BY <1>7 DEF Updated
<1>8. CASE UpdateFails
  BY <1>8 DEF UpdateFails
<1>9. CASE Fill
  BY <1>9 DEF Fill
<1>10. CASE Callback
  BY <1>10 DEF Callback
<1>11. CASE Submitted
  BY <1>11 DEF Submitted
<1>12. CASE Collect
  BY <1>12 DEF Collect, AwaitOutput, Collected
<1>13. CASE Park
  BY <1>13 DEF Park, AwaitOutput
<1>14. CASE Flush
  BY <1>14 DEF Flush, AllParked
<1>15. CASE Die
  BY <1>15 DEF Die, AllParked
<1>16. CASE WakeToDie
  BY <1>16 DEF WakeToDie
<1>17. CASE Join
  BY <1>17 DEF Join
<1>18. QED
  BY <1>1, <1>2, <1>3, <1>4, <1>5, <1>6, <1>7, <1>8, <1>9, <1>10, <1>11, <1>12, <1>13,
       <1>14, <1>15, <1>16, <1>17 DEF Call, InCall

(* what is not collected,                                                  *)
LEMMA ClientOutstanding ==
  ASSUME Scalars, Slots, Indices, Ring, Workers, ClientWaits, Call \/ InCall
  PROVE  \A u \in Threads : Outstanding(u)'
<1> USE DEF client, codec, given, Scalars, Slots, Indices, Workers, Outstanding, ClientWaits
<1>1. CASE Decode
  BY <1>1 DEF Decode
<1>2. CASE StartParking
  BY <1>2 DEF StartParking
<1>3. CASE UserUpdated
  BY <1>3 DEF UserUpdated
<1>4. CASE LockWorker
  BY <1>4 DEF LockWorker
<1>5. CASE ReleaseDelayed
  BY <1>5 DEF ReleaseDelayed
<1>6. CASE AwaitPrevious
  BY <1>6 DEF AwaitPrevious
<1>7. CASE Updated
  BY <1>7 DEF Updated
<1>8. CASE UpdateFails
  BY <1>8 DEF UpdateFails
<1>9. CASE Fill
  BY <1>9 DEF Fill
<1>10. CASE Callback
  BY <1>10 DEF Callback
<1>11. CASE Submitted
  BY <1>11 DEF Submitted
<1>12. CASE Collect
  BY <1>12 DEF Collect, AwaitOutput, Collected
<1>13. CASE Park
  BY <1>13 DEF Park, AwaitOutput
<1>14. CASE Flush
  <2>1. \A u \in Threads : state[u] = "ready"
    BY <1>14, FrameAssumption DEF Flush, AllParked, Threads
  <2>2. state' = state /\ \A u \in Threads : out'[u] # "frame"
    BY <1>14 DEF Flush
  <2>3. QED
    BY <2>1, <2>2
<1>15. CASE Die
  BY <1>15 DEF Die, AllParked
<1>16. CASE WakeToDie
  BY <1>16 DEF WakeToDie
<1>17. CASE Join
  BY <1>17 DEF Join
<1>18. QED
  BY <1>1, <1>2, <1>3, <1>4, <1>5, <1>6, <1>7, <1>8, <1>9, <1>10, <1>11, <1>12, <1>13,
       <1>14, <1>15, <1>16, <1>17 DEF Call, InCall

(* and what the client itself waits for.                                   *)
LEMMA ClientWaitsStep ==
  ASSUME Scalars, Slots, Indices, Ring, Workers, ClientWaits, Call \/ InCall
  PROVE  ClientWaits'
<1> USE FrameAssumption DEF client, given, Scalars, Slots, Threads, Client, Nobody, Workers,
      States, ClientWaits, Waiting
<1>1. CASE Decode
  BY <1>1 DEF Decode, Broadcast, Signal, After, Awake
<1>2. CASE StartParking
  BY <1>2 DEF StartParking, Broadcast, Signal, After, Awake
<1>3. CASE UserUpdated
  BY <1>3 DEF UserUpdated, Broadcast, Signal, After, Awake
<1>4. CASE LockWorker
  BY <1>4 DEF LockWorker, Broadcast, Signal, After, Awake
<1>5. CASE ReleaseDelayed
  BY <1>5 DEF ReleaseDelayed, Broadcast, Signal, After, Awake
<1>6. CASE AwaitPrevious
  BY <1>6 DEF AwaitPrevious, Broadcast, Signal, After, Awake
<1>7. CASE Updated
  BY <1>7 DEF Updated, Broadcast, Signal, After, Awake
<1>8. CASE UpdateFails
  BY <1>8 DEF UpdateFails, Broadcast, Signal, After, Awake
<1>9. CASE Fill
  <2>1. cpc' \in {"callback", "after"} /\ (cpc' = "callback" => NeedsCallback') /\ ~die'
    BY <1>9 DEF Fill, NeedsCallback, SafeCallbacks, DefaultBuffers
  <2>2. asleep' \subseteq asleep /\ Client \notin asleep /\ UNCHANGED die
    BY <1>9, SignalWakes DEF Fill, Signal
  <2>3. QED
    BY <2>1, <2>2
<1>10. CASE Callback
  <2>1. cpc' \in {"callback", "after"} /\ NeedsCallback' /\ ~die'
    BY <1>10 DEF Callback, NeedsCallback, SafeCallbacks, DefaultBuffers
  <2>2. cpc' = "after" => Client \notin asleep'
    BY <1>10 DEF Callback, Awake
  <2>3. QED
    BY <2>1, <2>2
<1>11. CASE Submitted
  BY <1>11 DEF Submitted, Broadcast, Signal, After, Awake
<1>12. CASE Collect
  BY <1>12 DEF Collect, AwaitOutput, Collected, Broadcast, Signal, After, Awake
<1>13. CASE Park
  <2>1. /\ cpc \in {"flush", "free"} /\ UNCHANGED <<cpc, die, state, setup, prev_thread>>
        /\ asleep' \in {asleep, asleep \cup {Client}}
    BY <1>13 DEF Park, AwaitOutput
  <2>2. \/ finished' = finished
        \/ finished' = finished + 1 /\ state[finished] = "ready"
    BY <1>13 DEF Park
  <2>3. \A t \in Threads : t < finished' => state[t] = "ready"
    BY <2>1, <2>2
  <2>4. QED
    BY <2>1, <2>3
<1>14. CASE Flush
  BY <1>14 DEF Flush, AllParked, Broadcast, Signal, After, Awake
<1>15. CASE Die
  BY <1>15 DEF Die, AllParked, Broadcast, Signal, After, Awake
<1>16. CASE WakeToDie
  <2>1. asleep' \subseteq asleep
    BY <1>16, SignalWakes DEF WakeToDie, Signal
  <2>2. QED
    BY <1>16, <2>1 DEF WakeToDie
<1>17. CASE Join
  BY <1>17 DEF Join, Broadcast, Signal, After, Awake
<1>18. QED
  BY <1>1, <1>2, <1>3, <1>4, <1>5, <1>6, <1>7, <1>8, <1>9, <1>10, <1>11, <1>12, <1>13,
       <1>14, <1>15, <1>16, <1>17 DEF Call, InCall

(* TypeOK in parts.                                                        *)
LEMMA TypeParts ==
  TypeOK <=> /\ Scalars /\ Slots /\ Refs /\ Sleepers
             /\ cpc = "idle" => next_decoding \in Threads
  BY DEF TypeOK, Scalars, Slots, Refs, Sleepers

(* The invariant holds in every state.                                     *)
THEOREM InductiveInvariant == Spec => []IInv
<1>1. Init => IInv
  <2> SUFFICES ASSUME Init PROVE IInv
    OBVIOUS
  <2>1. TypeOK
    <3>1. Scalars
      <4>1. /\ {0, ThreadCount} \subseteq 0 .. ThreadCount
            /\ 0 \in Threads /\ 0 \in 0 .. MaxPackets
        BY FrameAssumption DEF Threads
      <4>2. QED
        BY <4>1 DEF Init, Scalars, Nobody, ClientLabels
    <3>2. Slots
      BY FrameAssumption DEF Init, Slots, WorkerLabels
    <3>3. Refs /\ Sleepers
      BY FrameAssumption DEF Init, Refs, Sleepers, Threads, Nobody, Client
    <3>4. QED
      BY <3>1, <3>2, <3>3, TypeParts, FrameAssumption DEF Init, Threads
  <2>2. Indices
    BY FrameAssumption DEF Init, Indices, Deciding, Submitting, LineEnd, Threads
  <2>3. Ring
    BY DEF Init, Ring
  <2>4. Workers
    BY DEF Init, Workers, States, Mutexes, Outstanding, InDecode, Holding
  <2>5. ClientWaits
    BY DEF Init, ClientWaits
  <2>6. QED
    BY <2>1, <2>2, <2>3, <2>4, <2>5 DEF IInv
<1>2. IInv /\ [Next]_vars => IInv'
  <2> SUFFICES ASSUME IInv, [Next]_vars PROVE IInv'
    OBVIOUS
  <2> USE TypeParts DEF IInv
  <2>1. CASE \E t \in Threads : Worker(t)
    <3>1. PICK t \in Threads : Worker(t)
      BY <2>1
    <3>2. UNCHANGED <<cpc, client, given>>
      BY <3>1, WorkerLeaves
    <3>3. TypeOK'
      <4>1. Scalars' /\ Slots' /\ Refs' /\ Sleepers'
        BY <3>1, <3>2, WorkerSlots, WorkerSleepers DEF client, given, Scalars, Refs
      <4>2. (cpc = "idle" => next_decoding \in Threads)'
        BY <3>2 DEF client, Indices
      <4>3. QED
        BY <4>1, <4>2 DEF TypeOK, Scalars, Slots, Refs, Sleepers
    <3>4. Indices' /\ Ring'
      BY <3>2 DEF client, given, Indices, Ring, InLine, HasSubmitted, LineEnd, Last, Age,
           Submits, CapDelay
    <3>5. Workers' /\ ClientWaits'
      BY <3>1, WorkerStates, WorkerMutexes, WorkerOutstanding, WorkerWaits DEF Workers
    <3>6. QED
      BY <3>3, <3>4, <3>5
  <2>2. CASE Call \/ InCall
    <3>1. Scalars' /\ Slots' /\ Refs' /\ Sleepers'
      BY <2>2, ClientScalars, ClientSlots, ClientRefs, ClientSleepers
    <3>2. Indices' /\ Ring'
      BY <2>2, ClientIndices, ClientRing
    <3>3. TypeOK'
      BY <3>1, <3>2 DEF Indices, TypeOK, Scalars, Slots, Refs, Sleepers
    <3>4. Workers'
      BY <2>2, ClientStates, ClientMutexes, ClientOutstanding DEF Workers
    <3>5. ClientWaits'
      BY <2>2, ClientWaitsStep
    <3>6. QED
      BY <3>2, <3>3, <3>4, <3>5
  <2>3. CASE UNCHANGED vars
    <3>1. TypeOK' /\ Indices' /\ Ring'
      BY <2>3 DEF vars, client, codec, given, TypeOK, Indices, Ring, InLine, HasSubmitted,
           LineEnd,
                  Last, Age, Submits, CapDelay
    <3>2. Workers' /\ ClientWaits'
      BY <2>3 DEF vars, client, codec, given, Workers, States, Mutexes, Outstanding,
           InDecode,
                  ClientWaits, NeedsCallback, UpdatesContext, SafeCallbacks, DefaultBuffers
    <3>3. QED
      BY <3>1, <3>2
  <2>4. QED
    BY <2>1, <2>2, <2>3 DEF Next
<1>3. QED
  BY <1>1, <1>2, PTL DEF Spec

(* Types, for any number of workers and packets.                           *)
THEOREM TypeCorrect == Spec => []TypeOK
<1>1. IInv => TypeOK
  BY DEF IInv
<1>2. QED
  BY <1>1, InductiveInvariant, PTL

(* A set of workers without one of them.                                   *)
LEMMA FewerThanAll ==
  ASSUME NEW S, NEW e \in Threads, S \subseteq Threads \ {e}
  PROVE  Cardinality(S) < ThreadCount /\ IsFiniteSet(S)
<1>1. IsFiniteSet(Threads) /\ Cardinality(Threads) = ThreadCount
  BY FrameAssumption, FS_Interval DEF Threads
<1>2. IsFiniteSet(Threads \ {e}) /\ Cardinality(Threads \ {e}) = ThreadCount - 1
  BY <1>1, FS_RemoveElement
<1>3. IsFiniteSet(S) /\ Cardinality(S) <= ThreadCount - 1
  BY <1>2, FS_Subset
<1>4. Cardinality(S) \in Nat
  BY <1>3, FS_CardinalityType
<1>5. QED
  BY <1>3, <1>4, FrameAssumption

(* Between two calls there are fewer packets than workers that were not    *)
(* collected: the slot the next packet goes to is free                     *)
(* (multithreading.txt:25).                                                *)
THEOREM DelayIsBounded == Spec => []DelayBound
<1>1. IInv => DelayBound
  <2> SUFFICES ASSUME IInv, cpc = "idle" PROVE Cardinality(pending) < ThreadCount
    BY DEF DelayBound
  <2>1. pending \subseteq Threads \ {next_decoding} /\ next_decoding \in Threads
    BY DEF IInv, TypeOK, Indices, Ring, InLine, HasSubmitted, LineEnd, Between, Threads
  <2>2. QED
    BY <2>1, FewerThanAll
<1>2. QED
  BY <1>1, InductiveInvariant, PTL

(* A context is not copied into while its worker decodes, nor from before  *)
(* the setup of the packet its worker decodes was declared over, although  *)
(* the client looks at the states without a lock (pthread.c 528, 602).     *)
(* What a codec changes after that is its own promise (thread.h:66-69),    *)
(* which one without update_thread_context does not make.                  *)
THEOREM ContextsStayQuiet == Spec => []ContextsAreQuiet
<1>1. IInv => ContextsAreQuiet
  <2> SUFFICES ASSUME IInv PROVE ContextsAreQuiet
    OBVIOUS
  <2>1. cpc \in {"user", "update", "fill"} => state[cur] = "ready" /\ cur \in Threads
    BY CurIsReady, TypeParts DEF IInv, Submitting, Scalars
  <2>2. \A t \in Threads : InDecode(t) => state[t] \in {"setup", "buffer", "set"}
    BY DEF IInv, Workers, States, InDecode
  <2>3. cpc = "update" =>
          prev_thread \in Threads /\ state[prev_thread] \notin {"setup", "buffer"}
    BY DEF IInv, Workers, States, ClientWaits
  <2>4. QED
    BY <2>1, <2>2, <2>3 DEF ContextsAreQuiet
<1>2. QED
  BY <1>1, InductiveInvariant, PTL

(* With thread_safe_callbacks the client does not wait for a decode() of a *)
(* codec that hands no context on (pthread.c 369-370, 528-533).            *)
THEOREM SafeClientNeverWaits == Spec => []SafeNeverWaits
<1>1. IInv => SafeNeverWaits
  BY DEF IInv, TypeOK, Workers, States, ClientWaits, SafeNeverWaits, InDecode
<1>2. QED
  BY <1>1, InductiveInvariant, PTL

(* The mapping to FrameQueue. At first the line is empty;                  *)
LEMMA InitMaps == Init => Line!Init
<1>1. {packet[t] : t \in {}} = {}
  OBVIOUS
<1>2. QED
  BY <1>1 DEF Init, Line!Init

(* a packet is accepted when there is room for it;                         *)
LEMMA FillMaps ==
  ASSUME IInv, Fill
  PROVE  Line!Accept
<1>1. /\ cpc = "fill" /\ accepted' = accepted + 1 /\ pending' = pending \cup {cur}
      /\ packet' = [packet EXCEPT ![cur] = accepted + 1] /\ UNCHANGED delivered
  BY DEF Fill
<1>2. cur \in Threads /\ cur \notin pending /\ pending \subseteq Threads /\ accepted \in Nat
  BY <1>1, CurIsReady, TypeParts DEF IInv, Submitting, Scalars, Sleepers
<1>3. {packet[t] : t \in pending}' = {packet[t] : t \in pending} \cup {accepted + 1}
  BY <1>1, <1>2 DEF IInv, TypeOK
<1>4. \A t \in pending : accepted + 1 < packet[t] + ThreadCount
  <2>1. cur = next_decoding /\ ~HasSubmitted /\ LineEnd = cur /\ Last = cur - 1
    BY <1>1, <1>2 DEF IInv, Indices, Submitting, Deciding, HasSubmitted, LineEnd, Last,
         Threads
  <2>2. SUFFICES ASSUME NEW t \in pending
                 PROVE  accepted + 1 < packet[t] + ThreadCount
    OBVIOUS
  <2>3. t \in Threads /\ t # cur /\ packet[t] = accepted - Age(t)
    BY <1>2 DEF IInv, Ring, InLine
  <2>4. QED
    BY <1>2, <2>1, <2>3, FrameAssumption DEF Age, Threads
<1>5. QED
  BY <1>1, <1>3, <1>4 DEF Line!Accept

(* what is collected is the oldest packet of the line, or nothing;         *)
LEMMA CollectMaps ==
  ASSUME IInv, Collect, ~UNCHANGED <<accepted, pending, packet, delivered>>
  PROVE  Line!Deliver \/ Line!Skip
<1> DEFINE p == packet[finished]
<1>1. /\ cpc = "collect" /\ pending' = pending \ {finished} /\ UNCHANGED <<packet, accepted>>
      /\ delivered' = IF out[finished] = "frame" THEN p ELSE delivered
  BY DEF Collect, AwaitOutput, Collected, given
<1>2. finished \in pending
  BY <1>1 DEF IInv, TypeOK, Workers, Outstanding
<1>3. \A t \in pending : packet[t] \in Nat /\ (t # finished => p < packet[t])
  <2>1. /\ cur \in Threads /\ next_finished \in Threads /\ accepted \in Nat
        /\ \A t \in Threads : packet[t] \in Nat
    BY FrameAssumption DEF IInv, TypeOK
  <2>2. /\ next_decoding \in {cur, cur + 1} /\ Last = next_decoding - 1
        /\ \A t \in pending : /\ t \in Threads /\ packet[t] = accepted - Age(t)
                              /\ ~Between(next_finished, t, finished)
                              /\ \/ Between(next_finished, t, cur)
                                 \/ next_decoding = cur + 1 /\ t = cur
    BY <1>1, Collecting, TypeParts DEF IInv
  <2>3. SUFFICES ASSUME NEW t \in pending, t # finished
                 PROVE  p < packet[t]
    BY <2>1, <2>2
  <2>4. Age(t) < Age(finished)
    BY <1>2, <2>1, <2>2, <2>3, FrameAssumption DEF Age, Between, Threads
  <2>5. QED
    BY <1>2, <2>1, <2>2, <2>4, FrameAssumption DEF Age, Threads
<1>4. p \in {packet[t] : t \in pending}
  BY <1>2
<1>5. \A q \in {packet[t] : t \in pending} : p <= q
  BY <1>2, <1>3
<1>6. {packet[t] : t \in pending}' = {packet[t] : t \in pending} \ {p}
  BY <1>1, <1>2, <1>3
<1>7. CASE out[finished] = "frame"
  BY <1>1, <1>4, <1>5, <1>6, <1>7 DEF Line!Deliver, Line!Leaves
<1>8. CASE out[finished] # "frame"
  BY <1>1, <1>4, <1>5, <1>6, <1>8 DEF Line!Skip, Line!Leaves
<1>9. QED
  BY <1>7, <1>8

(* and no other step but a flush changes the line.                         *)
LEMMA OthersKeepTheLine ==
  ASSUME [Next]_vars, ~Fill, ~Collect, ~Flush
  PROVE  UNCHANGED <<accepted, pending, packet, delivered>>
<1>1. CASE \E t \in Threads : Worker(t)
  BY <1>1, WorkerLeaves DEF given
<1>2. CASE Call
  BY <1>2 DEF Call, Decode, StartParking, given
<1>3. CASE InCall
  BY <1>3 DEF InCall, UserUpdated, LockWorker, ReleaseDelayed, AwaitPrevious, Updated,
       UpdateFails,
              Callback, Submitted, Park, Die, WakeToDie, Join, given
<1>4. CASE UNCHANGED vars
  BY <1>4 DEF vars, given
<1>5. QED
  BY <1>1, <1>2, <1>3, <1>4 DEF Next

(* The ring of workers implements the queue of FrameQueue: packets leave   *)
(* in the order they came, none is lost or overwritten but by a flush, and *)
(* none is still there when as many as there are workers have come after   *)
(* it.                                                                     *)
THEOREM Refinement == Spec => ImplementsFrameQueue
<1>1. IInv /\ [Next]_vars => [Line!Next]_Line!vars
  <2> SUFFICES ASSUME IInv, [Next]_vars PROVE [Line!Next]_Line!vars
    OBVIOUS
  <2>1. CASE Fill
    BY <2>1, FillMaps DEF Line!Next
  <2>2. CASE Collect
    BY <2>2, CollectMaps DEF Line!Next, Line!vars
  <2>3. CASE Flush
    BY <2>3 DEF Flush, Line!Next, Line!Flush
  <2>4. CASE UNCHANGED <<accepted, pending, packet, delivered>>
    BY <2>4 DEF Line!vars
  <2>5. QED
    BY <2>1, <2>2, <2>3, <2>4, OthersKeepTheLine
<1>2. QED
  BY <1>1, InitMaps, InductiveInvariant, PTL DEF Spec, Line!Spec, ImplementsFrameQueue

------------------------------------------------------------------------------
(* That nobody is stranded.  What each sleeper waits for has not happened, *)
(* or who made it happen is about to wake the sleeper.                     *)
ClientSleeps ==
  Client \in asleep =>
    \/ cpc = "prev" /\ state[prev_thread] = "setup"
    \/ cpc = "callback" /\ (state[cur] = "setup" \/ wpc[cur] = "request")
    \/ /\ cpc \in {"collect", "flush", "free"}
       /\ state[finished] # "ready" \/ wpc[finished] = "signal"

(* frame_thread_free has yet to signal t, if it has begun to.              *)
ToBeWoken(t) == die => (cpc = "kill" /\ finished <= t) \/ (cpc = "join" /\ finished < t)

WorkerSleeps(t) ==
  t \in asleep =>
    \/ wpc[t] = "input" /\ state[t] = "ready" /\ ToBeWoken(t)
    \/ wpc[t] = "granted" /\ state[t] = "buffer"
    \/ wpc[t] = "await" /\ ~Complete(ref[t])

(* buffer_mutex is held by the worker that asks for a buffer.              *)
BufferHeld ==
  \A t \in Threads : buffer_mutex = t <=> wpc[t] \in {"request", "granted", "got"}

(* A frame refers to one of an earlier packet, and a worker without a      *)
(* packet has completed its frame.                                         *)
Referring(t) ==
  /\ state[t] = "ready" \/ wpc[t] = "returned" => progress[t]
  /\ ref[t].owner # Nobody => ref[t].packet < packet[t]
  /\ packet[t] <= accepted

Sleep == /\ ClientSleeps /\ BufferHeld
         /\ \A t \in Threads : WorkerSleeps(t) /\ Referring(t)


(* A worker that has a step to take does not sleep.                        *)
LEMMA StepperAwake ==
  ASSUME NEW t \in Threads, WorkerSleeps(t), Worker(t)
  PROVE  t \notin asleep
<1> USE DEF WorkerSleeps, Awake
<1>1. CASE Top(t)
  BY <1>1 DEF Top
<1>2. CASE Input(t)
  BY <1>2 DEF Input
<1>3. CASE Check(t)
  BY <1>3 DEF Check, FinishSetup
<1>4. CASE Begin(t)
  BY <1>4 DEF Begin
<1>5. CASE CodecFinishesSetup(t)
  BY <1>5 DEF CodecFinishesSetup, FinishSetup
<1>6. CASE RequestBuffer(t)
  BY <1>6 DEF RequestBuffer
<1>7. CASE SignalRequest(t)
  BY <1>7 DEF SignalRequest, AwaitBuffer
<1>8. CASE BufferGranted(t)
  BY <1>8 DEF BufferGranted, AwaitBuffer
<1>9. CASE GetBufferReturns(t)
  BY <1>9 DEF GetBufferReturns, FinishSetup
<1>10. CASE ReleaseBuffer(t)
  BY <1>10 DEF ReleaseBuffer
<1>11. CASE AwaitProgress(t)
  BY <1>11 DEF AwaitProgress
<1>12. CASE ReportProgress(t)
  BY <1>12 DEF ReportProgress
<1>13. CASE Return(t)
  BY <1>13 DEF Return, FinishSetup
<1>14. CASE SetReady(t)
  BY <1>14 DEF SetReady
<1>15. CASE SignalOutput(t)
  BY <1>15 DEF SignalOutput
<1>16. QED
  BY <1>1, <1>2, <1>3, <1>4, <1>5, <1>6, <1>7, <1>8, <1>9, <1>10, <1>11, <1>12, <1>13,
       <1>14, <1>15 DEF Worker

(* It moves and changes nobody but itself,                                 *)
LEMMA WorkerOthers ==
  ASSUME Slots, NEW t \in Threads, Worker(t)
  PROVE  \A u \in Threads : u # t =>
           wpc'[u] = wpc[u] /\ state'[u] = state[u] /\ progress'[u] = progress[u]
<1> USE DEF Slots, codec
<1>1. CASE Top(t)
  BY <1>1 DEF Top
<1>2. CASE Input(t)
  BY <1>2 DEF Input
<1>3. CASE Check(t)
  BY <1>3 DEF Check, FinishSetup
<1>4. CASE Begin(t)
  BY <1>4 DEF Begin
<1>5. CASE CodecFinishesSetup(t)
  BY <1>5 DEF CodecFinishesSetup, FinishSetup
<1>6. CASE RequestBuffer(t)
  BY <1>6 DEF RequestBuffer
<1>7. CASE SignalRequest(t)
  BY <1>7 DEF SignalRequest, AwaitBuffer
<1>8. CASE BufferGranted(t)
  BY <1>8 DEF BufferGranted, AwaitBuffer
<1>9. CASE GetBufferReturns(t)
  BY <1>9 DEF GetBufferReturns, FinishSetup
<1>10. CASE ReleaseBuffer(t)
  BY <1>10 DEF ReleaseBuffer
<1>11. CASE AwaitProgress(t)
  BY <1>11 DEF AwaitProgress
<1>12. CASE ReportProgress(t)
  BY <1>12 DEF ReportProgress
<1>13. CASE Return(t)
  BY <1>13 DEF Return, FinishSetup
<1>14. CASE SetReady(t)
  BY <1>14 DEF SetReady
<1>15. CASE SignalOutput(t)
  BY <1>15 DEF SignalOutput
<1>16. QED
  BY <1>1, <1>2, <1>3, <1>4, <1>5, <1>6, <1>7, <1>8, <1>9, <1>10, <1>11, <1>12, <1>13,
       <1>14, <1>15 DEF Worker

(* and puts nobody else to sleep.                                          *)
LEMMA WorkerAsleep ==
  ASSUME NEW t \in Threads, Worker(t)
  PROVE  \A u \in asleep' : u \in asleep \/ u = t
<1> USE SignalWakes DEF Broadcast, Signal
<1>1. CASE Top(t)
  BY <1>1 DEF Top
<1>2. CASE Input(t)
  BY <1>2 DEF Input
<1>3. CASE Check(t)
  BY <1>3 DEF Check, FinishSetup
<1>4. CASE Begin(t)
  BY <1>4 DEF Begin
<1>5. CASE CodecFinishesSetup(t)
  BY <1>5 DEF CodecFinishesSetup, FinishSetup
<1>6. CASE RequestBuffer(t)
  BY <1>6 DEF RequestBuffer
<1>7. CASE SignalRequest(t)
  BY <1>7 DEF SignalRequest, AwaitBuffer
<1>8. CASE BufferGranted(t)
  BY <1>8 DEF BufferGranted, AwaitBuffer
<1>9. CASE GetBufferReturns(t)
  BY <1>9 DEF GetBufferReturns, FinishSetup
<1>10. CASE ReleaseBuffer(t)
  BY <1>10 DEF ReleaseBuffer
<1>11. CASE AwaitProgress(t)
  BY <1>11 DEF AwaitProgress
<1>12. CASE ReportProgress(t)
  BY <1>12 DEF ReportProgress
<1>13. CASE Return(t)
  BY <1>13 DEF Return, FinishSetup
<1>14. CASE SetReady(t)
  BY <1>14 DEF SetReady
<1>15. CASE SignalOutput(t)
  BY <1>15 DEF SignalOutput
<1>16. QED
  BY <1>1, <1>2, <1>3, <1>4, <1>5, <1>6, <1>7, <1>8, <1>9, <1>10, <1>11, <1>12, <1>13,
       <1>14, <1>15 DEF Worker

(* Who completes a frame wakes all that wait for it.                       *)
LEMMA WorkerReports ==
  ASSUME NEW t \in Threads, Worker(t)
  PROVE  progress' = progress \/ asleep' = asleep \ ProgressWaiters(t)
<1> USE DEF codec, Broadcast
<1>1. CASE Top(t)
  BY <1>1 DEF Top
<1>2. CASE Input(t)
  BY <1>2 DEF Input
<1>3. CASE Check(t)
  BY <1>3 DEF Check, FinishSetup
<1>4. CASE Begin(t)
  BY <1>4 DEF Begin
<1>5. CASE CodecFinishesSetup(t)
  BY <1>5 DEF CodecFinishesSetup, FinishSetup
<1>6. CASE RequestBuffer(t)
  BY <1>6 DEF RequestBuffer
<1>7. CASE SignalRequest(t)
  BY <1>7 DEF SignalRequest, AwaitBuffer
<1>8. CASE BufferGranted(t)
  BY <1>8 DEF BufferGranted, AwaitBuffer
<1>9. CASE GetBufferReturns(t)
  BY <1>9 DEF GetBufferReturns, FinishSetup
<1>10. CASE ReleaseBuffer(t)
  BY <1>10 DEF ReleaseBuffer
<1>11. CASE AwaitProgress(t)
  BY <1>11 DEF AwaitProgress
<1>12. CASE ReportProgress(t)
  BY <1>12 DEF ReportProgress
<1>13. CASE Return(t)
  BY <1>13 DEF Return, FinishSetup
<1>14. CASE SetReady(t)
  BY <1>14 DEF SetReady
<1>15. CASE SignalOutput(t)
  BY <1>15 DEF SignalOutput
<1>16. QED
  BY <1>1, <1>2, <1>3, <1>4, <1>5, <1>6, <1>7, <1>8, <1>9, <1>10, <1>11, <1>12, <1>13,
       <1>14, <1>15 DEF Worker

(* A worker is not done with its packet before its frame is complete.      *)
LEMMA WorkerProgress ==
  ASSUME Slots, NEW t \in Threads, States(t), Worker(t),
         state[t] = "ready" \/ wpc[t] = "returned" => progress[t]
  PROVE  state'[t] = "ready" \/ wpc'[t] = "returned" => progress'[t]
<1> USE DEF Slots, States, codec
<1>1. CASE Top(t)
  BY <1>1 DEF Top
<1>2. CASE Input(t)
  BY <1>2 DEF Input
<1>3. CASE Check(t)
  BY <1>3 DEF Check, FinishSetup
<1>4. CASE Begin(t)
  BY <1>4 DEF Begin
<1>5. CASE CodecFinishesSetup(t)
  BY <1>5 DEF CodecFinishesSetup, FinishSetup
<1>6. CASE RequestBuffer(t)
  BY <1>6 DEF RequestBuffer
<1>7. CASE SignalRequest(t)
  BY <1>7 DEF SignalRequest, AwaitBuffer
<1>8. CASE BufferGranted(t)
  BY <1>8 DEF BufferGranted, AwaitBuffer
<1>9. CASE GetBufferReturns(t)
  BY <1>9 DEF GetBufferReturns, FinishSetup
<1>10. CASE ReleaseBuffer(t)
  BY <1>10 DEF ReleaseBuffer
<1>11. CASE AwaitProgress(t)
  BY <1>11 DEF AwaitProgress
<1>12. CASE ReportProgress(t)
  BY <1>12 DEF ReportProgress
<1>13. CASE Return(t)
  BY <1>13 DEF Return, FinishSetup
<1>14. CASE SetReady(t)
  BY <1>14 DEF SetReady
<1>15. CASE SignalOutput(t)
  BY <1>15 DEF SignalOutput
<1>16. QED
  BY <1>1, <1>2, <1>3, <1>4, <1>5, <1>6, <1>7, <1>8, <1>9, <1>10, <1>11, <1>12, <1>13,
       <1>14, <1>15 DEF Worker

(* The holder of buffer_mutex.                                             *)
LEMMA WorkerBuffer ==
  ASSUME Slots, BufferHeld, NEW t \in Threads, Worker(t)
  PROVE  BufferHeld'
<1> USE FrameAssumption DEF Slots, BufferHeld, Threads, Nobody
<1>1. CASE Top(t)
  BY <1>1 DEF Top
<1>2. CASE Input(t)
  <2>1. /\ wpc[t] = "input" /\ wpc' \in {wpc, [wpc EXCEPT ![t] = "check"]}
        /\ UNCHANGED buffer_mutex
    BY <1>2, Zenon DEF Input
  <2>2. \A u \in Threads : wpc'[u] = wpc[u] \/ (u = t /\ wpc'[u] = "check")
    BY <2>1
  <2>3. QED
    BY <2>1, <2>2
<1>3. CASE Check(t)
  BY <1>3 DEF Check, FinishSetup
<1>4. CASE Begin(t)
  BY <1>4 DEF Begin
<1>5. CASE CodecFinishesSetup(t)
  BY <1>5 DEF CodecFinishesSetup, FinishSetup
<1>6. CASE RequestBuffer(t)
  BY <1>6 DEF RequestBuffer
<1>7. CASE SignalRequest(t)
  BY <1>7 DEF SignalRequest, AwaitBuffer
<1>8. CASE BufferGranted(t)
  BY <1>8 DEF BufferGranted, AwaitBuffer
<1>9. CASE GetBufferReturns(t)
  BY <1>9 DEF GetBufferReturns, FinishSetup
<1>10. CASE ReleaseBuffer(t)
  BY <1>10 DEF ReleaseBuffer
<1>11. CASE AwaitProgress(t)
  BY <1>11 DEF AwaitProgress
<1>12. CASE ReportProgress(t)
  BY <1>12 DEF ReportProgress
<1>13. CASE Return(t)
  BY <1>13 DEF Return, FinishSetup
<1>14. CASE SetReady(t)
  BY <1>14 DEF SetReady
<1>15. CASE SignalOutput(t)
  BY <1>15 DEF SignalOutput
<1>16. QED
  BY <1>1, <1>2, <1>3, <1>4, <1>5, <1>6, <1>7, <1>8, <1>9, <1>10, <1>11, <1>12, <1>13,
       <1>14, <1>15 DEF Worker

(* A worker goes to sleep only while it has something to wait for.         *)
LEMMA WorkerSelf ==
  ASSUME Slots, NEW t \in Threads, States(t), WorkerSleeps(t), Worker(t)
  PROVE  WorkerSleeps(t)'
<1> SUFFICES ASSUME t \in asleep' PROVE WorkerSleeps(t)'
  BY DEF WorkerSleeps
<1> USE StepperAwake, SignalWakes DEF Broadcast, Signal, Slots
<1>1. CASE Top(t)
  BY <1>1 DEF Top
<1>2. CASE Input(t)
  <2>1. wpc[t] = "input" /\ state[t] = "ready" /\ ~die /\ wpc' = wpc
    BY <1>2 DEF Input
  <2>2. state' = state /\ die' = die
    BY <1>2 DEF Input, client
  <2>3. QED
    BY <2>1, <2>2 DEF WorkerSleeps, ToBeWoken
<1>3. CASE Check(t)
  BY <1>3 DEF Check, FinishSetup
<1>4. CASE Begin(t)
  BY <1>4 DEF Begin
<1>5. CASE CodecFinishesSetup(t)
  BY <1>5 DEF CodecFinishesSetup, FinishSetup
<1>6. CASE RequestBuffer(t)
  BY <1>6 DEF RequestBuffer
<1>7. CASE SignalRequest(t)
  <2>1. wpc[t] = "request" /\ state' = state
    BY <1>7 DEF SignalRequest
  <2>2. state[t] # "setup" /\ wpc' = [wpc EXCEPT ![t] = "granted"]
    BY <1>7 DEF SignalRequest, AwaitBuffer
  <2>3. QED
    BY <2>1, <2>2 DEF States, WorkerSleeps
<1>8. CASE BufferGranted(t)
  <2>1. wpc[t] = "granted" /\ state' = state
    BY <1>8 DEF BufferGranted
  <2>2. state[t] # "setup" /\ wpc' = [wpc EXCEPT ![t] = "granted"]
    BY <1>8 DEF BufferGranted, AwaitBuffer
  <2>3. QED
    BY <2>1, <2>2 DEF States, WorkerSleeps
<1>9. CASE GetBufferReturns(t)
  BY <1>9 DEF GetBufferReturns, FinishSetup
<1>10. CASE ReleaseBuffer(t)
  BY <1>10 DEF ReleaseBuffer
<1>11. CASE AwaitProgress(t)
  <2>1. ~Complete(ref[t]) /\ wpc' = [wpc EXCEPT ![t] = "await"]
    BY <1>11 DEF AwaitProgress
  <2>2. packet' = packet /\ ref' = ref /\ progress' = progress
    BY <1>11 DEF AwaitProgress, given, codec
  <2>3. QED
    BY <2>1, <2>2 DEF Complete, WorkerSleeps
<1>12. CASE ReportProgress(t)
  BY <1>12 DEF ReportProgress
<1>13. CASE Return(t)
  BY <1>13 DEF Return, FinishSetup
<1>14. CASE SetReady(t)
  BY <1>14 DEF SetReady
<1>15. CASE SignalOutput(t)
  BY <1>15 DEF SignalOutput
<1>16. QED
  BY <1>1, <1>2, <1>3, <1>4, <1>5, <1>6, <1>7, <1>8, <1>9, <1>10, <1>11, <1>12, <1>13,
       <1>14, <1>15 DEF Worker

(* The frames of the workers, and who asks for a buffer, in a step of a    *)
(* worker ...                                                              *)
LEMMA WorkerReferring ==
  ASSUME IInv, Sleep, NEW t \in Threads, Worker(t)
  PROVE  BufferHeld' /\ \A u \in Threads : Referring(u)'
<1>1. Slots /\ States(t) /\ \A u \in Threads : Referring(u)
  BY TypeParts DEF IInv, Workers, Sleep
<1>2. BufferHeld'
  BY <1>1, WorkerBuffer DEF Sleep
<1>3. UNCHANGED <<ref, packet, accepted>>
  BY WorkerLeaves DEF given
<1>4. state'[t] = "ready" \/ wpc'[t] = "returned" => progress'[t]
  <2>1. state[t] = "ready" \/ wpc[t] = "returned" => progress[t]
    BY <1>1 DEF Referring
  <2>2. QED
    BY <1>1, <2>1, WorkerProgress
<1>5. ASSUME NEW u \in Threads
      PROVE  state'[u] = "ready" \/ wpc'[u] = "returned" => progress'[u]
  <2>1. CASE u = t
    BY <1>4, <2>1
  <2>2. CASE u # t
    <3>1. wpc'[u] = wpc[u] /\ state'[u] = state[u] /\ progress'[u] = progress[u]
      BY <1>1, <2>2, WorkerOthers
    <3>2. state[u] = "ready" \/ wpc[u] = "returned" => progress[u]
      BY <1>1 DEF Referring
    <3>3. QED
      BY <3>1, <3>2, Zenon
  <2>3. QED
    BY <2>1, <2>2
<1>6. ASSUME NEW u \in Threads
      PROVE  Referring(u)'
  <2>1. /\ ref[u].owner # Nobody => ref[u].packet < packet[u]
        /\ packet[u] <= accepted
    BY <1>1 DEF Referring
  <2>2. (/\ ref[u].owner # Nobody => ref[u].packet < packet[u]
         /\ packet[u] <= accepted)'
    BY <1>3, <2>1 DEF Nobody
  <2>3. QED
    BY <1>5, <2>2 DEF Referring
<1>7. QED
  BY <1>2, <1>6


(* A packet is numbered higher than the ones before it, and so than the    *)
(* one its frame refers to.                                                *)
LEMMA FillReferring ==
  ASSUME IInv, \A u \in Threads : Referring(u), Fill
  PROVE  \A u \in Threads : Referring(u)'
<1>0. Scalars /\ Slots /\ Refs /\ Indices /\ Ring /\ Workers
  BY TypeParts DEF IInv
<1>1. /\ accepted \in Nat /\ accepted' = accepted + 1 /\ cur \in Threads
      /\ packet \in [Threads -> 0 .. MaxPackets] /\ progress \in [Threads -> BOOLEAN]
      /\ state \in [Threads -> {"ready", "setup", "buffer", "set"}]
      /\ prev_thread # Nobody => prev_thread \in Threads
      /\ ref \in [Threads -> [packet : 0 .. MaxPackets, owner : Threads \cup {Nobody}]]
  BY <1>0, FrameAssumption DEF Fill, Scalars, Slots, Refs
<1>2. /\ packet' = [packet EXCEPT ![cur] = accepted + 1]
      /\ ref' = [ref EXCEPT ![cur] =
                   [packet |-> IF prev_thread = Nobody THEN 0 ELSE packet[prev_thread],
                    owner  |-> prev_thread]]
      /\ progress' = [progress EXCEPT ![cur] = ~UpdatesContext]
      /\ state' = [state EXCEPT ![cur] = "setup"]
      /\ UNCHANGED <<wpc, buffer_mutex>>
  BY DEF Fill
<1>3. wpc[cur] # "returned"
  <2>1. state[cur] = "ready" /\ States(cur)
    BY <1>0, <1>1, CurIsReady DEF Fill, Submitting, Workers, Scalars
  <2>2. QED
    BY <2>1 DEF States
<1>4. ASSUME NEW u \in Threads, u = cur
      PROVE  Referring(u)'
  <2>1. state'[cur] = "setup" /\ wpc'[cur] # "returned"
    BY <1>1, <1>2, <1>3
  <2>2. packet'[cur] = accepted + 1 /\ packet'[cur] <= accepted'
    BY <1>1, <1>2
  <2>3. ref'[cur].owner # Nobody => ref'[cur].packet < packet'[cur]
    <3>1. /\ ref'[cur].owner = prev_thread
          /\ ref'[cur].packet = IF prev_thread = Nobody THEN 0 ELSE packet[prev_thread]
      BY <1>1, <1>2
    <3>2. prev_thread # Nobody => packet[prev_thread] \in Nat /\ packet[prev_thread] <= accepted
      BY <1>1, FrameAssumption DEF Referring
    <3>3. QED
      BY <1>1, <2>2, <3>1, <3>2
  <2>4. QED
    BY <1>4, <2>1, <2>2, <2>3 DEF Nobody, Referring
<1>5. ASSUME NEW u \in Threads, u # cur
      PROVE  Referring(u)'
  <2>1. /\ state'[u] = state[u] /\ progress'[u] = progress[u] /\ wpc'[u] = wpc[u]
        /\ ref'[u] = ref[u] /\ packet'[u] = packet[u]
    BY <1>1, <1>2, <1>5
  <2>2. /\ state[u] = "ready" \/ wpc[u] = "returned" => progress[u]
        /\ ref[u].owner # Nobody => ref[u].packet < packet[u]
        /\ packet[u] <= accepted
    BY DEF Referring
  <2>3. packet'[u] <= accepted'
    BY <1>1, <2>1, <2>2, FrameAssumption
  <2>4. (state[u] = "ready" \/ wpc[u] = "returned" => progress[u])'
    BY <2>1, <2>2, Zenon
  <2>5. (ref[u].owner # Nobody => ref[u].packet < packet[u])'
    BY <1>1, <2>1, <2>2 DEF Nobody
  <2>6. QED
    BY <2>3, <2>4, <2>5 DEF Referring
<1>6. QED
  BY <1>4, <1>5, Zenon


(* ... and of the client, whose packets are numbered upwards.              *)
LEMMA ClientReferring ==
  ASSUME IInv, Sleep, Call \/ InCall
  PROVE  BufferHeld' /\ \A u \in Threads : Referring(u)'
<1> USE TypeParts DEF client, given, codec, IInv, Sleep, BufferHeld, Referring
<1>1. CASE Decode
  BY <1>1 DEF Decode
<1>2. CASE StartParking
  BY <1>2 DEF StartParking
<1>3. CASE UserUpdated
  BY <1>3 DEF UserUpdated
<1>4. CASE LockWorker
  BY <1>4 DEF LockWorker
<1>5. CASE ReleaseDelayed
  BY <1>5 DEF ReleaseDelayed
<1>6. CASE AwaitPrevious
  BY <1>6 DEF AwaitPrevious
<1>7. CASE Updated
  BY <1>7 DEF Updated
<1>8. CASE UpdateFails
  BY <1>8 DEF UpdateFails
<1>9. CASE Fill
  <2>1. \A u \in Threads : Referring(u)'
    <3> HIDE DEF IInv, Referring
    <3>1. IInv /\ \A u \in Threads : Referring(u)
      BY DEF IInv, Sleep
    <3>2. QED
      BY <1>9, <3>1, FillReferring
  <2>2. BufferHeld'
    BY <1>9 DEF Fill
  <2>3. QED
    BY <2>1, <2>2
<1>10. CASE Callback
  <2>1. UNCHANGED <<wpc, buffer_mutex, progress, ref, packet, accepted>>
    BY <1>10 DEF Callback
  <2>2. \A u \in Threads : state'[u] = "ready" => state[u] = "ready"
    BY <1>10 DEF Callback, Slots
  <2>3. QED
    BY <2>1, <2>2 DEF Nobody
<1>11. CASE Submitted
  BY <1>11 DEF Submitted
<1>12. CASE Collect
  BY <1>12 DEF Collect, AwaitOutput, Collected
<1>13. CASE Park
  BY <1>13 DEF Park, AwaitOutput
<1>14. CASE Flush
  BY <1>14 DEF Flush, AllParked
<1>15. CASE Die
  BY <1>15 DEF Die, AllParked
<1>16. CASE WakeToDie
  BY <1>16 DEF WakeToDie
<1>17. CASE Join
  BY <1>17 DEF Join
<1>18. QED
  BY <1>1, <1>2, <1>3, <1>4, <1>5, <1>6, <1>7, <1>8, <1>9, <1>10, <1>11, <1>12, <1>13,
       <1>14, <1>15, <1>16, <1>17 DEF Call, InCall

(* While the client serves a worker nobody waits for the frame of that     *)
(* worker, which is the last in the line.                                  *)
LEMMA NobodyAwaitsCur ==
  ASSUME IInv, Sleep, cpc = "callback", state[cur] # "ready"
  PROVE  \A w \in Threads : w \in asleep /\ wpc[w] = "await" => ref[w].owner # cur
<1> SUFFICES ASSUME NEW w \in Threads, w \in asleep, wpc[w] = "await", ref[w].owner = cur
             PROVE  FALSE
  OBVIOUS
<1>1. cur \in Threads /\ accepted \in Nat
  BY TypeParts DEF IInv, Scalars
<1>2. cur \in pending
  BY <1>1 DEF IInv, Workers, Outstanding
<1>3. packet[cur] = accepted
  BY <1>1, <1>2 DEF IInv, Ring, InLine, Age, Last, HasSubmitted, Threads
<1>4. packet[cur] = ref[w].packet
  BY DEF Sleep, WorkerSleeps, Complete
<1>5. cur # Nobody
  BY <1>1, FrameAssumption DEF Threads, Nobody
<1>6. ref[w].packet < packet[w] /\ packet[w] <= accepted
  BY <1>5 DEF Sleep, Referring
<1>7. packet[w] \in Nat
  BY TypeParts, FrameAssumption DEF IInv, Slots
<1>8. QED
  BY <1>1, <1>3, <1>4, <1>6, <1>7


(* The client that serves t sleeps while t sets up or is about to signal.  *)
LEMMA WorkerServed ==
  ASSUME IInv, Sleep, NEW t \in Threads, Worker(t), cpc = "callback", cur = t,
         Client \in asleep, Client \in asleep'
  PROVE  state'[t] = "setup" \/ wpc'[t] = "request"
<1>0. /\ Slots /\ States(t) /\ NeedsCallback /\ Client \in ProgressWaiters(t)
      /\ state[t] = "setup" \/ wpc[t] = "request"
  BY TypeParts DEF IInv, Workers, ClientWaits, Sleep, ClientSleeps, ProgressWaiters
<1> USE <1>0 DEF Slots, States, Broadcast
<1>1. CASE Top(t)
  BY <1>1 DEF Top
<1>2. CASE Input(t)
  BY <1>2 DEF Input
<1>3. CASE Check(t)
  <2>1. ~SafeCallbacks
    BY DEF NeedsCallback
  <2>2. QED
    BY <1>3, <2>1 DEF Check
<1>4. CASE Begin(t)
  BY <1>4 DEF Begin
<1>5. CASE CodecFinishesSetup(t)
  BY <1>5 DEF CodecFinishesSetup, FinishSetup
<1>6. CASE RequestBuffer(t)
  BY <1>6 DEF RequestBuffer
<1>7. CASE SignalRequest(t)
  <2>1. wpc[t] = "request" /\ state[cur] # "ready"
    BY <1>7 DEF SignalRequest, States
  <2>2. ProgressWaiters(t) \cap asleep \subseteq {Client}
    BY <2>1, NobodyAwaitsCur DEF ProgressWaiters
  <2>3. \A s \in Signalled(ProgressWaiters(t)) : Client \notin s
    BY <2>2 DEF Signalled
  <2>4. Client # t
    BY FrameAssumption DEF Client, Threads
  <2>5. Client \notin asleep'
    BY <1>7, <2>3, <2>4 DEF SignalRequest, AwaitBuffer
  <2>6. QED
    BY <2>5
<1>8. CASE BufferGranted(t)
  BY <1>8 DEF BufferGranted, AwaitBuffer
<1>9. CASE GetBufferReturns(t)
  BY <1>9 DEF GetBufferReturns, FinishSetup
<1>10. CASE ReleaseBuffer(t)
  BY <1>10 DEF ReleaseBuffer
<1>11. CASE AwaitProgress(t)
  BY <1>11 DEF AwaitProgress
<1>12. CASE ReportProgress(t)
  BY <1>12 DEF ReportProgress
<1>13. CASE Return(t)
  BY <1>13 DEF Return, FinishSetup
<1>14. CASE SetReady(t)
  BY <1>14 DEF SetReady
<1>15. CASE SignalOutput(t)
  BY <1>15 DEF SignalOutput
<1>16. QED
  BY <1>1, <1>2, <1>3, <1>4, <1>5, <1>6, <1>7, <1>8, <1>9, <1>10, <1>11, <1>12, <1>13,
       <1>14, <1>15 DEF Worker

(* The client that waits for the frame of t sleeps until t is done.        *)
LEMMA WorkerCollected ==
  ASSUME Slots, NEW t \in Threads, States(t), Worker(t), finished = t,
         cpc \in {"collect", "flush", "free"}, state[t] # "ready" \/ wpc[t] = "signal",
         Client \in asleep, Client \in asleep'
  PROVE  state'[t] # "ready" \/ wpc'[t] = "signal"
<1> USE DEF Slots, States
<1>1. CASE Top(t)
  BY <1>1 DEF Top
<1>2. CASE Input(t)
  BY <1>2 DEF Input
<1>3. CASE Check(t)
  BY <1>3 DEF Check, FinishSetup
<1>4. CASE Begin(t)
  BY <1>4 DEF Begin
<1>5. CASE CodecFinishesSetup(t)
  BY <1>5 DEF CodecFinishesSetup, FinishSetup
<1>6. CASE RequestBuffer(t)
  BY <1>6 DEF RequestBuffer
<1>7. CASE SignalRequest(t)
  BY <1>7 DEF SignalRequest, AwaitBuffer
<1>8. CASE BufferGranted(t)
  BY <1>8 DEF BufferGranted, AwaitBuffer
<1>9. CASE GetBufferReturns(t)
  BY <1>9 DEF GetBufferReturns, FinishSetup
<1>10. CASE ReleaseBuffer(t)
  BY <1>10 DEF ReleaseBuffer
<1>11. CASE AwaitProgress(t)
  BY <1>11 DEF AwaitProgress
<1>12. CASE ReportProgress(t)
  BY <1>12 DEF ReportProgress
<1>13. CASE Return(t)
  BY <1>13 DEF Return, FinishSetup
<1>14. CASE SetReady(t)
  BY <1>14 DEF SetReady
<1>15. CASE SignalOutput(t)
  <2>1. Client \in OutputWaiters(t) /\ OutputWaiters(t) \subseteq {Client}
    BY DEF OutputWaiters
  <2>2. \A s \in Signalled(OutputWaiters(t)) : Client \notin s
    BY <2>1 DEF Signalled
  <2>3. QED
    BY <1>15, <2>2 DEF SignalOutput, Signal
<1>16. QED
  BY <1>1, <1>2, <1>3, <1>4, <1>5, <1>6, <1>7, <1>8, <1>9, <1>10, <1>11, <1>12, <1>13,
       <1>14, <1>15 DEF Worker

(* The client that sleeps, in a step of a worker;                          *)
LEMMA WorkerClientSleeps ==
  ASSUME IInv, Sleep, NEW t \in Threads, Worker(t)
  PROVE  ClientSleeps'
<1> SUFFICES ASSUME Client \in asleep' PROVE ClientSleeps'
  BY DEF ClientSleeps
<1>1. Slots /\ Scalars /\ (\A u \in Threads : States(u)) /\ Workers /\ ClientWaits
  BY TypeParts DEF IInv, Workers
<1>2. UNCHANGED <<cpc, cur, finished, prev_thread>> /\ cur \in Threads /\ finished \in Threads
  BY <1>1, WorkerLeaves DEF client, Scalars
<1>3. Client # t
  BY FrameAssumption DEF Client, Threads
<1>4. Client \in asleep
  BY <1>3, WorkerAsleep
<1>5. CASE cpc = "prev"
  <2>1. ClientWaits'
    BY <1>1, WorkerWaits
  <2>2. QED
    BY <1>2, <1>5, <2>1 DEF ClientWaits, ClientSleeps, Client
<1>6. CASE cpc = "callback"
  <2>1. CASE cur = t
    <3>1. state'[t] = "setup" \/ wpc'[t] = "request"
      BY <1>4, <1>6, <2>1, WorkerServed
    <3>2. QED
      BY <1>2, <1>6, <2>1, <3>1 DEF ClientSleeps
  <2>2. CASE cur # t
    <3>1. state'[cur] = state[cur] /\ wpc'[cur] = wpc[cur]
      BY <1>1, <1>2, <2>2, WorkerOthers
    <3>2. QED
      BY <1>2, <1>4, <1>6, <3>1 DEF Sleep, ClientSleeps
  <2>3. QED
    BY <2>1, <2>2
<1>7. CASE cpc \in {"collect", "flush", "free"}
  <2>1. state[finished] # "ready" \/ wpc[finished] = "signal"
    BY <1>4, <1>7 DEF Sleep, ClientSleeps
  <2>2. CASE finished = t
    <3>1. state'[t] # "ready" \/ wpc'[t] = "signal"
      BY <1>1, <1>4, <1>7, <2>1, <2>2, WorkerCollected
    <3>2. QED
      BY <1>2, <1>7, <2>2, <3>1 DEF ClientSleeps
  <2>3. CASE finished # t
    <3>1. state'[finished] = state[finished] /\ wpc'[finished] = wpc[finished]
      BY <1>1, <1>2, <2>3, WorkerOthers
    <3>2. QED
      BY <1>2, <1>7, <2>1, <3>1 DEF ClientSleeps
  <2>4. QED
    BY <2>2, <2>3
<1>8. QED
  BY <1>4, <1>5, <1>6, <1>7 DEF Sleep, ClientSleeps


(* and the workers that sleep;                                             *)
LEMMA WorkerWorkersSleep ==
  ASSUME IInv, Sleep, NEW t \in Threads, Worker(t)
  PROVE  \A u \in Threads : WorkerSleeps(u)'
<1>1. Slots /\ Refs /\ (\A u \in Threads : States(u) /\ WorkerSleeps(u))
  BY TypeParts DEF IInv, Workers, Sleep
<1>2. WorkerSleeps(t)'
  BY <1>1, WorkerSelf
<1>3. UNCHANGED <<cpc, finished, die, ref, packet>>
  BY WorkerLeaves DEF client, given
<1>4. ASSUME NEW u \in Threads, u # t, u \in asleep'
      PROVE  WorkerSleeps(u)'
  <2>1. wpc'[u] = wpc[u] /\ state'[u] = state[u]
    BY <1>1, <1>4, WorkerOthers
  <2>2. u \in asleep
    BY <1>4, WorkerAsleep
  <2>3. CASE wpc[u] = "input" /\ state[u] = "ready" /\ ToBeWoken(u)
    BY <1>3, <2>1, <2>3 DEF WorkerSleeps, ToBeWoken
  <2>4. CASE wpc[u] = "granted" /\ state[u] = "buffer"
    BY <2>1, <2>4 DEF WorkerSleeps
  <2>5. CASE wpc[u] = "await" /\ ~Complete(ref[u])
    <3>1. /\ ref[u].owner # Nobody /\ packet[ref[u].owner] = ref[u].packet
          /\ ~progress[ref[u].owner]
      BY <2>5 DEF Complete
    <3>2. ref[u].owner \in Threads
      BY <1>1, <3>1 DEF Refs
    <3>3. ~progress'[ref[u].owner]
      <4>1. CASE progress' = progress
        BY <3>1, <4>1
      <4>2. CASE asleep' = asleep \ ProgressWaiters(t)
        <5>1. ref[u].owner # t
          BY <1>4, <2>5, <4>2 DEF ProgressWaiters
        <5>2. progress'[ref[u].owner] = progress[ref[u].owner]
          BY <1>1, <3>2, <5>1, WorkerOthers
        <5>3. QED
          BY <3>1, <5>2, Zenon
      <4>3. QED
        BY <4>1, <4>2, WorkerReports
    <3>4. ~Complete(ref[u])'
      BY <1>3, <3>1, <3>3 DEF Complete, Nobody
    <3>5. QED
      BY <2>1, <2>5, <3>4 DEF WorkerSleeps
  <2>6. QED
    BY <1>1, <2>2, <2>3, <2>4, <2>5 DEF WorkerSleeps
<1>5. \A u \in Threads : u # t => WorkerSleeps(u)'
  BY <1>4 DEF WorkerSleeps
<1>6. QED
  BY <1>2, <1>5


(* the steps of the client: itself,                                        *)
LEMMA ClientClientSleeps ==
  ASSUME IInv, Sleep, Call \/ InCall
  PROVE  ClientSleeps'
<1> USE TypeParts, FrameAssumption DEF client, given, IInv, Slots, Scalars, Sleep,
      ClientSleeps, ClientWaits, Threads, Client, Broadcast, Signal, Awake
<1>1. CASE Decode
  BY <1>1 DEF Decode
<1>2. CASE StartParking
  BY <1>2 DEF StartParking
<1>3. CASE UserUpdated
  BY <1>3 DEF UserUpdated
<1>4. CASE LockWorker
  BY <1>4 DEF LockWorker
<1>5. CASE ReleaseDelayed
  BY <1>5 DEF ReleaseDelayed
<1>6. CASE AwaitPrevious
  BY <1>6 DEF AwaitPrevious
<1>7. CASE Updated
  BY <1>7 DEF Updated
<1>8. CASE UpdateFails
  BY <1>8 DEF UpdateFails
<1>9. CASE Fill
  BY <1>9, SignalWakes DEF Fill
<1>10. CASE Callback
  <2>1. CASE state[cur] \in {"set", "ready", "buffer"}
    BY <1>10, <2>1, SignalWakes DEF Callback
  <2>2. CASE state[cur] = "setup"
    BY <1>10, <2>2 DEF Callback
  <2>3. QED
    BY <2>1, <2>2
<1>11. CASE Submitted
  BY <1>11 DEF Submitted
<1>12. CASE Collect
  BY <1>12 DEF Collect, AwaitOutput, Collected
<1>13. CASE Park
  BY <1>13 DEF Park, AwaitOutput
<1>14. CASE Flush
  BY <1>14 DEF Flush, AllParked
<1>15. CASE Die
  BY <1>15 DEF Die, AllParked
<1>16. CASE WakeToDie
  BY <1>16, SignalWakes DEF WakeToDie
<1>17. CASE Join
  BY <1>17 DEF Join
<1>18. QED
  BY <1>1, <1>2, <1>3, <1>4, <1>5, <1>6, <1>7, <1>8, <1>9, <1>10, <1>11, <1>12, <1>13,
       <1>14, <1>15, <1>16, <1>17 DEF Call, InCall

(* A step that is not about a worker leaves it asleep.                     *)
LEMMA LeftAsleep ==
  ASSUME NEW u \in Threads, WorkerSleeps(u), u \in asleep' => u \in asleep,
         UNCHANGED <<wpc, state, ref, packet, progress>>, ~die, ~die'
  PROVE  WorkerSleeps(u)'
  BY DEF WorkerSleeps, ToBeWoken, Complete, Nobody

(* The workers in the two steps in which the client wakes one with a       *)
(* packet,                                                                 *)
LEMMA FillWakes ==
  ASSUME IInv, Sleep, Fill
  PROVE  \A u \in Threads : WorkerSleeps(u)'
<1>1. /\ Scalars /\ Slots /\ Refs /\ Indices /\ Ring /\ Workers /\ ClientWaits
      /\ cpc \in Submitting /\ cur \in Threads
  BY TypeParts DEF IInv, Fill, Submitting, Scalars
<1>2. state[cur] = "ready" /\ States(cur) /\ progress[cur]
  BY <1>1, CurIsReady DEF Workers, Sleep, Referring
<1>3. /\ state' = [state EXCEPT ![cur] = "setup"] /\ UNCHANGED <<wpc, die>> /\ ~die
      /\ packet' = [packet EXCEPT ![cur] = accepted + 1]
      /\ progress' = [progress EXCEPT ![cur] = ~UpdatesContext]
      /\ asleep' \in Signalled(InputWaiters(cur))
  BY <1>1 DEF Fill, client, ClientWaits, Submitting, Signal
<1>4. asleep' \subseteq asleep
  BY <1>3, SignalWakes
<1>5. cur \notin asleep'
  <2>1. cur \in asleep => wpc[cur] = "input"
    BY <1>1, <1>2 DEF States, Sleep, WorkerSleeps
  <2>2. CASE cur \in asleep
    BY <1>3, <2>1, <2>2 DEF InputWaiters, Signalled
  <2>3. QED
    BY <1>4, <2>2
<1>6. ASSUME NEW u \in Threads, u \in asleep'
      PROVE  WorkerSleeps(u)'
  <2>1. u # cur /\ u \in asleep /\ WorkerSleeps(u)
    BY <1>4, <1>5, <1>6 DEF Sleep
  <2>2. wpc'[u] = wpc[u] /\ state'[u] = state[u]
    BY <1>1, <1>3, <2>1 DEF Slots
  <2>3. CASE wpc[u] = "input" /\ state[u] = "ready"
    BY <1>3, <2>2, <2>3 DEF WorkerSleeps, ToBeWoken
  <2>4. CASE wpc[u] = "granted" /\ state[u] = "buffer"
    BY <2>2, <2>4 DEF WorkerSleeps
  <2>5. CASE wpc[u] = "await" /\ ~Complete(ref[u])
    <3>1. /\ ref[u].owner # Nobody /\ packet[ref[u].owner] = ref[u].packet
          /\ ~progress[ref[u].owner] /\ ref'[u] = ref[u]
      BY <1>1, <1>6, <2>1, <2>5 DEF Complete, Fill, Refs
    <3>2. ref[u].owner \in Threads /\ ref[u].owner # cur
      BY <1>1, <1>2, <3>1 DEF Refs
    <3>3. ~Complete(ref[u])'
      <4>1. packet'[ref[u].owner] = packet[ref[u].owner]
        BY <1>1, <1>3, <3>2 DEF Slots
      <4>2. ~progress'[ref[u].owner]
        BY <1>1, <1>3, <3>1, <3>2 DEF Slots
      <4>3. QED
        BY <3>1, <4>1, <4>2 DEF Complete, Nobody
    <3>4. QED
      BY <2>2, <2>5, <3>3 DEF WorkerSleeps
  <2>6. QED
    BY <2>1, <2>3, <2>4, <2>5 DEF WorkerSleeps
<1>7. QED
  BY <1>6 DEF WorkerSleeps

(* or with the buffer it asked for.                                        *)
LEMMA CallbackWakes ==
  ASSUME IInv, Sleep, Callback
  PROVE  \A u \in Threads : WorkerSleeps(u)'
<1>1. /\ Scalars /\ Slots /\ Workers /\ ClientWaits /\ cur \in Threads /\ cpc = "callback"
      /\ \A u \in Threads : WorkerSleeps(u)
  BY TypeParts DEF IInv, Callback, Scalars, Sleep
<1>2. ~die /\ ~die' /\ UNCHANGED <<wpc, ref, packet, progress, finished>> /\ Client \notin Threads
  BY <1>1, FrameAssumption DEF Callback, ClientWaits, client, codec, given, Client, Threads
<1>3. CASE state' = state /\ asleep' \subseteq asleep \cup {Client}
  BY <1>1, <1>2, <1>3, LeftAsleep
<1>4. CASE /\ state[cur] = "buffer" /\ state' = [state EXCEPT ![cur] = "setup"]
           /\ asleep' \in Signalled(ProgressWaiters(cur))
  <2>1. asleep' \subseteq asleep
    BY <1>4, SignalWakes
  <2>2. cur \notin asleep'
    <3>1. cur \in asleep => wpc[cur] = "granted"
      BY <1>1, <1>4 DEF Workers, States, WorkerSleeps
    <3>2. CASE cur \in asleep
      <4>1. cur \in ProgressWaiters(cur)
        BY <1>1, <3>1, <3>2 DEF ProgressWaiters
      <4>2. ProgressWaiters(cur) \cap asleep \subseteq {cur}
        <5>1. Client \notin asleep
          BY DEF Callback, Awake
        <5>2. \A w \in Threads : w \in asleep /\ wpc[w] = "await" => ref[w].owner # cur
          BY <1>1, <1>4, NobodyAwaitsCur
        <5>3. QED
          BY <5>1, <5>2 DEF ProgressWaiters
      <4>3. QED
        BY <1>4, <3>2, <4>1, <4>2 DEF Signalled
    <3>3. QED
      BY <2>1, <3>2
  <2>3. ASSUME NEW u \in Threads, u \in asleep'
        PROVE  WorkerSleeps(u)'
    <3>1. u # cur /\ u \in asleep /\ WorkerSleeps(u) /\ state'[u] = state[u]
      BY <1>1, <1>4, <2>1, <2>2, <2>3 DEF Slots
    <3>2. QED
      BY <1>2, <3>1 DEF WorkerSleeps, ToBeWoken, Complete, Nobody
  <2>4. QED
    BY <2>3 DEF WorkerSleeps
<1>5. QED
  BY <1>3, <1>4 DEF Callback, Signal

(* The workers in the steps that end the threads: each is woken before it  *)
(* is joined.                                                              *)
LEMMA EveryoneIsToldToDie ==
  ASSUME IInv, Sleep, Die \/ WakeToDie \/ Join
  PROVE  \A u \in Threads : WorkerSleeps(u)'
<1>1. /\ Scalars /\ Slots /\ Workers /\ ClientWaits /\ finished \in 0 .. ThreadCount - 1
      /\ ThreadCount \in Nat
  BY TypeParts, FrameAssumption DEF IInv, Scalars, Threads
<1>2. UNCHANGED <<wpc, state, ref, packet, progress>> /\ asleep' \subseteq asleep
  BY SignalWakes DEF Die, WakeToDie, Join, codec, given, Signal
<1>3. /\ \A u \in Threads : state[u] = "ready" /\ u \in 0 .. ThreadCount - 1
      /\ \A u \in Threads : u \in asleep => wpc[u] = "input" /\ ToBeWoken(u)
  <2>1. \A u \in Threads : state[u] = "ready" /\ u \in 0 .. ThreadCount - 1
    <3>1. CASE Die
      BY <1>1, <3>1 DEF Die, AllParked, ClientWaits, Threads
    <3>2. CASE WakeToDie \/ Join
      BY <1>1, <3>2 DEF WakeToDie, Join, ClientWaits, Threads
    <3>3. QED
      BY <3>1, <3>2
  <2>2. QED
    BY <1>1, <2>1 DEF Sleep, WorkerSleeps, Workers, States
<1>4. ASSUME NEW u \in Threads, u \in asleep'
      PROVE  ToBeWoken(u)'
  <2>1. u \in asleep /\ u \in 0 .. ThreadCount - 1 /\ wpc[u] = "input" /\ ToBeWoken(u)
    BY <1>2, <1>3, <1>4
  <2>2. CASE Die
    BY <2>1, <2>2 DEF Die, ToBeWoken
  <2>3. CASE WakeToDie
    <3>1. die /\ cpc = "kill" /\ finished <= u /\ cpc' = "join" /\ finished' = finished
      BY <1>1, <2>1, <2>3 DEF WakeToDie, ClientWaits, ToBeWoken, client
    <3>2. finished # u
      <4>1. asleep' \in Signalled(InputWaiters(finished))
        BY <2>3 DEF WakeToDie, Signal
      <4>2. QED
        BY <1>4, <2>1, <4>1 DEF InputWaiters, Signalled
    <3>3. QED
      BY <1>1, <2>1, <3>1, <3>2 DEF ToBeWoken
  <2>4. CASE Join
    <3>1. /\ die /\ cpc = "join" /\ finished < u /\ finished' = After(finished)
          /\ cpc' = IF finished = ThreadCount - 1 THEN "freed" ELSE "kill"
      BY <1>1, <2>1, <2>4 DEF Join, ClientWaits, ToBeWoken
    <3>2. cpc' = "kill" /\ finished' = finished + 1
      BY <1>1, <2>1, <3>1 DEF After, Wrap
    <3>3. QED
      BY <1>1, <2>1, <3>1, <3>2 DEF ToBeWoken
  <2>5. QED
    BY <2>2, <2>3, <2>4
<1>5. QED
  BY <1>2, <1>3, <1>4 DEF WorkerSleeps

(* The workers that sleep, in any step of the client.                      *)
LEMMA ClientWorkersSleep ==
  ASSUME IInv, Sleep, Call \/ InCall
  PROVE  \A u \in Threads : WorkerSleeps(u)'
<1>1. CASE Fill
  BY <1>1, FillWakes
<1>2. CASE Callback
  BY <1>2, CallbackWakes
<1>3. CASE Die \/ WakeToDie \/ Join
  BY <1>3, EveryoneIsToldToDie
<1>4. CASE \/ Decode \/ StartParking \/ UserUpdated \/ LockWorker \/ ReleaseDelayed
           \/ AwaitPrevious \/ Updated \/ UpdateFails \/ Submitted \/ Collect \/ Park \/ Flush
  <2>1. ~die
    BY <1>4 DEF IInv, ClientWaits, Decode, StartParking, UserUpdated, LockWorker,
         ReleaseDelayed, AwaitPrevious, Updated, UpdateFails, Submitted, Collect, Park, Flush
  <2>2. UNCHANGED <<wpc, state, ref, packet, progress, die>>
    BY <1>4 DEF client, codec, given, Decode, StartParking, UserUpdated, LockWorker,
         ReleaseDelayed, AwaitPrevious, Updated, UpdateFails, Submitted, Collect, Park, Flush
  <2>3. asleep' \subseteq asleep \cup {Client}
    BY <1>4 DEF Decode, StartParking, UserUpdated, LockWorker, ReleaseDelayed, AwaitPrevious,
         Updated, UpdateFails, Submitted, Collect, Park, Flush, AwaitOutput
  <2>4. \A u \in Threads : u # Client
    BY FrameAssumption DEF Client, Threads
  <2>5. QED
    BY <2>1, <2>2, <2>3, <2>4, LeftAsleep DEF Sleep
<1>5. QED
  BY <1>1, <1>2, <1>3, <1>4 DEF Call, InCall

(* Nobody sleeps in vain in any state.                                     *)
LEMMA SleepersWait == Spec => [](IInv /\ Sleep)
<1>1. Init => Sleep
  <2> SUFFICES ASSUME Init PROVE Sleep
    OBVIOUS
  <2>1. ClientSleeps /\ \A t \in Threads : WorkerSleeps(t)
    BY DEF Init, ClientSleeps, WorkerSleeps
  <2>2. BufferHeld
    BY FrameAssumption DEF Init, BufferHeld, Threads, Nobody
  <2>3. \A t \in Threads : Referring(t)
    BY DEF Init, Referring
  <2>4. QED
    BY <2>1, <2>2, <2>3 DEF Sleep
<1>2. IInv /\ Sleep /\ [Next]_vars => Sleep'
  <2> SUFFICES ASSUME IInv, Sleep, [Next]_vars PROVE Sleep'
    OBVIOUS
  <2>1. CASE \E t \in Threads : Worker(t)
    BY <2>1, WorkerReferring, WorkerClientSleeps, WorkerWorkersSleep DEF Sleep
  <2>2. CASE Call \/ InCall
    BY <2>2, ClientReferring, ClientClientSleeps, ClientWorkersSleep DEF Sleep
  <2>3. CASE UNCHANGED vars
    <3>1. ClientSleeps' /\ BufferHeld'
      BY <2>3 DEF vars, client, codec, given, Sleep, ClientSleeps, BufferHeld, Client
    <3>2. \A t \in Threads : WorkerSleeps(t)'
      BY <2>3 DEF vars, client, codec, given, Sleep, WorkerSleeps, ToBeWoken, Complete, Nobody
    <3>3. \A t \in Threads : Referring(t)'
      BY <2>3 DEF vars, client, codec, given, Sleep, Referring, Nobody
    <3>4. QED
      BY <3>1, <3>2, <3>3 DEF Sleep
  <2>4. QED
    BY <2>1, <2>2, <2>3 DEF Next
<1>3. QED
  BY <1>1, <1>2, InductiveInvariant, PTL DEF Spec

(* A set of numbers has a least one,                                       *)
LEMMA LeastNumber ==
  ASSUME NEW S, S \subseteq Nat, S # {}
  PROVE  \E x \in S : \A y \in S : x <= y
<1>1. IsWellFoundedOn(OpToRel(<, Nat), Nat)
  BY NatLessThanWellFounded, Zenon
<1>2. PICK x \in S : \A y \in S : ~(<<y, x>> \in OpToRel(<, Nat))
  BY <1>1, WFMin, Zenon
<1>3. ASSUME NEW y \in S
      PROVE  ~(y < x)
  <2>1. y \in Nat /\ x \in Nat
    OBVIOUS
  <2>2. /\ <<y, x>> \in Nat \X Nat
        /\ <<y, x>>[1] = y /\ <<y, x>>[2] = x
    BY <2>1
  <2>3. ASSUME y < x
        PROVE  FALSE
    <3>1. <<y, x>> \in OpToRel(<, Nat)
      BY <2>2, <2>3 DEF OpToRel
    <3>2. QED
      BY <1>2, <3>1, Zenon
  <2>4. QED
    BY <2>3
<1>4. \A y \in S : x <= y
  BY <1>3
<1>5. QED
  BY <1>4

(* and so a set of workers has one with the least packet.                  *)
LEMMA LeastPacket ==
  ASSUME Slots, NEW S, S \subseteq Threads, S # {}
  PROVE  \E t \in S : \A u \in S : packet[t] <= packet[u]
<1>1. {packet[t] : t \in S} \subseteq Nat /\ {packet[t] : t \in S} # {}
  BY FrameAssumption DEF Slots
<1>2. PICK x \in {packet[t] : t \in S} : \A y \in {packet[t] : t \in S} : x <= y
  BY <1>1, LeastNumber
<1>3. QED
  BY <1>2

(* The worker with the oldest packet goes on, or the client serves it: the *)
(* packet its frame refers to is older still, and was decoded.             *)
LEMMA OldestGoesOn ==
  ASSUME IInv, Sleep, \E t \in Threads : state[t] # "ready"
  PROVE  \/ \E t \in Threads : state[t] # "ready" /\ CanStep(t)
         \/ cpc = "callback" /\ Awake(Client)
<1>1. /\ Scalars /\ Slots /\ Refs /\ Indices /\ Ring /\ Workers
      /\ \A t \in Threads : WorkerSleeps(t) /\ Referring(t)
  BY TypeParts DEF IInv, Sleep
<1>2. PICK t \in {u \in Threads : state[u] # "ready"} :
        \A u \in {v \in Threads : state[v] # "ready"} : packet[t] <= packet[u]
  BY <1>1, LeastPacket
<1>3. t \in Threads /\ state[t] # "ready" /\ wpc[t] \in WorkerLabels /\ States(t)
  BY <1>1, <1>2 DEF Slots, Workers
<1>4. CASE wpc[t] \in {"top", "check", "codec", "request", "got", "returned", "signal"}
  BY <1>3, <1>4 DEF CanStep
<1>5. CASE wpc[t] \in {"input", "lock"}
  <2>1. mutex[t] # "worker"
    BY <1>1, <1>3, <1>5 DEF Workers, Mutexes, InDecode
  <2>2. mutex[t] # "client"
    <3>1. cpc \in Holding => cpc \in Submitting
      BY DEF Holding, Submitting
    <3>2. QED
      BY <1>1, <1>3, <3>1, CurIsReady DEF Workers, Mutexes
  <2>3. mutex[t] = "free" /\ Awake(t)
    BY <1>1, <1>3, <1>5, <2>1, <2>2 DEF Slots, WorkerSleeps, Awake
  <2>4. QED
    BY <1>3, <1>5, <2>3 DEF CanStep
<1>6. CASE wpc[t] = "granted"
  <2>1. CASE t \in asleep
    <3>1. state[t] = "buffer" /\ cpc = "callback" /\ cur = t
      BY <1>1, <1>3, <1>6, <2>1 DEF WorkerSleeps, States
    <3>2. Awake(Client)
      BY <1>6, <3>1 DEF Sleep, ClientSleeps, Awake
    <3>3. QED
      BY <3>1, <3>2
  <2>2. CASE t \notin asleep
    BY <1>3, <1>6, <2>2 DEF CanStep, Awake
  <2>3. QED
    BY <2>1, <2>2
<1>7. CASE wpc[t] = "await"
  <2>1. CASE t \in asleep
    <3>1. /\ ref[t].owner # Nobody /\ packet[ref[t].owner] = ref[t].packet
          /\ ~progress[ref[t].owner]
      BY <1>1, <1>3, <1>7, <2>1 DEF WorkerSleeps, Complete
    <3>2. ref[t].owner \in Threads /\ packet[ref[t].owner] \in Nat /\ packet[t] \in Nat
      BY <1>1, <1>3, <3>1, FrameAssumption DEF Refs, Slots
    <3>3. state[ref[t].owner] # "ready" /\ packet[ref[t].owner] < packet[t]
      BY <1>1, <1>3, <3>1, <3>2 DEF Referring
    <3>4. packet[t] <= packet[ref[t].owner]
      BY <1>2, <3>2, <3>3
    <3>5. QED
      BY <3>2, <3>3, <3>4
  <2>2. CASE t \notin asleep
    BY <1>3, <1>7, <2>2 DEF CanStep, Awake
  <2>3. QED
    BY <2>1, <2>2
<1>8. wpc[t] # "exited"
  BY <1>3 DEF States
<1>9. QED
  BY <1>3, <1>4, <1>5, <1>6, <1>7, <1>8 DEF WorkerLabels

(* When every packet is decoded the client goes on, or the worker it waits *)
(* for does.                                                               *)
LEMMA ClientGoesOn ==
  ASSUME IInv, Sleep, \A t \in Threads : state[t] = "ready", cpc \notin {"idle", "freed"}
  PROVE  ClientCanStep \/ \E t \in Threads : CanStep(t)
<1>1. /\ Scalars /\ Slots /\ ClientWaits /\ BufferHeld /\ ClientSleeps
      /\ \A t \in Threads : States(t) /\ Mutexes(t) /\ WorkerSleeps(t)
      /\ cur \in Threads /\ finished \in Threads
  BY TypeParts DEF IInv, Workers, Sleep, Scalars
<1>2. \A t \in Threads : wpc[t] \in {"top", "input", "check", "signal", "exited"}
  BY <1>1 DEF Slots, States, WorkerLabels
<1>3. ASSUME NEW t \in Threads, mutex[t] = "worker"
      PROVE  CanStep(t)
  BY <1>1, <1>2, <1>3 DEF Mutexes, InDecode, CanStep
<1>4. CASE cpc \in {"user", "update", "fill", "after"}
  BY <1>4 DEF ClientCanStep
<1>5. CASE cpc = "lock"
  <2>1. mutex[cur] \in {"free", "worker"}
    BY <1>1, <1>5 DEF Slots, Mutexes, Holding
  <2>2. QED
    BY <1>1, <1>3, <1>5, <2>1 DEF ClientCanStep
<1>6. CASE cpc = "release"
  <2>1. buffer_mutex \notin Threads
    BY <1>1, <1>2 DEF BufferHeld
  <2>2. buffer_mutex = Nobody
    BY <2>1, TypeParts DEF IInv, Sleepers
  <2>3. QED
    BY <1>6, <2>2 DEF ClientCanStep
<1>7. CASE cpc \in {"prev", "callback"}
  <2>1. Client \notin asleep
    BY <1>1, <1>2, <1>7 DEF ClientSleeps, ClientWaits
  <2>2. QED
    BY <1>7, <2>1 DEF ClientCanStep, Awake
<1>8. CASE cpc \in {"collect", "flush", "free"}
  <2>1. Client \in asleep => wpc[finished] = "signal"
    BY <1>1, <1>8 DEF ClientSleeps
  <2>2. QED
    BY <1>1, <1>8, <2>1 DEF ClientCanStep, CanStep, Awake
<1>9. CASE cpc = "kill"
  <2>1. mutex[finished] \in {"free", "worker"}
    BY <1>1, <1>9 DEF Slots, Mutexes, Holding
  <2>2. QED
    BY <1>1, <1>3, <1>9, <2>1 DEF ClientCanStep
<1>10. CASE cpc = "join"
  <2>1. CASE wpc[finished] = "exited"
    BY <1>10, <2>1 DEF ClientCanStep
  <2>2. CASE wpc[finished] = "input"
    <3>1. finished \notin asleep
      BY <1>1, <1>10, <2>2 DEF WorkerSleeps, ToBeWoken, ClientWaits, Scalars, Threads
    <3>2. mutex[finished] = "free"
      BY <1>1, <1>10, <2>2 DEF Slots, Mutexes, Holding, InDecode
    <3>3. QED
      BY <1>1, <2>2, <3>1, <3>2 DEF CanStep, Awake
  <2>3. CASE wpc[finished] \in {"top", "check", "signal"}
    BY <1>1, <2>3 DEF CanStep
  <2>4. QED
    BY <1>1, <1>2, <2>1, <2>2, <2>3
<1>11. QED
  BY <1>1, <1>4, <1>5, <1>6, <1>7, <1>8, <1>9, <1>10 DEF Scalars, ClientLabels

(* No wake-up is missed and nobody waits on everybody: while a packet is   *)
(* not decoded, or the client is in a call, someone has a step to take,    *)
(* although states are read and set without a lock (pthread.c 359, 383,    *)
(* 526, 627) and workers wait for the client and for each other.           *)
THEOREM NobodyIsStranded == Spec => []NobodyStranded
<1>1. IInv /\ Sleep => NobodyStranded
  <2> SUFFICES ASSUME IInv, Sleep PROVE NobodyStranded
    OBVIOUS
  <2>1. CASE \E t \in Threads : state[t] # "ready"
    <3>1. \/ \E t \in Threads : state[t] # "ready" /\ CanStep(t)
          \/ cpc = "callback" /\ Awake(Client)
      BY <2>1, OldestGoesOn
    <3>2. ClientCanStep \/ \E t \in Threads : CanStep(t)
      BY <3>1 DEF ClientCanStep
    <3>3. QED
      BY <3>1, <3>2 DEF NobodyStranded
  <2>2. CASE \A t \in Threads : state[t] = "ready"
    BY <2>2, ClientGoesOn DEF NobodyStranded
  <2>3. QED
    BY <2>1, <2>2
<1>2. QED
  BY <1>1, SleepersWait, PTL
==============================================================================
