----------------------------- MODULE InputThreads -----------------------------
(***************************************************************************)
(* The input threads of avconv (avconv.c 1949-2160): with several input    *)
(* files, one thread per file reads packets into a FIFO, the main thread   *)
(* polls the FIFOs, and at the end stops, drains and joins the threads.    *)
(* Everything done under a file's fifo_lock is one action: nothing in it   *)
(* blocks except the pthread_cond_wait of the input thread, which waits    *)
(* alone on fifo_cond.  The demuxer, the choice among the files that can   *)
(* be read (select_input_file takes the least dts) and the end of the      *)
(* output are external.  The bytes of a file's packets are numbered.       *)
(***************************************************************************)
EXTENDS AVFifo

CONSTANTS NbFiles,          \* nb_input_files
          PacketSize,       \* sizeof(AVPacket)
          FifoPackets,      \* packets a FIFO holds, 8 in the code
          MaxPackets        \* bound on the packets of a file

ASSUME InputAssumption ==
  /\ NbFiles \in Nat /\ NbFiles >= 2
  /\ PacketSize \in Nat \ {0} /\ FifoPackets \in Nat \ {0}
  /\ Word > FifoPackets * PacketSize
  /\ MaxPackets \in Nat

Depth == FifoPackets * PacketSize
Total == MaxPackets * PacketSize
Byte  == 0 .. Total
Files == 1 .. NbFiles

VARIABLES
  discard,                  \* files none of whose streams is used
  mpc, file,                \* where the main thread is; its loop variable
  again,                    \* transcode() calls free_input_threads once more
  transcoding_finished,
  eagain, eof_reached, finished, joined,
  fifo, memory,             \* each FIFO, and whether it is "none", "live", "freed"
  tpc,                      \* where each input thread is
  read, written,            \* bytes its thread got from the demuxer, and put
  taken, dropped            \* bytes given to the decoders, and freed unused

control == <<discard, mpc, file, again, transcoding_finished>>
polled  == <<eagain, eof_reached, taken>>
reader  == <<finished, read, written>>
main    == <<control, polled, joined, dropped, memory>>
vars    == <<main, reader, tpc, fifo>>

MainLabels   == {"start", "loop", "free", "join", "end", "crashed"}
ThreadLabels == {"none", "top", "read", "write", "asleep", "woken", "finish", "done"}

TypeOK ==
  /\ discard \subseteq Files
  /\ mpc \in MainLabels /\ file \in 1 .. NbFiles + 1
  /\ again \in BOOLEAN /\ transcoding_finished \in BOOLEAN
  /\ \A x \in {eagain, eof_reached, finished, joined} : x \in [Files -> BOOLEAN]
  /\ fifo \in [Files -> Fifos(Depth, Byte)]
  /\ memory \in [Files -> {"none", "live", "freed"}]
  /\ tpc \in [Files -> ThreadLabels]
  /\ \A x \in {read, written, taken, dropped} : x \in [Files -> Byte]

No      == [f \in Files |-> FALSE]
Zero    == [f \in Files |-> 0]
NewFifo == Alloc(Depth, [j \in Cells(Depth) |-> 0])
Packet(n) == [i \in 1 .. PacketSize |-> n + i]      \* the one after n bytes

Init ==
  /\ discard \in SUBSET Files
  /\ mpc = "start" /\ file = 1 /\ again = FALSE /\ transcoding_finished = FALSE
  /\ eagain = No /\ eof_reached = No /\ finished = No /\ joined = No
  /\ fifo = [f \in Files |-> NewFifo] /\ memory = [f \in Files |-> "none"]
  /\ tpc = [f \in Files |-> "none"]
  /\ read = Zero /\ written = Zero /\ taken = Zero /\ dropped = Zero

------------------------------------------------------------------------------
(* free_input_threads begins; at a regular end it is called twice, since   *)
(* transcode() falls through to its label fail.                            *)
EnterFree(twice) ==
  /\ mpc' = "free" /\ file' = 1 /\ again' = twice
  /\ transcoding_finished' = TRUE

(* init_input_threads, one file: the FIFO or the thread may fail.          *)
Start ==
  /\ mpc = "start"
  /\ \/ /\ memory' = [memory EXCEPT ![file] = "live"]
        /\ tpc' = [tpc EXCEPT ![file] = "top"]
        /\ file' = file + 1
        /\ mpc' = IF file = NbFiles THEN "loop" ELSE "start"
        /\ UNCHANGED <<again, transcoding_finished>>
     \/ \E m \in {"none", "live"} :
          /\ memory' = [memory EXCEPT ![file] = m]
          /\ EnterFree(FALSE)
          /\ UNCHANGED tpc
  /\ UNCHANGED <<discard, polled, joined, dropped, reader, fifo>>

(* select_input_file.                                                      *)
Candidates == {f \in Files \ discard : ~eagain[f] /\ ~eof_reached[f]}

Wake(f) == tpc' = IF tpc[f] = "asleep" THEN [tpc EXCEPT ![f] = "woken"] ELSE tpc

(* process_input of file f with get_input_packet_mt: a packet,...          *)
Take(f) ==
  /\ mpc = "loop" /\ f \in Candidates /\ Size(fifo[f]) > 0
  /\ fifo' = [fifo EXCEPT ![f] = Drain(@, PacketSize)]
  /\ taken' = [taken EXCEPT ![f] = @ + PacketSize]
  /\ Wake(f)
  /\ eagain' = No
  /\ UNCHANGED <<control, eof_reached, joined, dropped, memory, reader>>

(* ... the end of the file, or AVERROR(EAGAIN).                            *)
TakeNothingEarly(f) ==              \* tests finished before the FIFO
  /\ mpc = "loop" /\ f \in Candidates /\ finished[f]
  /\ eof_reached' = [eof_reached EXCEPT ![f] = TRUE]
  /\ UNCHANGED <<control, eagain, taken, joined, dropped, memory, reader, tpc, fifo>>

TakeNothing(f) ==
  /\ mpc = "loop" /\ f \in Candidates /\ Size(fifo[f]) = 0
  /\ \/ finished[f] /\ eof_reached' = [eof_reached EXCEPT ![f] = TRUE] /\ UNCHANGED eagain
     \/ ~finished[f] /\ eagain' = [eagain EXCEPT ![f] = TRUE] /\ UNCHANGED eof_reached
  /\ UNCHANGED <<control, taken, joined, dropped, memory, reader, tpc, fifo>>

(* process_input when every file that has not ended said EAGAIN.           *)
TryAgain ==
  /\ mpc = "loop" /\ Candidates = {} /\ eagain # No
  /\ eagain' = No
  /\ UNCHANGED <<control, eof_reached, taken, joined, dropped, memory, reader, tpc, fifo>>

(* The loop of transcode() ends: a signal or enough output, at any time;   *)
(* or the outputs are flushed after the end of every input.                *)
Stop ==
  /\ mpc = "loop" /\ EnterFree(TRUE)
  /\ UNCHANGED <<discard, polled, joined, dropped, memory, reader, tpc, fifo>>

StopAtEnd == Candidates = {} /\ eagain = No /\ Stop

------------------------------------------------------------------------------
(* free_input_threads, one file: it is passed over, ...                    *)
Skip ==
  /\ mpc = "free"
  /\ \/ /\ file <= NbFiles /\ (memory[file] = "none" \/ joined[file])
        /\ file' = file + 1
        /\ UNCHANGED <<mpc, again>>
     \/ /\ file > NbFiles
        /\ again' = FALSE
        /\ IF again THEN file' = 1 /\ UNCHANGED mpc
                    ELSE mpc' = "end" /\ UNCHANGED file
  /\ UNCHANGED <<discard, transcoding_finished, polled, joined, dropped, memory, reader, tpc, fifo>>

Empty(f) ==
  /\ fifo' = [fifo EXCEPT ![f] = Drain(@, Size(@))]
  /\ dropped' = [dropped EXCEPT ![f] = @ + Size(fifo[f])]

(* ... or its FIFO is drained and its thread woken, ...                    *)
DrainQuietly ==                     \* without pthread_cond_signal
  /\ mpc = "free" /\ file <= NbFiles /\ memory[file] # "none" /\ ~joined[file]
  /\ Empty(file)
  /\ mpc' = "join"
  /\ UNCHANGED <<discard, file, again, transcoding_finished, polled, joined, memory, reader, tpc>>

DrainFile ==
  /\ mpc = "free" /\ file <= NbFiles /\ memory[file] # "none" /\ ~joined[file]
  /\ Empty(file)
  /\ Wake(file)
  /\ mpc' = "join"
  /\ UNCHANGED <<discard, file, again, transcoding_finished, polled, joined, memory, reader>>

(* ... and joined, once the thread is over; the FIFO is drained again.     *)
JoinReturns ==
  /\ memory' = [memory EXCEPT ![file] = "freed"]
  /\ joined' = [joined EXCEPT ![file] = TRUE]
  /\ mpc' = "free" /\ file' = file + 1
  /\ UNCHANGED <<discard, again, transcoding_finished, polled, reader, tpc>>

JoinOnly ==                         \* without draining the FIFO once more
  /\ mpc = "join" /\ tpc[file] = "done"
  /\ JoinReturns
  /\ UNCHANGED <<dropped, fifo>>

Join ==
  /\ mpc = "join" /\ tpc[file] = "done"
  /\ Empty(file)
  /\ JoinReturns

(* If init_input_threads allocated the FIFO and could not create the       *)
(* thread, a handle nobody set is joined: with <pthread.h> (lines 71-73)   *)
(* that is undefined: it returns an error, which nobody looks at, or the   *)
(* program crashes.                                                        *)
JoinNobody ==
  /\ mpc = "join" /\ tpc[file] = "none"
  /\ \/ Empty(file) /\ JoinReturns
     \/ /\ mpc' = "crashed"
        /\ UNCHANGED <<discard, file, again, transcoding_finished, polled, joined,
                       dropped, memory, reader, tpc, fifo>>

------------------------------------------------------------------------------
(* input_thread.                                                           *)
Top(f) ==
  /\ tpc[f] = "top"
  /\ tpc' = [tpc EXCEPT ![f] = IF transcoding_finished THEN "finish" ELSE "read"]
  /\ UNCHANGED <<main, reader, fifo>>

(* av_read_frame: a packet, ...                                            *)
ReadFrame(f) ==
  /\ tpc[f] = "read" /\ read[f] < Total
  /\ read' = [read EXCEPT ![f] = @ + PacketSize]
  /\ tpc' = [tpc EXCEPT ![f] = "write"]
  /\ UNCHANGED <<main, finished, written, fifo>>

(* ... nothing yet, or the end of the file or an error.                    *)
ReadNothing(f) ==
  /\ tpc[f] = "read"
  /\ \E next \in {"top", "finish"} : tpc' = [tpc EXCEPT ![f] = next]
  /\ UNCHANGED <<main, reader, fifo>>

(* The section under fifo_lock, up to the wait if the FIFO is full.        *)
WriteFrameOnce(f) ==                \* an if instead of the while
  /\ tpc[f] \in {"write", "woken"}
  /\ IF Space(fifo[f]) = 0 /\ tpc[f] = "write"
     THEN tpc' = [tpc EXCEPT ![f] = "asleep"] /\ UNCHANGED <<fifo, written>>
     ELSE /\ fifo' = [fifo EXCEPT ![f] = Write(@, Packet(written[f]))]
          /\ written' = [written EXCEPT ![f] = @ + PacketSize]
          /\ tpc' = [tpc EXCEPT ![f] = "top"]
  /\ UNCHANGED <<main, finished, read>>

WriteFrame(f) ==
  /\ tpc[f] \in {"write", "woken"}
  /\ IF Space(fifo[f]) = 0
     THEN tpc' = [tpc EXCEPT ![f] = "asleep"] /\ UNCHANGED <<fifo, written>>
     ELSE /\ fifo' = [fifo EXCEPT ![f] = Write(@, Packet(written[f]))]
          /\ written' = [written EXCEPT ![f] = @ + PacketSize]
          /\ tpc' = [tpc EXCEPT ![f] = "top"]
  /\ UNCHANGED <<main, finished, read>>

SpuriousWakeup(f) ==
  /\ tpc[f] = "asleep"
  /\ tpc' = [tpc EXCEPT ![f] = "woken"]
  /\ UNCHANGED <<main, reader, fifo>>

Finish(f) ==
  /\ tpc[f] = "finish"
  /\ finished' = [finished EXCEPT ![f] = TRUE]
  /\ tpc' = [tpc EXCEPT ![f] = "done"]
  /\ UNCHANGED <<main, read, written, fifo>>

------------------------------------------------------------------------------
Running == mpc # "crashed"
InputThread(f) ==
  /\ Running
  /\ Top(f) \/ ReadFrame(f) \/ ReadNothing(f) \/ WriteFrame(f) \/ Finish(f)
Poll == (\E f \in Files : Take(f) \/ TakeNothing(f)) \/ TryAgain
Tear == Skip \/ DrainFile \/ Join \/ JoinNobody

Next ==
  \/ Start \/ Poll \/ Stop \/ Tear
  \/ \E f \in Files : InputThread(f) \/ (Running /\ SpuriousWakeup(f))

Spec == Init /\ [][Next]_vars

(* Every thread runs, a demuxer does not answer EAGAIN for ever, and the   *)
(* outputs end after the inputs did.                                       *)
FairSpec ==
  /\ Spec
  /\ WF_vars(Start) /\ WF_vars(Poll) /\ WF_vars(StopAtEnd) /\ WF_vars(Tear)
  /\ \A f \in Files :
       /\ WF_vars(InputThread(f))
       /\ SF_vars(Running /\ (ReadFrame(f) \/ (ReadNothing(f) /\ tpc'[f] = "finish")))

------------------------------------------------------------------------------
(* A FIFO holds, in order and none torn or repeated, the packets its       *)
(* thread put there and nobody took: so those that process_input takes are *)
(* the packets of the file in their order (lines 1970, 2043), across the   *)
(* wrap of the ring and of its indices.                                    *)
FifoHoldsTheRest ==
  \A f \in Files :
    Contents(fifo[f]) =
      [i \in 1 .. written[f] - taken[f] - dropped[f] |-> taken[f] + dropped[f] + i]

(* process_input takes a file for ended (line 2129) only when its thread   *)
(* is over and everything it read was decoded, although finished is set    *)
(* without the lock (line 1975).                                           *)
EofAfterEverything ==
  \A f \in Files : eof_reached[f] => tpc[f] = "done" /\ taken[f] = read[f]

(* A FIFO is freed (line 2010) when its thread can no longer touch it, and *)
(* by then every packet the thread read was decoded or freed.  Until then  *)
(* no signal is missed: a thread sleeps only on a full FIFO, and never     *)
(* while it is joined, when nobody signals any more (lines 1967, 2000,     *)
(* 2043).                                                                  *)
QuietTeardown ==
  \A f \in Files :
    /\ memory[f] = "freed" => tpc[f] \in {"none", "done"} /\ taken[f] + dropped[f] = read[f]
    /\ tpc[f] = "asleep" => Space(fifo[f]) = 0 /\ ~(mpc = "join" /\ file = f)

(* avconv ends: files do not starve each other, and free_input_threads     *)
(* gets a thread out of its wait on a full FIFO (lines 1967, 2000); but it *)
(* may crash there if a thread could not be created (line 2030).           *)
Ends == <>(mpc = "end" \/ (mpc = "crashed" /\ tpc[file] = "none"))
==============================================================================
