------------------------------- MODULE RtpQueue -------------------------------
(***************************************************************************)
(* The reordering queue of the RTP demuxer (libavformat/rtpdec.c 160-229,  *)
(* 573-820) with the loop that feeds it (rtsp.c, ff_rtsp_fetch_packet) and *)
(* a network that loses, delays, reorders and may repeat packets.  The     *)
(* packets of one stream are counted without wrapping; the program sees    *)
(* their numbers modulo RTP_SEQ_MOD.  Payload handlers are external: a     *)
(* payload may yield one frame (0), several (1), none yet (EAGAIN) or an   *)
(* error (-1).                                                             *)
(***************************************************************************)
EXTENDS Integers, Sequences, SequencesExt

CONSTANTS RTP_SEQ_MOD,      \* 2^16
          MaxDropout, MaxMisorder,    \* 3000 and 100
          QueueSize,        \* queue_size, 10 by default
          First,            \* the number the sender starts from
          MaxPackets,       \* bound on the packets it sends
          Window,           \* how far a packet may be overtaken
          MaxResets         \* bound on seeks

ASSUME RtpAssumption ==
  /\ {MaxDropout, MaxMisorder, QueueSize, First, MaxPackets} \subseteq Nat \ {0}
  /\ {RTP_SEQ_MOD, Window, MaxResets} \subseteq Nat
  /\ MaxDropout + MaxMisorder < RTP_SEQ_MOD
  /\ QueueSize >= 2         \* else nothing is queued (line 772)

VARIABLES
  next, net, repeats,       \* the network: next number, packets in flight
  seq, queue, prev_ret,     \* RTPDemuxContext
  probation, max_seq, bad_seq,  \* its RTPStatistics
  rest,                     \* "more" if the handler holds more frames of its
                            \* payload; "unrecorded" if line 818 forgot so
  cur,                      \* rt->cur_transport_priv is set
  again,                    \* in the loop of line 817
  resets, last              \* seeks; the last packet given to the handler

network    == <<next, net, repeats>>
statistics == <<probation, max_seq, bad_seq>>
vars == <<network, seq, queue, prev_ret, statistics, rest, cur, again, resets, last>>

Packets == First .. First + MaxPackets - 1
Numbers == 0 .. RTP_SEQ_MOD - 1
EAGAIN  == -11

Num(n)      == n % RTP_SEQ_MOD
Half        == RTP_SEQ_MOD \div 2
DiffWide(a, b) == a - b             \* as int
Diff(a, b)  == ((a - b + Half) % RTP_SEQ_MOD) - Half      \* as int16_t

HasNext(q, s) == q # <<>> /\ Num(q[1]) = (s + 1) % RTP_SEQ_MOD

TypeOK ==
  /\ next \in First .. First + MaxPackets
  /\ net \subseteq Packets /\ repeats \in BOOLEAN
  /\ seq \in Numbers /\ queue \in Seq(Packets) /\ Len(queue) < QueueSize
  /\ prev_ret \in {0, 1, -1, EAGAIN}
  /\ probation \in BOOLEAN /\ max_seq \in Numbers
  /\ bad_seq \in Numbers \cup {RTP_SEQ_MOD + 1}
  /\ rest \in {"none", "more", "unrecorded"} /\ {cur, again} \subseteq BOOLEAN
  /\ resets \in 0 .. MaxResets /\ last \in Packets \cup {0}

Init ==
  /\ next = First /\ net = {} /\ repeats \in BOOLEAN
  /\ seq = 0 /\ queue = <<>> /\ prev_ret = 0
  /\ probation = TRUE /\ max_seq = 0 /\ bad_seq = 0
  /\ rest = "none" /\ cur = FALSE /\ again = FALSE
  /\ resets = 0 /\ last = 0

------------------------------------------------------------------------------
(* rtp_valid_packet_in_sequence: the packet is taken, ...                  *)
Delta(n) == (Num(n) - max_seq) % RTP_SEQ_MOD
Jump(n)  == ~probation /\ Delta(n) \in MaxDropout .. RTP_SEQ_MOD - MaxMisorder

Accept(n) ==
  \/ /\ probation
     /\ probation' = (Num(n) # max_seq + 1)
     /\ max_seq' = Num(n)
     /\ bad_seq' = IF probation' THEN bad_seq ELSE RTP_SEQ_MOD + 1
  \/ /\ ~probation /\ ~Jump(n)
     /\ max_seq' = IF Delta(n) < MaxDropout THEN Num(n) ELSE max_seq
     /\ UNCHANGED <<probation, bad_seq>>
  \/ /\ Jump(n) /\ Num(n) = bad_seq
     /\ max_seq' = Num(n) /\ bad_seq' = RTP_SEQ_MOD + 1
     /\ UNCHANGED probation

(* ... or refused: it is far off and the first to be so.                   *)
Refuse(n) ==
  /\ Jump(n) /\ Num(n) # bad_seq
  /\ bad_seq' = Num(n + 1)
  /\ UNCHANGED <<probation, max_seq>>

(* The end of ff_rtp_parse_packet, unless EAGAIN makes it go round again.  *)
Return(rv) ==
  /\ again' = (rv = EAGAIN /\ HasNext(queue', seq'))
  /\ cur' = (rv = 1 \/ (rv = 0 /\ HasNext(queue', seq')))
  /\ IF again THEN UNCHANGED prev_ret ELSE prev_ret' = rv

(* rtp_parse_packet_internal of packet n; q is the queue afterwards.       *)
ParseInternal(n, q) ==
  /\ queue' = q
  /\ \/ /\ Refuse(n)
        /\ UNCHANGED <<seq, rest, last>>
        /\ Return(-1)
     \/ /\ Accept(n)
        /\ seq' = Num(n) /\ last' = n
        /\ \E rv \in {0, 1, -1, EAGAIN} :
             /\ rest' = IF rv # 1 THEN "none"
                         ELSE IF again THEN "unrecorded" ELSE "more"
             /\ Return(rv)

(* rtp_parse_queued_packet.                                                *)
ParseQueued ==
  \/ /\ queue = <<>>
     /\ UNCHANGED <<seq, queue, statistics, rest, last>>
     /\ Return(-1)
  \/ queue # <<>> /\ ParseInternal(Head(queue), Tail(queue))

(* enqueue_packet: after every packet that is not newer.                   *)
Places(q, n) ==
  {i \in 1 .. Len(q) + 1 :
     /\ \A j \in 1 .. i - 1 : Diff(Num(n), Num(q[j])) >= 0
     /\ i <= Len(q) => Diff(Num(n), Num(q[i])) < 0}

FullLate(q) == Len(q) > QueueSize       \* off by one
Full(q)     == Len(q) >= QueueSize

------------------------------------------------------------------------------
(* The sender sends or the network loses a packet.                         *)
Send ==
  /\ next \in Packets
  /\ next' = next + 1
  /\ \E sent \in SUBSET {next} : net' = {n \in net : n + Window >= next} \cup sent
  /\ UNCHANGED <<repeats, seq, queue, prev_ret, statistics,
                 rest, cur, again, resets, last>>

Idle == ~cur /\ ~again

Arrives(n) ==
  /\ Idle /\ n \in net
  /\ net' = IF repeats THEN net ELSE net \ {n}
  /\ UNCHANGED <<next, repeats, resets>>

(* rtp_parse_one_packet with a packet: the first, or the next, ...         *)
ReceiveNextOrOld(n) ==              \* <= 1 without the test before it
  /\ Arrives(n)
  /\ (seq = 0 /\ queue = <<>>) \/ Diff(Num(n), seq) <= 1
  /\ ParseInternal(n, queue)

ReceiveNext(n) ==
  /\ Arrives(n)
  /\ (seq = 0 /\ queue = <<>>) \/ Diff(Num(n), seq) \in {0, 1}
  /\ ParseInternal(n, queue)

(* ... one that comes too late, ...                                        *)
ReceiveLate(n) ==
  /\ Arrives(n)
  /\ ~(seq = 0 /\ queue = <<>>) /\ Diff(Num(n), seq) < 0
  /\ UNCHANGED <<seq, queue, statistics, rest, last>>
  /\ Return(-1)

(* ... or one that comes too early, and the queue may now be full.         *)
ReceiveEarly(n) ==
  /\ Arrives(n)
  /\ ~(seq = 0 /\ queue = <<>>) /\ Diff(Num(n), seq) > 1
  /\ \E i \in Places(queue, n) :
       LET q == InsertAt(queue, i, n)
       IN  IF ~Full(q)
           THEN /\ queue' = q
                /\ UNCHANGED <<seq, statistics, rest, last>>
                /\ Return(-1)
           ELSE ParseInternal(Head(q), Tail(q))

(* rtp_parse_one_packet without a packet: ff_rtsp_fetch_packet asks for    *)
(* more because of the last answer, or its wait for the first packet of    *)
(* the queue has timed out (max_delay).                                    *)
MoreQueueFirst ==                   \* does not look at prev_ret
  /\ cur /\ ~again
  /\ ParseQueued
  /\ UNCHANGED <<network, resets>>

Ask ==
  /\ \/ prev_ret <= 0 /\ ParseQueued
     \/ /\ prev_ret = 1
        /\ UNCHANGED <<seq, queue, statistics, last>>
        /\ \E rv \in IF rest = "more" THEN {0, 1, -1, EAGAIN} ELSE {-1, EAGAIN} :
             rest' = (IF rv = 1 THEN "more" ELSE "none") /\ Return(rv)
  /\ UNCHANGED <<network, resets>>

More == cur /\ ~again /\ Ask

Timeout == Idle /\ queue # <<>> /\ Ask

(* One turn of the loop of line 817.                                       *)
Again ==
  /\ again /\ ParseQueued
  /\ UNCHANGED <<network, resets>>

(* rtsp_read_play after a seek: ff_rtp_reset_packet_queue, which leaves    *)
(* the statistics and cur_transport_priv as they were.                     *)
Reset ==
  /\ ~again /\ resets < MaxResets
  /\ resets' = resets + 1
  /\ seq' = 0 /\ queue' = <<>> /\ prev_ret' = 0
  /\ rest' = "none"                 \* nobody will ask for it
  /\ UNCHANGED <<network, statistics, cur, again, last>>

Receive(n) == ReceiveNext(n) \/ ReceiveLate(n) \/ ReceiveEarly(n)

Next ==
  \/ Send \/ More \/ Timeout \/ Again \/ Reset
  \/ \E n \in Packets : Receive(n)

Spec == Init /\ [][Next]_vars

------------------------------------------------------------------------------
(* The handler gets payloads in the order they were sent, whatever the     *)
(* network does short of repeating them, except when nothing is known of   *)
(* the order: s->seq is 0 and the queue is empty (line 772), which is so   *)
(* at the start and after a seek, and also after the packet numbered 0.    *)
PayloadsInOrder ==
  [][last' # last /\ ~repeats => last < last' \/ (seq = 0 /\ queue = <<>>)]_vars

(* A packet that arrives before any newer payload was given to the handler *)
(* is not lost: it is parsed or queued, unless it was refused as a jump.   *)
TimelyPacketsKept ==
  [][\A n \in net \ net' :
       next' = next /\ last < n =>
         n = last' \/ n \in ToSet(queue') \/ bad_seq' = Num(n + 1)]_vars

(* The further frames of a payload are asked for before the next payload   *)
(* is parsed (comment of line 804), unless the answer 1 came from the loop *)
(* of line 817: it is not recorded in prev_ret, and the frames are lost.   *)
RestReturned ==
  [][last' # last => rest # "more"]_vars
==============================================================================
