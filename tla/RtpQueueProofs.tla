---------------------------- MODULE RtpQueueProofs ----------------------------
(***************************************************************************)
(* Proofs about the reordering queue of the RTP demuxer, for any size of   *)
(* the queue, any width of the sequence number and any thresholds: the     *)
(* types, that no frames of a payload are forgotten but for the known      *)
(* case, and, as long as the sender is less than half the range of the     *)
(* sequence numbers ahead, that payloads are handed on in order and that   *)
(* none that arrives in time is lost.                                      *)
(***************************************************************************)
EXTENDS RtpQueue, SequenceTheorems, TLAPS

(* A remainder is the only one.                                            *)
LEMMA RemainderUnique ==
  ASSUME NEW M \in Nat, M > 0, NEW q \in Int, NEW r \in Int, NEW k \in Int, NEW t \in Int,
         M * q + r = M * k + t, 0 <= r, r < M, 0 <= t, t < M
  PROVE r = t
<1>1. CASE q = k
  BY <1>1
<1>2. CASE q > k
  <2>1. M * (q - k) >= M
    BY <1>2
  <2>2. M * (q - k) = t - r
    OBVIOUS
  <2>. QED BY <2>1, <2>2
<1>3. CASE q < k
  <2>1. M * (k - q) >= M
    BY <1>3
  <2>2. M * (k - q) = r - t
    OBVIOUS
  <2>. QED BY <2>1, <2>2
<1>. QED BY <1>1, <1>2, <1>3

(* What the provers know of a remainder.                                   *)
LEMMA Remainder ==
  ASSUME NEW M \in Nat, M > 0, NEW a \in Int
  PROVE  /\ a % M \in 0 .. M - 1
         /\ \E k \in Int : a = M * k + (a % M)
<1>1. a % M \in 0 .. M - 1
  OBVIOUS
<1>2. \E k \in Int : a = M * k + (a % M)
  OBVIOUS
<1>. QED BY <1>1, <1>2

(* Two remainders are as far apart, modulo M, as their numbers: the 16-bit *)
(* subtraction of lines 677 and 777.                                       *)
LEMMA DifferenceOfRemainders ==
  ASSUME NEW M \in Nat, M > 0, NEW a \in Int, NEW b \in Int, NEW h \in Int,
         0 <= a - b + h, a - b + h < M
  PROVE  ((a % M) - (b % M) + h) % M = a - b + h
<1> DEFINE x == (a % M) - (b % M) + h
<1>1. a % M \in Int /\ b % M \in Int /\ x \in Int
  BY Remainder
<1>2. PICK i \in Int : a = M * i + (a % M)
  BY Remainder
<1>3. PICK j \in Int : b = M * j + (b % M)
  BY Remainder
<1>4. x % M \in 0 .. M - 1 /\ \E k \in Int : x = M * k + (x % M)
  BY <1>1, Remainder
<1>5. PICK k \in Int : x = M * k + (x % M)
  BY <1>4
<1> HIDE DEF x
<1>6. x = a - b + h - M * i + M * j
  BY <1>1, <1>2, <1>3 DEF x
<1>7. M * (k + i - j) + (x % M) = M * 0 + (a - b + h)
  <2>1. M * (k + i - j) = M * k + M * i - M * j
    OBVIOUS
  <2>2. M * k \in Int /\ M * i \in Int /\ M * j \in Int /\ x % M \in Int
    BY <1>4
  <2>. QED BY <2>1, <2>2, <1>1, <1>5, <1>6
<1>8. x % M = a - b + h
  BY <1>4, <1>7, RemainderUnique
<1>. QED BY <1>8 DEF x

(* The number of a packet in the program.                                  *)
LEMMA NumIsNumber == \A n \in Int : Num(n) \in Numbers
<1> SUFFICES ASSUME NEW n \in Int PROVE Num(n) \in Numbers
  OBVIOUS
<1>1. RTP_SEQ_MOD \in Nat /\ RTP_SEQ_MOD > 0
  BY RtpAssumption
<1>. QED BY <1>1, Remainder DEF Num, Numbers

(* The program sees how far apart two packets are.                         *)
LEMMA DiffIsDistance ==
  ASSUME MaxPackets <= Half, NEW a \in Packets, NEW b \in Packets
  PROVE  Diff(Num(a), Num(b)) = a - b
<1>1. /\ RTP_SEQ_MOD \in Nat /\ RTP_SEQ_MOD > 0
      /\ First \in Nat /\ MaxPackets \in Nat /\ a \in Int /\ b \in Int
      /\ a - b < MaxPackets /\ b - a < MaxPackets
  BY RtpAssumption DEF Packets
<1>2. Half \in Int /\ 2 * Half <= RTP_SEQ_MOD
  BY <1>1 DEF Half
<1>3. 0 <= a - b + Half /\ a - b + Half < RTP_SEQ_MOD
  BY <1>1, <1>2
<1>4. ((a % RTP_SEQ_MOD) - (b % RTP_SEQ_MOD) + Half) % RTP_SEQ_MOD = a - b + Half
  BY <1>1, <1>2, <1>3, DifferenceOfRemainders
<1>. QED BY <1>1, <1>2, <1>4 DEF Diff, Num

(* A packet put into its place in the queue.                               *)
LEMMA Inserted ==
  ASSUME NEW S, NEW q \in Seq(S), NEW n \in S, NEW i \in 1 .. Len(q) + 1
  PROVE  /\ InsertAt(q, i, n) \in Seq(S)
         /\ Len(InsertAt(q, i, n)) = Len(q) + 1
         /\ \A j \in 1 .. Len(q) + 1 :
              InsertAt(q, i, n)[j] = IF j < i THEN q[j] ELSE IF j = i THEN n ELSE q[j - 1]
<1> DEFINE a == SubSeq(q, 1, i - 1)
           b == SubSeq(q, i, Len(q))
<1>1. Len(q) \in Nat /\ \A j \in 1 .. Len(q) : q[j] \in S
  BY LenProperties
<1>2. a \in Seq(S) /\ Len(a) = i - 1 /\ \A j \in 1 .. i - 1 : a[j] = q[j]
  <2>1. \A j \in 1 .. i - 1 : q[j] \in S
    BY <1>1
  <2>2. 1 \in Int /\ i - 1 \in Int
    BY <1>1
  <2>3. /\ a \in Seq(S) /\ Len(a) = (IF 1 <= i - 1 THEN i - 1 - 1 + 1 ELSE 0)
        /\ \A j \in 1 .. i - 1 - 1 + 1 : a[j] = q[1 + j - 1]
    BY <2>1, <2>2, SubSeqProperties
  <2>. QED BY <2>3, <1>1
<1>3. b \in Seq(S) /\ Len(b) = Len(q) - i + 1 /\ \A j \in 1 .. Len(q) - i + 1 : b[j] = q[i + j - 1]
  <2>1. \A j \in i .. Len(q) : q[j] \in S
    BY <1>1
  <2>2. i \in Int /\ Len(q) \in Int
    BY <1>1
  <2>3. /\ b \in Seq(S) /\ Len(b) = (IF i <= Len(q) THEN Len(q) - i + 1 ELSE 0)
        /\ \A j \in 1 .. Len(q) - i + 1 : b[j] = q[i + j - 1]
    BY <2>1, <2>2, SubSeqProperties
  <2>. QED BY <2>3, <1>1
<1>4. <<n>> \in Seq(S) /\ Len(<<n>>) = 1 /\ <<n>>[1] = n
  OBVIOUS
<1> DEFINE c == a \o <<n>>
<1> HIDE DEF a, b
<1>5. /\ c \in Seq(S) /\ Len(c) = i
      /\ \A j \in 1 .. i : c[j] = IF j <= i - 1 THEN a[j] ELSE <<n>>[j - (i - 1)]
  <2>1. /\ c \in Seq(S) /\ Len(c) = Len(a) + Len(<<n>>)
        /\ \A j \in 1 .. Len(a) + Len(<<n>>) :
             c[j] = IF j <= Len(a) THEN a[j] ELSE <<n>>[j - Len(a)]
    BY <1>2, <1>4, ConcatProperties
  <2>. QED BY <2>1, <1>1, <1>2, <1>4
<1> HIDE DEF c
<1>6. /\ c \o b \in Seq(S) /\ Len(c \o b) = Len(q) + 1
      /\ \A j \in 1 .. Len(q) + 1 : (c \o b)[j] = IF j <= i THEN c[j] ELSE b[j - i]
  <2>1. /\ c \o b \in Seq(S) /\ Len(c \o b) = Len(c) + Len(b)
        /\ \A j \in 1 .. Len(c) + Len(b) :
             (c \o b)[j] = IF j <= Len(c) THEN c[j] ELSE b[j - Len(c)]
    BY <1>3, <1>5, ConcatProperties
  <2>. QED BY <2>1, <1>1, <1>3, <1>5
<1>7. InsertAt(q, i, n) = c \o b
  BY DEF InsertAt, a, b, c
<1>8. \A j \in 1 .. Len(q) + 1 :
        (c \o b)[j] = IF j < i THEN q[j] ELSE IF j = i THEN n ELSE q[j - 1]
  <2> SUFFICES ASSUME NEW j \in 1 .. Len(q) + 1
               PROVE (c \o b)[j] = IF j < i THEN q[j] ELSE IF j = i THEN n ELSE q[j - 1]
    OBVIOUS
  <2>1. CASE j < i
    BY <2>1, <1>1, <1>2, <1>5, <1>6
  <2>2. CASE j = i
    BY <2>2, <1>1, <1>4, <1>5, <1>6
  <2>3. CASE j > i
    BY <2>3, <1>1, <1>3, <1>6
  <2>4. j < i \/ j = i \/ j > i
    BY <1>1
  <2>. QED BY <2>1, <2>2, <2>3, <2>4, Zenon
<1>. QED BY <1>6, <1>7, <1>8

------------------------------------------------------------------------------
(* More frames of a payload are held only when the last answer said so and *)
(* was recorded, and then the caller asks for them next.                   *)
MoreIsAsked == rest = "more" => prev_ret = 1 /\ cur /\ ~again

(* The types of the queue, the answers, the statistics and the network.    *)
QueueTyped == seq \in Numbers /\ queue \in Seq(Packets) /\ Len(queue) < QueueSize
AnswersTyped ==
  /\ prev_ret \in {0, 1, -1, EAGAIN}
  /\ rest \in {"none", "more", "unrecorded"} /\ cur \in BOOLEAN /\ again \in BOOLEAN
StatisticsTyped ==
  /\ probation \in BOOLEAN /\ max_seq \in Numbers
  /\ bad_seq \in Numbers \cup {RTP_SEQ_MOD + 1}
NetworkTyped ==
  /\ next \in First .. First + MaxPackets
  /\ net \subseteq Packets /\ repeats \in BOOLEAN

(* They are the parts of TypeOK.                                           *)
LEMMA TypeParts ==
  /\ TypeOK <=> /\ NetworkTyped /\ QueueTyped /\ AnswersTyped /\ StatisticsTyped
                /\ resets \in 0 .. MaxResets /\ last \in Packets \cup {0}
BY DEF TypeOK, NetworkTyped, QueueTyped, AnswersTyped, StatisticsTyped

(* Any answer is recorded well.                                            *)
LEMMA ReturnType ==
  ASSUME AnswersTyped, NEW rv \in {0, 1, -1, EAGAIN}, Return(rv)
  PROVE  prev_ret' \in {0, 1, -1, EAGAIN} /\ cur' \in BOOLEAN /\ again' \in BOOLEAN
<1>1. cur' \in BOOLEAN /\ again' \in BOOLEAN
  BY Zenon DEF Return
<1>2. prev_ret' \in {0, 1, -1, EAGAIN}
  BY DEF Return, AnswersTyped
<1>. QED BY <1>1, <1>2

(* The statistics after a packet is taken or refused.                      *)
LEMMA ValidType ==
  ASSUME StatisticsTyped, NEW n \in Packets, Accept(n) \/ Refuse(n)
  PROVE  StatisticsTyped'
<1>1. n \in Int /\ n + 1 \in Int
  BY RtpAssumption DEF Packets
<1>2. Num(n) \in Numbers /\ Num(n + 1) \in Numbers
  BY <1>1, NumIsNumber
<1>3. probation' \in BOOLEAN
  <2>1. CASE Accept(n)
    BY <2>1, Zenon DEF Accept, StatisticsTyped
  <2>2. CASE Refuse(n)
    BY <2>2, Zenon DEF Refuse, StatisticsTyped
  <2>. QED BY <2>1, <2>2
<1>4. max_seq' \in Numbers /\ bad_seq' \in Numbers \cup {RTP_SEQ_MOD + 1}
  <2>1. CASE Accept(n)
    <3>1. CASE probation
      BY <2>1, <3>1, <1>2 DEF Accept, StatisticsTyped, Jump
    <3>2. CASE ~probation /\ ~Jump(n)
      BY <2>1, <3>2, <1>2 DEF Accept, StatisticsTyped
    <3>3. CASE Jump(n)
      BY <2>1, <3>3, <1>2 DEF Accept, StatisticsTyped, Jump
    <3>. QED BY <3>1, <3>2, <3>3, <2>1 DEF Accept
  <2>2. CASE Refuse(n)
    BY <2>2, <1>2 DEF Refuse, StatisticsTyped
  <2>. QED BY <2>1, <2>2
<1>. QED BY <1>3, <1>4 DEF StatisticsTyped

(* A packet that is parsed, with what is left of the queue.                *)
LEMMA ParseType ==
  ASSUME QueueTyped, AnswersTyped, StatisticsTyped, last \in Packets \cup {0}, MoreIsAsked,
         NEW n \in Packets, NEW q \in Seq(Packets), Len(q) < QueueSize,
         ParseInternal(n, q), rest # "more"
  PROVE  /\ QueueTyped' /\ AnswersTyped' /\ StatisticsTyped' /\ last' \in Packets \cup {0}
         /\ MoreIsAsked'
<1>1. CASE Refuse(n) /\ UNCHANGED <<seq, rest, last>> /\ Return(-1)
  <2>1. -1 \in {0, 1, -1, EAGAIN}
    OBVIOUS
  <2>2. prev_ret' \in {0, 1, -1, EAGAIN} /\ cur' \in BOOLEAN /\ again' \in BOOLEAN
    BY <1>1, <2>1, ReturnType
  <2>3. AnswersTyped' /\ MoreIsAsked'
    BY <1>1, <2>2 DEF AnswersTyped, MoreIsAsked
  <2>4. QueueTyped'
    BY <1>1 DEF QueueTyped, ParseInternal
  <2>. QED BY <1>1, <2>3, <2>4, ValidType
<1>2. CASE /\ Accept(n) /\ seq' = Num(n) /\ last' = n
           /\ \E rv \in {0, 1, -1, EAGAIN} :
                /\ rest' = IF rv # 1 THEN "none" ELSE IF again THEN "unrecorded" ELSE "more"
                /\ Return(rv)
  <2>1. PICK rv \in {0, 1, -1, EAGAIN} :
          /\ rest' = IF rv # 1 THEN "none" ELSE IF again THEN "unrecorded" ELSE "more"
          /\ Return(rv)
    BY <1>2
  <2>2. prev_ret' \in {0, 1, -1, EAGAIN} /\ cur' \in BOOLEAN /\ again' \in BOOLEAN
    BY <2>1, ReturnType
  <2>3. AnswersTyped'
    BY <2>1, <2>2 DEF AnswersTyped
  <2>4. MoreIsAsked'
    <3> SUFFICES ASSUME rest' = "more" PROVE prev_ret' = 1 /\ cur' /\ ~again'
      BY DEF MoreIsAsked
    <3>1. rv = 1 /\ ~again
      BY <2>1
    <3>2. Return(1) /\ 1 # EAGAIN
      BY <2>1, <3>1 DEF EAGAIN
    <3>3. cur' /\ ~again'
      BY <3>2, Zenon DEF Return
    <3>. QED BY <3>1, <3>2, <3>3 DEF Return
  <2>5. QueueTyped'
    <3>1. n \in Int
      BY RtpAssumption DEF Packets
    <3>. QED BY <1>2, <3>1, NumIsNumber DEF QueueTyped, ParseInternal
  <2>. QED BY <1>2, <2>3, <2>4, <2>5, ValidType
<1>. QED BY <1>1, <1>2 DEF ParseInternal

(* The first of the queue is parsed.                                       *)
LEMMA ParseQueuedType ==
  ASSUME QueueTyped, AnswersTyped, StatisticsTyped, last \in Packets \cup {0}, MoreIsAsked,
         ParseQueued, rest # "more"
  PROVE  /\ QueueTyped' /\ AnswersTyped' /\ StatisticsTyped' /\ last' \in Packets \cup {0}
         /\ MoreIsAsked'
<1>1. CASE queue = <<>> /\ UNCHANGED <<seq, queue, statistics, rest, last>> /\ Return(-1)
  <2>1. -1 \in {0, 1, -1, EAGAIN}
    OBVIOUS
  <2>2. prev_ret' \in {0, 1, -1, EAGAIN} /\ cur' \in BOOLEAN /\ again' \in BOOLEAN
    BY <1>1, <2>1, ReturnType
  <2>. QED BY <1>1, <2>2 DEF AnswersTyped, MoreIsAsked, QueueTyped, StatisticsTyped, statistics
<1>2. CASE queue # <<>> /\ ParseInternal(Head(queue), Tail(queue))
  <2>1. /\ Head(queue) \in Packets /\ Tail(queue) \in Seq(Packets)
        /\ Len(Tail(queue)) = Len(queue) - 1
    BY <1>2, HeadTailProperties DEF QueueTyped
  <2>2. Len(Tail(queue)) < QueueSize
    BY <2>1, LenProperties, RtpAssumption DEF QueueTyped
  <2>. QED BY <1>2, <2>1, <2>2, ParseType
<1>. QED BY <1>1, <1>2 DEF ParseQueued

(* The types, and what an answer 1 stands for, are kept by every step.     *)
LEMMA StepType ==
  ASSUME TypeOK, MoreIsAsked, Next
  PROVE  TypeOK' /\ MoreIsAsked'
<1>1. /\ NetworkTyped /\ QueueTyped /\ AnswersTyped /\ StatisticsTyped
      /\ resets \in 0 .. MaxResets /\ last \in Packets \cup {0}
  BY TypeParts
<1>2. -1 \in {0, 1, -1, EAGAIN} /\ MaxResets \in Nat
  BY RtpAssumption
<1> DEFINE Typed == /\ QueueTyped' /\ AnswersTyped' /\ StatisticsTyped'
                    /\ last' \in Packets \cup {0} /\ MoreIsAsked'
<1>3. ASSUME Typed, NetworkTyped', resets' \in 0 .. MaxResets
      PROVE  TypeOK' /\ MoreIsAsked'
  BY <1>3 DEF TypeOK, NetworkTyped, QueueTyped, AnswersTyped, StatisticsTyped
<1>4. ASSUME NEW n \in Packets, Receive(n)
      PROVE  TypeOK' /\ MoreIsAsked'
  <2>1. Arrives(n)
    BY <1>4 DEF Receive, ReceiveNext, ReceiveLate, ReceiveEarly
  <2>2. NetworkTyped' /\ resets' \in 0 .. MaxResets
    BY <1>1, <2>1 DEF Arrives, NetworkTyped
  <2>3. rest # "more"
    BY <2>1 DEF Arrives, Idle, MoreIsAsked
  <2>4. ASSUME UNCHANGED <<seq, statistics, rest, last>>, Return(-1),
               queue' \in Seq(Packets), Len(queue') < QueueSize
        PROVE  Typed
    <3>1. prev_ret' \in {0, 1, -1, EAGAIN} /\ cur' \in BOOLEAN /\ again' \in BOOLEAN
      BY <1>1, <1>2, <2>4, ReturnType
    <3>. QED BY <1>1, <2>3, <2>4, <3>1
         DEF AnswersTyped, MoreIsAsked, QueueTyped, StatisticsTyped, statistics
  <2>5. CASE ReceiveNext(n)
    <3>1. ParseInternal(n, queue)
      BY <2>5 DEF ReceiveNext
    <3>2. Typed
      BY <1>1, <2>3, <3>1, ParseType DEF QueueTyped
    <3>. QED BY <1>3, <2>2, <3>2
  <2>6. CASE ReceiveLate(n)
    <3>1. Typed
      BY <1>1, <2>4, <2>6 DEF ReceiveLate, QueueTyped
    <3>. QED BY <1>3, <2>2, <3>1
  <2>7. CASE ReceiveEarly(n)
    <3>1. PICK i \in Places(queue, n) :
            LET q == InsertAt(queue, i, n)
            IN  IF ~Full(q)
                THEN /\ queue' = q
                     /\ UNCHANGED <<seq, statistics, rest, last>>
                     /\ Return(-1)
                ELSE ParseInternal(Head(q), Tail(q))
      BY <2>7 DEF ReceiveEarly
    <3> DEFINE q == InsertAt(queue, i, n)
    <3>2. q \in Seq(Packets) /\ Len(q) = Len(queue) + 1
      BY <1>1, Inserted DEF Places, QueueTyped
    <3>3. Len(queue) \in Nat /\ Len(queue) < QueueSize /\ QueueSize \in Nat
      BY <1>1, LenProperties, RtpAssumption DEF QueueTyped
    <3> HIDE DEF q
    <3>4. CASE ~Full(q)
      <4>1. Typed
        BY <2>4, <3>1, <3>2, <3>3, <3>4 DEF q, Full
      <4>. QED BY <1>3, <2>2, <4>1
    <3>5. CASE Full(q)
      <4>1. ParseInternal(Head(q), Tail(q))
        BY <3>1, <3>5 DEF q
      <4>2. q # <<>>
        BY <3>2, <3>3, EmptySeq
      <4>3. Head(q) \in Packets /\ Tail(q) \in Seq(Packets) /\ Len(Tail(q)) = Len(q) - 1
        BY <3>2, <4>2, HeadTailProperties
      <4>4. Len(Tail(q)) < QueueSize
        BY <3>2, <3>3, <4>3
      <4>5. Typed
        BY <1>1, <2>3, <4>1, <4>3, <4>4, ParseType
      <4>. QED BY <1>3, <2>2, <4>5
    <3>. QED BY <3>4, <3>5
  <2>. QED BY <1>4, <2>5, <2>6, <2>7 DEF Receive
<1>5. ASSUME Ask, rest = "more" => prev_ret = 1
      PROVE  TypeOK' /\ MoreIsAsked'
  <2>1. NetworkTyped' /\ resets' \in 0 .. MaxResets
    BY <1>1, <1>5 DEF Ask, network, NetworkTyped
  <2>2. CASE prev_ret <= 0 /\ ParseQueued
    <3>1. rest # "more"
      BY <1>5, <2>2
    <3>2. Typed
      BY <1>1, <2>2, <3>1, ParseQueuedType
    <3>. QED BY <1>3, <2>1, <3>2
  <2>3. CASE /\ prev_ret = 1
             /\ UNCHANGED <<seq, queue, statistics, last>>
             /\ \E rv \in IF rest = "more" THEN {0, 1, -1, EAGAIN} ELSE {-1, EAGAIN} :
                  rest' = (IF rv = 1 THEN "more" ELSE "none") /\ Return(rv)
    <3>1. PICK rv \in {0, 1, -1, EAGAIN} :
            rest' = (IF rv = 1 THEN "more" ELSE "none") /\ Return(rv)
      BY <2>3
    <3>2. prev_ret' \in {0, 1, -1, EAGAIN} /\ cur' \in BOOLEAN /\ again' \in BOOLEAN
      BY <1>1, <3>1, ReturnType
    <3>3. QueueTyped' /\ AnswersTyped' /\ StatisticsTyped' /\ last' \in Packets \cup {0}
      BY <1>1, <2>3, <3>1, <3>2
      DEF QueueTyped, AnswersTyped, StatisticsTyped, statistics
    <3>4. MoreIsAsked'
      <4> SUFFICES ASSUME rest' = "more" PROVE prev_ret' = 1 /\ cur' /\ ~again'
        BY DEF MoreIsAsked
      <4>1. rv = 1
        BY <3>1
      <4>2. rv # EAGAIN
        BY <4>1 DEF EAGAIN
      <4>3. cur' /\ ~again'
        BY <3>1, <4>1, <4>2, Zenon DEF Return
      <4>4. prev_ret' = 1
        BY <2>3, <3>1, <4>1 DEF Return
      <4>. QED BY <4>3, <4>4
    <3>. QED BY <1>3, <2>1, <3>3, <3>4
  <2>. QED BY <1>5, <2>2, <2>3 DEF Ask
<1>6. CASE Send
  <2>1. UNCHANGED <<repeats, seq, queue, prev_ret, statistics, rest, cur, again, resets, last>>
    BY <1>6 DEF Send
  <2>2. Typed /\ resets' \in 0 .. MaxResets
    BY <1>1, <2>1 DEF QueueTyped, AnswersTyped, StatisticsTyped, statistics, MoreIsAsked
  <2>3. next' \in First .. First + MaxPackets
    BY <1>1, <1>6, RtpAssumption DEF Send, Packets, NetworkTyped
  <2>4. net' \subseteq Packets
    BY <1>1, <1>6 DEF Send, NetworkTyped
  <2>5. NetworkTyped'
    BY <1>1, <2>1, <2>3, <2>4 DEF NetworkTyped
  <2>. QED BY <1>3, <2>2, <2>5
<1>7. CASE More
  BY <1>5, <1>7 DEF More, MoreIsAsked
<1>8. CASE Timeout
  BY <1>5, <1>8 DEF Timeout, Idle, MoreIsAsked
<1>9. CASE Again
  <2>1. rest # "more" /\ ParseQueued
    BY <1>9 DEF Again, MoreIsAsked
  <2>2. Typed
    BY <1>1, <2>1, ParseQueuedType
  <2>3. NetworkTyped' /\ resets' \in 0 .. MaxResets
    BY <1>1, <1>9 DEF Again, network, NetworkTyped
  <2>. QED BY <1>3, <2>2, <2>3
<1>10. CASE Reset
  <2>1. <<>> \in Seq(Packets) /\ Len(<<>>) < QueueSize /\ 0 \in Numbers
    <3>1. QueueSize \in Nat /\ QueueSize > 0 /\ RTP_SEQ_MOD \in Nat /\ RTP_SEQ_MOD > 0
      BY RtpAssumption
    <3>. QED BY <3>1, EmptySeq DEF Numbers
  <2>2. QueueTyped'
    BY <1>10, <2>1 DEF Reset, QueueTyped
  <2>3. AnswersTyped' /\ StatisticsTyped' /\ last' \in Packets \cup {0} /\ MoreIsAsked'
    BY <1>1, <1>10 DEF Reset, AnswersTyped, StatisticsTyped, statistics, MoreIsAsked
  <2>4. NetworkTyped' /\ resets' \in 0 .. MaxResets
    BY <1>1, <1>2, <1>10 DEF Reset, network, NetworkTyped
  <2>. QED BY <1>3, <2>2, <2>3, <2>4
<1>. QED BY <1>4, <1>6, <1>7, <1>8, <1>9, <1>10 DEF Next

(* The first state.                                                        *)
LEMMA InitType == Init => TypeOK /\ MoreIsAsked
<1> SUFFICES ASSUME Init PROVE TypeOK /\ MoreIsAsked
  OBVIOUS
<1>0. QueueSize \in Nat /\ QueueSize > 0 /\ RTP_SEQ_MOD \in Nat /\ RTP_SEQ_MOD > 0
  BY RtpAssumption
<1>1. <<>> \in Seq(Packets) /\ Len(<<>>) < QueueSize /\ 0 \in Numbers
  BY <1>0, EmptySeq DEF Numbers
<1>2. QueueTyped /\ StatisticsTyped /\ AnswersTyped /\ MoreIsAsked
  BY <1>1 DEF Init, QueueTyped, StatisticsTyped, AnswersTyped, MoreIsAsked
<1>3. NetworkTyped /\ resets \in 0 .. MaxResets /\ last \in Packets \cup {0}
  BY RtpAssumption DEF Init, NetworkTyped
<1>. QED BY <1>2, <1>3, TypeParts

(* A step that changes nothing.                                            *)
LEMMA StutterType ==
  ASSUME TypeOK, MoreIsAsked, UNCHANGED vars
  PROVE  TypeOK' /\ MoreIsAsked'
BY DEF TypeOK, MoreIsAsked, vars, network, statistics

(* Types: the queue stays shorter than queue_size and the numbers in the   *)
(* program within their width.                                             *)
THEOREM TypeCorrect == Spec => []TypeOK
<1>1. TypeOK /\ MoreIsAsked /\ [Next]_vars => (TypeOK /\ MoreIsAsked)'
  BY StepType, StutterType
<1>2. QED
  BY <1>1, InitType, PTL DEF Spec

(* An answer 1 that was recorded is asked about next.                      *)
THEOREM MoreIsAlwaysAsked == Spec => []MoreIsAsked
<1>1. TypeOK /\ MoreIsAsked /\ [Next]_vars => (TypeOK /\ MoreIsAsked)'
  BY StepType, StutterType
<1>2. QED
  BY <1>1, InitType, PTL DEF Spec

(* The further frames of a payload are asked for before the next payload   *)
(* is parsed, unless the answer came from the loop of line 817.            *)
THEOREM RestIsReturned == Spec => RestReturned
<1>1. MoreIsAsked /\ [Next]_vars => [last' # last => rest # "more"]_vars
  <2> SUFFICES ASSUME MoreIsAsked, Next, last' # last PROVE rest # "more"
    BY DEF vars
  <2>1. CASE \E n \in Packets : Receive(n)
    BY <2>1 DEF Receive, ReceiveNext, ReceiveLate, ReceiveEarly, Arrives, Idle, MoreIsAsked
  <2>2. CASE More \/ Timeout
    BY <2>2 DEF More, Timeout, Ask, MoreIsAsked
  <2>3. CASE Again
    BY <2>3 DEF Again, MoreIsAsked
  <2>4. CASE Send \/ Reset
    BY <2>4 DEF Send, Reset
  <2>. QED BY <2>1, <2>2, <2>3, <2>4 DEF Next
<1>2. QED
  BY <1>1, MoreIsAlwaysAsked, PTL DEF Spec, RestReturned

------------------------------------------------------------------------------
(* A queue q in the order of the packets, all of them newer than l, sent   *)
(* before x and no longer among those in flight N.                         *)
Sorted(q) == \A i, j \in 1 .. Len(q) : i < j => q[i] < q[j]
Waiting(q, l, x, N) ==
  /\ Sorted(q)
  /\ \A i \in 1 .. Len(q) : l < q[i] /\ q[i] < x /\ q[i] \notin N

(* Each packet is in flight, in the queue or behind; s->seq is the number  *)
(* of the last one parsed, except when nothing is known of the order.      *)
InOrder ==
  /\ \A n \in net : n < next
  /\ last < next /\ last \notin net
  /\ Waiting(queue, last, next, net)
  /\ seq # 0 \/ queue # <<>> => last \in Packets /\ seq = Num(last)

Order == ~repeats => InOrder

(* A new packet in its place leaves the queue in order.                    *)
LEMMA PlacedInOrder ==
  ASSUME MaxPackets <= Half, NEW q \in Seq(Packets), NEW l \in Packets, NEW x \in Int,
         NEW N, NEW n \in N, N \subseteq Packets, Waiting(q, l, x, N), l < n, n < x,
         NEW i \in Places(q, n)
  PROVE  Waiting(InsertAt(q, i, n), l, x, N \ {n})
<1> DEFINE s == InsertAt(q, i, n)
<1>1. /\ Len(q) \in Nat /\ i \in 1 .. Len(q) + 1
      /\ \A j \in 1 .. Len(q) : q[j] \in Packets
  BY LenProperties DEF Places
<1>2. n \in Int /\ n \in Packets /\ \A j \in 1 .. Len(q) : q[j] \in Int
  <2>1. Packets \subseteq Int
    BY RtpAssumption DEF Packets
  <2>. QED BY <1>1, <2>1
<1>3. /\ Len(s) = Len(q) + 1
      /\ \A j \in 1 .. Len(q) + 1 :
           s[j] = IF j < i THEN q[j] ELSE IF j = i THEN n ELSE q[j - 1]
  BY <1>1, Inserted
<1>4. \A j \in 1 .. Len(q) : q[j] # n
  BY DEF Waiting
<1>5. \A j \in 1 .. i - 1 : q[j] < n
  <2> SUFFICES ASSUME NEW j \in 1 .. i - 1 PROVE q[j] < n
    OBVIOUS
  <2>1. j \in 1 .. Len(q) /\ Diff(Num(n), Num(q[j])) >= 0
    BY <1>1 DEF Places
  <2>2. Diff(Num(n), Num(q[j])) = n - q[j]
    BY <1>1, <1>2, <2>1, DiffIsDistance
  <2>. QED BY <1>1, <1>2, <1>4, <2>1, <2>2
<1>6. \A j \in i .. Len(q) : n < q[j]
  <2> SUFFICES ASSUME NEW j \in i .. Len(q) PROVE n < q[j]
    OBVIOUS
  <2>1. i \in 1 .. Len(q) /\ j \in 1 .. Len(q)
    BY <1>1
  <2>2. Diff(Num(n), Num(q[i])) < 0
    BY <2>1 DEF Places
  <2>3. Diff(Num(n), Num(q[i])) = n - q[i]
    BY <1>1, <1>2, <2>1, DiffIsDistance
  <2>4. n < q[i]
    BY <1>1, <1>2, <2>1, <2>2, <2>3
  <2>5. j = i \/ q[i] < q[j]
    BY <2>1 DEF Waiting, Sorted
  <2>. QED BY <1>1, <1>2, <2>1, <2>4, <2>5
<1> HIDE DEF s
<1>7. Sorted(s)
  <2> SUFFICES ASSUME NEW j \in 1 .. Len(s), NEW k \in 1 .. Len(s), j < k PROVE s[j] < s[k]
    BY DEF Sorted
  <2>1. \A a, b \in 1 .. Len(q) : a < b => q[a] < q[b]
    BY DEF Waiting, Sorted
  <2>2. CASE k < i
    <3>1. j \in 1 .. Len(q) /\ k \in 1 .. Len(q) /\ s[j] = q[j] /\ s[k] = q[k]
      BY <1>1, <1>3, <2>2
    <3>. QED BY <2>1, <3>1
  <2>3. CASE k = i
    <3>1. j \in 1 .. i - 1 /\ s[j] = q[j] /\ s[k] = n
      BY <1>1, <1>3, <2>3
    <3>. QED BY <1>5, <3>1
  <2>4. CASE j < i /\ i < k
    <3>1. j \in 1 .. i - 1 /\ k - 1 \in i .. Len(q) /\ s[j] = q[j] /\ s[k] = q[k - 1]
      BY <1>1, <1>3, <2>4
    <3>2. j \in 1 .. Len(q) /\ k - 1 \in 1 .. Len(q)
      BY <1>1, <3>1
    <3>3. q[j] < n /\ n < q[k - 1]
      BY <1>5, <1>6, <3>1
    <3>4. n \in Int /\ q[j] \in Int /\ q[k - 1] \in Int
      BY <1>2, <3>2
    <3>5. \A a, b, c \in Int : a < b /\ b < c => a < c
      OBVIOUS
    <3>6. q[j] < q[k - 1]
      BY <3>3, <3>4, <3>5, Zenon
    <3>. QED BY <3>1, <3>6
  <2>5. CASE j = i
    <3>1. k - 1 \in i .. Len(q) /\ s[j] = n /\ s[k] = q[k - 1]
      BY <1>1, <1>3, <2>5
    <3>. QED BY <1>6, <3>1
  <2>6. CASE i < j
    <3>1. j - 1 \in 1 .. Len(q) /\ k - 1 \in 1 .. Len(q) /\ s[j] = q[j - 1] /\ s[k] = q[k - 1]
      BY <1>1, <1>3, <2>6
    <3>. QED BY <2>1, <3>1
  <2>. QED BY <1>1, <1>3, <2>2, <2>3, <2>4, <2>5, <2>6
<1>8. \A j \in 1 .. Len(s) : l < s[j] /\ s[j] < x /\ s[j] \notin N \ {n}
  <2> SUFFICES ASSUME NEW j \in 1 .. Len(s)
               PROVE  l < s[j] /\ s[j] < x /\ s[j] \notin N \ {n}
    OBVIOUS
  <2>1. s[j] = n \/ \E k \in 1 .. Len(q) : s[j] = q[k]
    <3>1. CASE j < i
      BY <1>1, <1>3, <3>1
    <3>2. CASE j = i
      BY <1>1, <1>3, <3>2
    <3>3. CASE i < j
      <4>1. j - 1 \in 1 .. Len(q) /\ s[j] = q[j - 1]
        BY <1>1, <1>3, <3>3
      <4>. QED BY <4>1
    <3>. QED BY <1>1, <1>3, <3>1, <3>2, <3>3
  <2>. QED BY <2>1 DEF Waiting
<1>. QED BY <1>7, <1>8 DEF Waiting, s

(* When a packet that no queued one precedes is parsed, it is the last,    *)
(* and what is left waits behind it.                                       *)
LEMMA ParsedInOrder ==
  ASSUME NEW n \in Packets, NEW q \in Seq(Packets), ParseInternal(n, q), UNCHANGED next,
         NetworkTyped', n < next, n \notin net', \A m \in net' : m < next,
         last < next, last \notin net', Waiting(q, n, next, net'), Waiting(q, last, next, net'),
         seq # 0 \/ q # <<>> => last \in Packets /\ seq = Num(last)
  PROVE  InOrder'
<1>1. queue' = q
  BY DEF ParseInternal
<1>2. CASE UNCHANGED <<seq, rest, last>>
  BY <1>1, <1>2 DEF InOrder, Waiting, Sorted
<1>3. CASE seq' = Num(n) /\ last' = n
  BY <1>1, <1>3 DEF InOrder, Waiting, Sorted
<1>. QED BY <1>2, <1>3 DEF ParseInternal

(* The first of a queue in order, and what is behind it.                   *)
LEMMA HeadInOrder ==
  ASSUME NEW q \in Seq(Packets), q # <<>>, NEW l, NEW x, NEW N, Waiting(q, l, x, N)
  PROVE  /\ Head(q) \in Packets /\ Tail(q) \in Seq(Packets) /\ l < Head(q)
         /\ Head(q) < x /\ Head(q) \notin N
         /\ Waiting(Tail(q), l, x, N) /\ Waiting(Tail(q), Head(q), x, N)
<1>1. /\ Head(q) \in Packets /\ Tail(q) \in Seq(Packets) /\ Len(Tail(q)) = Len(q) - 1
      /\ \A i \in 1 .. Len(Tail(q)) : Tail(q)[i] = q[i + 1]
  BY HeadTailProperties
<1>2. Len(q) \in Nat \ {0} /\ Head(q) = q[1]
  BY EmptySeq
<1>3. 1 \in 1 .. Len(q) /\ \A i \in 1 .. Len(Tail(q)) : i + 1 \in 1 .. Len(q) /\ 1 < i + 1
  BY <1>1, <1>2
<1>4. \A i \in 1 .. Len(Tail(q)) :
        /\ l < Tail(q)[i] /\ Head(q) < Tail(q)[i]
        /\ Tail(q)[i] < x /\ Tail(q)[i] \notin N
  BY <1>1, <1>2, <1>3 DEF Waiting, Sorted
<1>5. Sorted(Tail(q))
  <2> SUFFICES ASSUME NEW i \in 1 .. Len(Tail(q)), NEW j \in 1 .. Len(Tail(q)), i < j
               PROVE  Tail(q)[i] < Tail(q)[j]
    BY DEF Sorted
  <2>1. i + 1 < j + 1 /\ i + 1 \in 1 .. Len(q) /\ j + 1 \in 1 .. Len(q)
    BY <1>1, <1>3
  <2>. QED BY <1>1, <2>1 DEF Waiting, Sorted
<1>. QED BY <1>1, <1>2, <1>3, <1>4, <1>5 DEF Waiting

(* The order is kept by every step.                                        *)
LEMMA StepOrder ==
  ASSUME MaxPackets <= Half, TypeOK, TypeOK', ~repeats, InOrder, Next
  PROVE  InOrder'
<1>1. NetworkTyped /\ QueueTyped /\ last \in Packets \cup {0} /\ NetworkTyped' /\ QueueTyped'
  BY DEF TypeOK, NetworkTyped, QueueTyped
<1>2. next \in Int /\ next' \in Int /\ Packets \subseteq Int /\ 0 \notin Packets
  BY <1>1, RtpAssumption DEF NetworkTyped, Packets
<1>3. Len(queue) \in Nat /\ \A i \in 1 .. Len(queue) : queue[i] \in Packets
  BY <1>1, LenProperties DEF QueueTyped
<1>4. ASSUME UNCHANGED <<next, net>>, ParseQueued
      PROVE  InOrder'
  <2>1. CASE UNCHANGED <<seq, queue, last>>
    BY <1>4, <2>1 DEF InOrder
  <2>2. CASE queue # <<>> /\ ParseInternal(Head(queue), Tail(queue))
    <3>1. /\ Head(queue) \in Packets /\ Tail(queue) \in Seq(Packets)
          /\ Head(queue) < next /\ Head(queue) \notin net
          /\ Waiting(Tail(queue), last, next, net)
          /\ Waiting(Tail(queue), Head(queue), next, net)
      BY <1>1, <2>2, HeadInOrder DEF InOrder, QueueTyped
    <3>. QED BY <1>1, <1>4, <2>2, <3>1, ParsedInOrder DEF InOrder
  <2>. QED BY <1>4, <2>1, <2>2 DEF ParseQueued
<1>5. ASSUME NEW n \in Packets, Receive(n)
      PROVE  InOrder'
  <2>1. /\ Arrives(n) /\ n \in net /\ net' = net \ {n} /\ UNCHANGED next
    BY <1>5 DEF Receive, ReceiveNext, ReceiveLate, ReceiveEarly, Arrives
  <2>2. /\ n < next /\ n # last /\ \A m \in net' : m < next
        /\ last < next /\ last \notin net'
        /\ seq # 0 \/ queue # <<>> => last \in Packets /\ seq = Num(last)
    BY <2>1 DEF InOrder
  <2>3. Waiting(queue, last, next, net') /\ \A i \in 1 .. Len(queue) : queue[i] # n
    BY <2>1 DEF InOrder, Waiting
  <2>4. n \in Int /\ last \in Int
    BY <1>1, <1>2
  <2>5. CASE ReceiveNext(n)
    <3>1. ParseInternal(n, queue)
      BY <2>5 DEF ReceiveNext
    <3>2. Waiting(queue, n, next, net')
      <4>1. CASE queue = <<>>
        BY <4>1, EmptySeq DEF Waiting, Sorted
      <4>2. CASE queue # <<>>
        <5>1. last \in Packets /\ Diff(Num(n), Num(last)) \in {0, 1}
          BY <2>2, <2>5, <4>2 DEF ReceiveNext
        <5>2. n = last + 1
          BY <2>2, <2>4, <5>1, DiffIsDistance
        <5>3. \A i \in 1 .. Len(queue) : queue[i] \in Int /\ last < queue[i] /\ queue[i] # n
          BY <1>2, <1>3, <2>3 DEF Waiting
        <5>4. \A i \in 1 .. Len(queue) : n < queue[i]
          BY <2>4, <5>2, <5>3
        <5>. QED BY <2>3, <5>4 DEF Waiting
      <4>. QED BY <4>1, <4>2
    <3>. QED BY <1>1, <2>1, <2>2, <2>3, <3>1, <3>2, ParsedInOrder DEF QueueTyped
  <2>6. CASE ReceiveLate(n)
    BY <2>1, <2>2, <2>3, <2>6 DEF ReceiveLate, InOrder
  <2>7. CASE ReceiveEarly(n)
    <3>1. last \in Packets /\ seq = Num(last) /\ Diff(Num(n), Num(last)) > 1
      BY <2>2, <2>7 DEF ReceiveEarly
    <3>2. last < n
      BY <2>4, <3>1, DiffIsDistance
    <3>3. PICK i \in Places(queue, n) :
            LET q == InsertAt(queue, i, n)
            IN  IF ~Full(q)
                THEN /\ queue' = q
                     /\ UNCHANGED <<seq, statistics, rest, last>>
                     /\ Return(-1)
                ELSE ParseInternal(Head(q), Tail(q))
      BY <2>7 DEF ReceiveEarly
    <3> DEFINE q == InsertAt(queue, i, n)
    <3>4. q \in Seq(Packets) /\ Len(q) = Len(queue) + 1
      BY <1>1, Inserted DEF Places, QueueTyped
    <3>5. Waiting(q, last, next, net')
      BY <1>1, <1>2, <2>1, <2>2, <3>1, <3>2, PlacedInOrder
      DEF InOrder, QueueTyped, NetworkTyped
    <3> HIDE DEF q
    <3>6. CASE UNCHANGED <<seq, last>> /\ queue' = q
      BY <2>1, <2>2, <3>1, <3>5, <3>6 DEF InOrder
    <3>7. CASE ParseInternal(Head(q), Tail(q))
      <4>1. q # <<>>
        BY <1>3, <3>4, EmptySeq
      <4>2. /\ Head(q) \in Packets /\ Tail(q) \in Seq(Packets)
            /\ Head(q) < next /\ Head(q) \notin net'
            /\ Waiting(Tail(q), last, next, net')
            /\ Waiting(Tail(q), Head(q), next, net')
        BY <3>4, <3>5, <4>1, HeadInOrder
      <4>. QED BY <1>1, <2>1, <2>2, <3>1, <3>7, <4>2, ParsedInOrder
    <3>. QED BY <3>3, <3>6, <3>7 DEF q
  <2>. QED BY <1>5, <2>5, <2>6, <2>7 DEF Receive
<1>6. CASE Send
  <2>1. next' = next + 1 /\ net' \subseteq net \cup {next} /\ UNCHANGED <<seq, queue, last>>
    BY <1>6 DEF Send
  <2>2. last < next' /\ last \notin net' /\ \A n \in net' : n < next'
    BY <1>1, <1>2, <2>1 DEF InOrder, NetworkTyped
  <2>3. Waiting(queue, last, next', net')
    <3>1. \A i \in 1 .. Len(queue) :
            queue[i] \in Int /\ last < queue[i] /\ queue[i] < next /\ queue[i] \notin net
      BY <1>2, <1>3 DEF InOrder, Waiting
    <3>2. \A i \in 1 .. Len(queue) : queue[i] < next' /\ queue[i] \notin net'
      BY <1>2, <2>1, <3>1
    <3>. QED BY <3>1, <3>2 DEF InOrder, Waiting
  <2>. QED BY <2>1, <2>2, <2>3 DEF InOrder
<1>7. CASE More \/ Timeout
  <2>1. Ask /\ UNCHANGED <<next, net>>
    BY <1>7 DEF More, Timeout, Ask, network
  <2>2. CASE ParseQueued
    BY <1>4, <2>1, <2>2
  <2>3. CASE UNCHANGED <<seq, queue, last>>
    BY <2>1, <2>3 DEF InOrder
  <2>. QED BY <2>1, <2>2, <2>3 DEF Ask
<1>8. CASE Again
  BY <1>4, <1>8 DEF Again, network
<1>9. CASE Reset
  <2>1. UNCHANGED <<next, net, last>> /\ seq' = 0 /\ queue' = <<>>
    BY <1>9 DEF Reset, network
  <2>2. Waiting(<<>>, last, next, net)
    BY EmptySeq DEF Waiting, Sorted
  <2>. QED BY <2>1, <2>2 DEF InOrder
<1>. QED BY <1>5, <1>6, <1>7, <1>8, <1>9 DEF Next

(* While no packet is repeated and fewer are sent than half the range of   *)
(* the numbers, packets are in flight, in the queue in their order, or     *)
(* behind the last one parsed.                                             *)
THEOREM PacketsInOrder == ASSUME MaxPackets <= Half PROVE Spec => []Order
<1>1. Init => Order
  <2> SUFFICES ASSUME Init PROVE InOrder
    BY DEF Order
  <2>1. next \in Nat \ {0} /\ last = 0 /\ net = {} /\ seq = 0 /\ queue = <<>>
    BY RtpAssumption DEF Init
  <2>2. Waiting(<<>>, last, next, net)
    BY EmptySeq DEF Waiting, Sorted
  <2>. QED BY <2>1, <2>2 DEF InOrder
<1>2. TypeOK /\ TypeOK' /\ Order /\ [Next]_vars => Order'
  <2> SUFFICES ASSUME TypeOK, TypeOK', Order, [Next]_vars, ~repeats' PROVE InOrder'
    BY DEF Order
  <2>1. CASE Next
    <3>1. UNCHANGED repeats
      BY <2>1 DEF Next, Send, More, Timeout, Ask, Again, Reset, network,
                  Receive, ReceiveNext, ReceiveLate, ReceiveEarly, Arrives
    <3>. QED BY <2>1, <3>1, StepOrder DEF Order
  <2>2. CASE UNCHANGED vars
    BY <2>2 DEF vars, network, Order, InOrder
  <2>. QED BY <2>1, <2>2
<1>3. QED
  BY <1>1, <1>2, TypeCorrect, PTL DEF Spec

(* A packet that is parsed is newer than the last, or nothing is known of  *)
(* the order.                                                              *)
THEOREM PayloadsKeepTheirOrder ==
  ASSUME MaxPackets <= Half PROVE Spec => PayloadsInOrder
<1>1. /\ TypeOK /\ Order /\ [Next]_vars
      => [last' # last /\ ~repeats => last < last' \/ (seq = 0 /\ queue = <<>>)]_vars
  <2> SUFFICES ASSUME TypeOK, Order, Next, last' # last, ~repeats,
                      ~(seq = 0 /\ queue = <<>>)
               PROVE  last < last'
    BY DEF vars
  <2>1. last \in Packets /\ seq = Num(last) /\ InOrder /\ QueueTyped /\ Packets \subseteq Int
    <3>1. last \in Packets /\ seq = Num(last) /\ InOrder
      BY DEF Order, InOrder
    <3>2. Packets \subseteq Int
      BY RtpAssumption DEF Packets
    <3>. QED BY <3>1, <3>2 DEF TypeOK, QueueTyped
  <2>2. ASSUME NEW q \in Seq(Packets), NEW N, q # <<>>, Waiting(q, last, next, N),
               ParseInternal(Head(q), Tail(q))
        PROVE  last < last'
    <3>1. last < Head(q)
      BY <2>2, HeadInOrder
    <3>. QED BY <2>2, <3>1 DEF ParseInternal
  <2>3. ASSUME ParseQueued PROVE last < last'
    BY <2>1, <2>2, <2>3 DEF ParseQueued, InOrder, QueueTyped
  <2>4. ASSUME NEW n \in Packets, Receive(n)
        PROVE  last < last'
    <3>1. n # last /\ n \in net
      BY <2>1, <2>4 DEF Receive, ReceiveNext, ReceiveLate, ReceiveEarly, Arrives, InOrder
    <3>2. Diff(Num(n), seq) = n - last
      BY <2>1, DiffIsDistance
    <3>3. CASE ReceiveNext(n)
      <4>1. last' = n /\ n - last \in {0, 1}
        BY <3>2, <3>3 DEF ReceiveNext, ParseInternal
      <4>. QED BY <2>1, <3>1, <4>1
    <3>4. CASE ReceiveLate(n)
      BY <3>4 DEF ReceiveLate
    <3>5. CASE ReceiveEarly(n)
      <4>1. PICK i \in Places(queue, n) :
              LET q == InsertAt(queue, i, n)
              IN  last' # last => ParseInternal(Head(q), Tail(q))
        BY <3>5 DEF ReceiveEarly
      <4> DEFINE q == InsertAt(queue, i, n)
      <4>2. last < n
        <5>1. n - last > 1
          BY <3>2, <3>5 DEF ReceiveEarly
        <5>. QED BY <2>1, <5>1
      <4>3. q \in Seq(Packets) /\ Len(q) = Len(queue) + 1
        BY <2>1, Inserted DEF Places, QueueTyped
      <4>4. Waiting(q, last, next, net \ {n})
        <5>1. next \in Int /\ net \subseteq Packets /\ n < next
          BY <2>1, <3>1, RtpAssumption DEF TypeOK, InOrder
        <5>. QED BY <2>1, <3>1, <4>2, <5>1, PlacedInOrder DEF InOrder, QueueTyped
      <4> HIDE DEF q
      <4>5. q # <<>>
        <5>1. Len(queue) \in Nat
          BY <2>1, LenProperties DEF QueueTyped
        <5>. QED BY <4>3, <5>1, EmptySeq
      <4>. QED BY <2>2, <4>1, <4>3, <4>4, <4>5 DEF q
    <3>. QED BY <2>4, <3>3, <3>4, <3>5 DEF Receive
  <2>5. CASE More \/ Timeout
    BY <2>3, <2>5 DEF More, Timeout, Ask
  <2>6. CASE Again
    BY <2>3, <2>6 DEF Again
  <2>7. CASE Send \/ Reset
    BY <2>7 DEF Send, Reset
  <2>. QED BY <2>4, <2>5, <2>6, <2>7 DEF Next
<1>2. QED
  BY <1>1, TypeCorrect, PacketsInOrder, PTL DEF Spec, PayloadsInOrder

(* A packet that is parsed is the last, or was refused.                    *)
LEMMA ParsedOrRefused ==
  ASSUME NEW n, NEW q, ParseInternal(n, q)
  PROVE  n = last' \/ bad_seq' = Num(n + 1)
BY DEF ParseInternal, Refuse

(* A packet that arrives before any newer one was parsed is not lost.      *)
THEOREM TimelyPacketsAreKept ==
  ASSUME MaxPackets <= Half PROVE Spec => TimelyPacketsKept
<1> DEFINE Kept(n) == n = last' \/ n \in ToSet(queue') \/ bad_seq' = Num(n + 1)
<1>1. TypeOK /\ Order /\ [Next]_vars =>
        [\A n \in net \ net' : next' = next /\ last < n => Kept(n)]_vars
  <2> SUFFICES ASSUME TypeOK, Order, Next, NEW n \in net, n \notin net', next' = next, last < n
               PROVE  Kept(n)
    BY DEF vars
  <2>1. /\ n \in Packets /\ n \in Int /\ Packets \subseteq Int /\ next \in Int
        /\ queue \in Seq(Packets)
    <3>1. Packets \subseteq Int
      BY RtpAssumption DEF Packets
    <3>2. next \in Int
      BY RtpAssumption DEF TypeOK
    <3>. QED BY <3>1, <3>2 DEF TypeOK
  <2>2. CASE \E m \in Packets : Receive(m)
    <3>1. PICK m \in Packets : Receive(m)
      BY <2>2
    <3>2. m = n /\ ~repeats
      BY <3>1 DEF Receive, ReceiveNext, ReceiveLate, ReceiveEarly, Arrives
    <3>3. ~(seq = 0 /\ queue = <<>>) => last \in Packets /\ Diff(Num(n), seq) = n - last
      BY <2>1, <3>2, DiffIsDistance DEF Order, InOrder
    <3>4. CASE ReceiveNext(n)
      BY <3>4, ParsedOrRefused DEF ReceiveNext
    <3>5. CASE ReceiveLate(n)
      <4>1. last \in Packets /\ n - last < 0
        BY <3>3, <3>5 DEF ReceiveLate
      <4>. QED BY <2>1, <4>1
    <3>6. CASE ReceiveEarly(n)
      <4>1. PICK i \in Places(queue, n) :
              LET q == InsertAt(queue, i, n)
              IN  queue' = q \/ ParseInternal(Head(q), Tail(q))
        BY <3>6 DEF ReceiveEarly
      <4> DEFINE q == InsertAt(queue, i, n)
      <4>2. /\ q \in Seq(Packets) /\ Len(q) = Len(queue) + 1 /\ q[i] = n
            /\ i \in 1 .. Len(q) /\ Len(q) \in Nat
        <5>1. Len(queue) \in Nat /\ i \in 1 .. Len(queue) + 1
          BY <2>1, LenProperties DEF Places
        <5>. QED BY <2>1, <5>1, Inserted
      <4> HIDE DEF q
      <4>3. CASE queue' = q
        <5>1. n \in ToSet(q)
          BY <4>2, LenProperties DEF ToSet
        <5>. QED BY <4>3, <5>1
      <4>4. CASE ParseInternal(Head(q), Tail(q))
        <5>1. CASE i = 1
          <6>1. Head(q) = n
            BY <4>2, <5>1
          <6>. QED BY <4>4, <6>1, ParsedOrRefused
        <5>2. CASE i > 1
          <6>1. q # <<>>
            BY <4>2, EmptySeq
          <6>2. /\ Tail(q) \in Seq(Packets) /\ Len(Tail(q)) = Len(q) - 1
                /\ \A j \in 1 .. Len(Tail(q)) : Tail(q)[j] = q[j + 1]
            BY <4>2, <6>1, HeadTailProperties
          <6>3. i - 1 \in 1 .. Len(Tail(q)) /\ Tail(q)[i - 1] = n
            BY <4>2, <5>2, <6>2
          <6>4. n \in ToSet(Tail(q))
            BY <6>2, <6>3, LenProperties DEF ToSet
          <6>. QED BY <4>4, <6>4 DEF ParseInternal
        <5>. QED BY <4>2, <5>1, <5>2
      <4>. QED BY <4>1, <4>3, <4>4 DEF q
    <3>. QED BY <3>1, <3>2, <3>4, <3>5, <3>6 DEF Receive
  <2>3. CASE Send
    BY <2>1, <2>3 DEF Send
  <2>4. CASE More \/ Timeout \/ Again \/ Reset
    BY <2>4 DEF More, Timeout, Ask, Again, Reset, network
  <2>. QED BY <2>2, <2>3, <2>4 DEF Next
<1>2. QED
  BY <1>1, TypeCorrect, PacketsInOrder, PTL DEF Spec, TimelyPacketsKept
=============================================================================
