----------------------- MODULE MacsecTxWrapperProofs -----------------------
(***************************************************************************)
(* Proofs about the transmit wrapper, for every depth of its queues, every *)
(* number and length of frames and every width of the packet number.       *)
(***************************************************************************)
EXTENDS MacsecTxWrapper, SequenceTheorems, TLAPS

(***************************************************************************)
(* Packet numbers and queues                                               *)
(***************************************************************************)
(* A number is a number of whole turns and a rest. *)
LEMMA Turns ==
    ASSUME NEW a \in Nat, NEW S \in Nat \ {0}
    PROVE  /\ a % S \in Nat /\ a % S < S /\ a % S \in 0..S - 1
           /\ a \div S \in Nat /\ a = S * (a \div S) + (a % S)
  BY SMT

(* The packet number of the next frame is the next packet number, also     *)
(* where both wrap.                                                        *)
LEMMA NextPacketNumber ==
    ASSUME NEW k \in Nat
    PROVE  /\ PacketNumber(k) \in 0..(PN_LIMIT - 1)
           /\ PacketNumber(k + 1) = (PacketNumber(k) + 1) % PN_LIMIT
<1> DEFINE L == PN_LIMIT
           q == k \div L
           r == k % L
<1>1. L \in Nat \ {0}  BY WrapperAssumption
<1>2. PacketNumber(k) = r /\ PacketNumber(k + 1) = (k + 1) % L
  <2>1. (PN_INIT + k) - 1 = k /\ (PN_INIT + (k + 1)) - 1 = k + 1  BY DEF PN_INIT
  <2>2. QED  BY <2>1 DEF PacketNumber
<1>3. k = L * q + r /\ q \in Nat /\ r \in 0..(L - 1)  BY <1>1, Turns
<1> HIDE DEF L, q, r
<1>4. CASE r + 1 < L
  <2>1. \A j \in Nat, s \in 0..(L - 1) : (L * j + s) % L = s  BY <1>1, SMT
  <2>2. k + 1 = L * q + (r + 1) /\ r + 1 \in 0..(L - 1)  BY <1>1, <1>3, <1>4
  <2>3. (k + 1) % L = r + 1  BY <1>3, <2>1, <2>2
  <2>4. (r + 1) % L = r + 1  BY <1>1, <2>2
  <2>5. QED  BY <1>2, <1>3, <2>3, <2>4 DEF L
<1>5. CASE r + 1 = L
  <2>1. \A j \in Nat : (L * j) % L = 0  BY <1>1, SMT
  <2>2. k + 1 = L * (q + 1) /\ q + 1 \in Nat  BY <1>1, <1>3, <1>5
  <2>3. (k + 1) % L = 0  BY <2>1, <2>2
  <2>4. (r + 1) % L = 0  BY <1>1, <1>5
  <2>5. QED  BY <1>2, <1>3, <2>3, <2>4 DEF L
<1>6. QED  BY <1>1, <1>3, <1>4, <1>5

(* A queue that is not full when pushed to and not empty when popped.      *)
Moved(S, q, depth, push, w, pop, p) ==
    /\ p \in Seq(S) /\ Len(p) \in Nat /\ Len(q) \in Nat
    /\ Len(p) = (Len(q) - Count(pop)) + Count(push)
    /\ \A i \in 1..(Len(q) - Count(pop)) : p[i] = q[i + Count(pop)]
    /\ push => p[Len(p)] = w
    /\ Len(q) <= depth => Len(p) <= depth

LEMMA QueueStep ==
    ASSUME NEW S, NEW q \in Seq(S), NEW depth \in Nat, NEW push \in BOOLEAN,
           NEW pop \in BOOLEAN, NEW w, push => w \in S /\ Len(q) < depth, pop => q # <<>>
    PROVE  Moved(S, q, depth, push, w, pop, QueueEdge(q, depth, push, w, pop))
<1> DEFINE o == Count(pop)
           u == Count(push)
<1> SUFFICES ASSUME NEW p, p = QueueEdge(q, depth, push, w, pop)
             PROVE  /\ p \in Seq(S) /\ Len(p) \in Nat /\ Len(q) \in Nat
                    /\ Len(p) = (Len(q) - o) + u
                    /\ \A i \in 1..(Len(q) - o) : p[i] = q[i + o]
                    /\ push => p[Len(p)] = w
                    /\ Len(q) <= depth => Len(p) <= depth
  BY DEF Moved
<1>1. Len(q) \in Nat  OBVIOUS
<1>2. pop => /\ Tail(q) \in Seq(S) /\ Len(Tail(q)) = Len(q) - 1 /\ Len(q) >= 1
             /\ \A i \in 1..(Len(q) - 1) : Tail(q)[i] = q[i + 1]
  BY HeadTailProperties, EmptySeq
<1>3. (pop => o = 1) /\ (~pop => o = 0) /\ (push => u = 1) /\ (~push => u = 0)
  BY DEF Count
<1> HIDE DEF o, u
<1>4. CASE push /\ ~pop
  <2>0. w \in S /\ Len(q) < depth  BY <1>4
  <2>1. p = Append(q, w)  BY <1>4 DEF QueueEdge
  <2>2. p \in Seq(S) /\ Len(p) = Len(q) + 1 /\ p[Len(q) + 1] = w
        /\ \A i \in 1..Len(q) : p[i] = q[i]
    BY <2>0, <2>1, AppendProperties
  <2>3. o = 0 /\ u = 1  BY <1>3, <1>4
  <2>4. \A i \in 1..(Len(q) - o) : p[i] = q[i + o]  BY <1>1, <2>2, <2>3
  <2>5. Len(p) \in Nat /\ Len(p) = (Len(q) - o) + u /\ Len(p) <= depth /\ p[Len(p)] = w
    BY <1>1, <2>0, <2>2, <2>3
  <2>6. QED  BY <1>1, <2>2, <2>4, <2>5
<1>5. CASE ~push /\ pop
  <2>1. p = Tail(q)  BY <1>5 DEF QueueEdge
  <2>2. o = 1 /\ u = 0  BY <1>3, <1>5
  <2>3. Len(p) = Len(q) - 1 /\ p \in Seq(S) /\ \A i \in 1..(Len(q) - 1) : p[i] = q[i + 1]
    BY <1>2, <1>5, <2>1
  <2>4. \A i \in 1..(Len(q) - o) : p[i] = q[i + o]  BY <2>2, <2>3
  <2>5. Len(q) >= 1  BY <1>2, <1>5
  <2>6. Len(p) \in Nat /\ Len(p) = (Len(q) - o) + u /\ (Len(q) <= depth => Len(p) <= depth)
    BY <1>1, <2>2, <2>3, <2>5
  <2>7. QED  BY <1>1, <1>5, <2>3, <2>4, <2>6
<1>6. CASE push /\ pop
  <2> DEFINE t == Tail(q)
  <2>0. w \in S /\ Len(q) < depth  BY <1>6
  <2>1. p = Append(t, w)  BY <1>6 DEF QueueEdge
  <2>2. t \in Seq(S) /\ Len(t) = Len(q) - 1 /\ \A i \in 1..(Len(q) - 1) : t[i] = q[i + 1]
    BY <1>2, <1>6
  <2> HIDE DEF t
  <2>3. /\ p \in Seq(S) /\ Len(p) = Len(t) + 1 /\ p[Len(t) + 1] = w
        /\ \A i \in 1..Len(t) : p[i] = t[i]
    BY <2>0, <2>1, <2>2, AppendProperties
  <2>4. o = 1 /\ u = 1 /\ Len(q) >= 1  BY <1>2, <1>3, <1>6
  <2>5. \A i \in 1..(Len(q) - o) : p[i] = q[i + o]  BY <1>1, <2>2, <2>3, <2>4
  <2>6. Len(p) \in Nat /\ Len(p) = (Len(q) - o) + u /\ Len(p) <= depth /\ p[Len(p)] = w
    BY <1>1, <2>0, <2>2, <2>3, <2>4
  <2>7. QED  BY <1>1, <2>3, <2>5, <2>6
<1>7. CASE ~push /\ ~pop
  <2>1. p = q  BY <1>7 DEF QueueEdge
  <2>2. o = 0 /\ u = 0  BY <1>3, <1>7
  <2>3. \A i \in 1..(Len(q) - o) : p[i] = q[i + o]  BY <1>1, <2>1, <2>2
  <2>4. Len(p) = (Len(q) - o) + u  BY <1>1, <2>1, <2>2
  <2>5. QED  BY <1>1, <1>7, <2>1, <2>3, <2>4
<1>8. QED  BY <1>4, <1>5, <1>6, <1>7

(* The counts of frames, and how they follow each other.                   *)
LEMMA Counts ==
    ASSUME Side
    PROVE  /\ Len(accepted) \in Nat /\ Len(to_cipher) \in Nat /\ Len(tags) \in Nat
           /\ encrypted_frames \in Nat /\ encrypted_frames + Len(to_cipher) = Len(accepted)
           /\ tagged_frames \in Nat /\ tagged_frames + Len(tags) = encrypted_frames
<1>1. Len(accepted) \in Nat /\ Len(to_cipher) \in Nat /\ Len(tags) \in Nat
  BY DEF Side, QueueTypes
<1>2. Len(to_cipher) <= Len(accepted) /\ Len(tags) <= encrypted_frames
  BY DEF Side, CipherInOrder, TagsInOrder
<1> DEFINE a == Len(accepted)
           c == Len(to_cipher)
           t == Len(tags)
           e == encrypted_frames
<1>3. e = a - c /\ tagged_frames = e - t  BY DEF encrypted_frames, tagged_frames
<1> HIDE DEF a, c, t, e
<1>4. e \in Nat /\ e + c = a  BY <1>1, <1>2, <1>3 DEF a, c
<1>5. tagged_frames \in Nat /\ tagged_frames + t = e  BY <1>1, <1>2, <1>3, <1>4 DEF t, e
<1>6. QED  BY <1>1, <1>4, <1>5 DEF a, c, t, e

(* Whenever a tag may be taken, its EtherType and packet number are there. *)
LEMMA TagMeets ==
    ASSUME Side, tags # <<>>, ~tag_pending_valid_reg
    PROVE  /\ ethertype_fifo # <<>> /\ Head(ethertype_fifo) = Head(tags).frame
           /\ pn_sideband_reg = Head(tags).pn
           /\ Head(tags) = [frame |-> accepted[tagged_frames + 1].frame,
                            pn    |-> PacketNumber(tagged_frames + 1)]
<1> DEFINE T == tagged_frames
<1>1. /\ Len(accepted) \in Nat /\ Len(to_cipher) \in Nat /\ Len(tags) \in Nat /\ T \in Nat
      /\ encrypted_frames + Len(to_cipher) = Len(accepted) /\ T + Len(tags) = encrypted_frames
      /\ encrypted_frames \in Nat
  BY Counts
<1>2. Len(tags) >= 1 /\ Head(tags) = tags[1]
  <2>1. tags \in Seq([frame : 1..MAX_FRAMES, pn : 0..(PN_LIMIT - 1)])  BY DEF Side, QueueTypes
  <2>2. Len(tags) # 0  BY <2>1, EmptySeq
  <2>3. QED  BY <1>1, <2>2
<1>3. Head(tags) = [frame |-> accepted[T + 1].frame, pn |-> PacketNumber(T + 1)]
  <2>1. 1 \in 1..Len(tags)  BY <1>1, <1>2
  <2>2. QED  BY <1>2, <2>1 DEF Side, TagsInOrder
<1>4. Count(ethertype_pop_d1_reg) = 0 /\ T - 0 = T
  BY <1>1 DEF Side, EthertypesInOrder, Count
<1>5. /\ Len(ethertype_fifo) = Len(accepted) - T
      /\ \A i \in 1..Len(ethertype_fifo) : ethertype_fifo[i] = accepted[T + i].frame
  BY <1>4 DEF Side, EthertypesInOrder
<1>6. Len(ethertype_fifo) >= 1
  <2> HIDE DEF T
  <2>1. QED  BY <1>1, <1>2, <1>5
<1>7. ethertype_fifo # <<>> /\ Head(ethertype_fifo) = ethertype_fifo[1]
  <2>1. ethertype_fifo \in Seq(FrameIds)  BY DEF Side, TypeOK
  <2>2. QED  BY <1>6, <2>1
<1>8. ethertype_fifo[1] = accepted[T + 1].frame
  <2>1. Len(ethertype_fifo) \in Nat  BY <1>1, <1>5
  <2>2. 1 \in 1..Len(ethertype_fifo)  BY <1>6, <2>1
  <2>3. QED  BY <1>5, <2>2
<1>9. pn_sideband_reg = PacketNumber(T + 1)  BY DEF Side, TagsInOrder
<1>10. QED  BY <1>3, <1>7, <1>8, <1>9

(***************************************************************************)
(* One edge of mac_clk: the registers keep their types                     *)
(***************************************************************************)

(* What a beat that can be offered looks like. *)
LEMMA InputFacts ==
    ASSUME Side, NEW in \in Inputs, in # NoInput
    PROVE  /\ in.keep \in 1..8 /\ in.last \in BOOLEAN /\ in_frame \in 1..MAX_FRAMES
           /\ header_next(in) \in 0..14 /\ payload_in(in) \in Nat
           /\ header_next(in) + payload_in(in) = in_header_count_reg + in.keep
           /\ in.last => header_next(in) = 14 /\ (RUNTS \/ payload_in(in) > 0)
           /\ ~in.last => in_payload + in_header_count_reg + in.keep < 8 * MAX_BEATS
           /\ in_payload \in Nat /\ in_header_count_reg \in 0..14
           /\ in_payload + in_header_count_reg <= 8 * MAX_BEATS
           /\ MAX_BEATS \in Nat /\ MAX_FRAMES \in Nat
<1>1. /\ in \in [keep : LAST_KEEPS \cup {8}, last : BOOLEAN] /\ in_frame <= MAX_FRAMES
      /\ in.last => in.keep \in LAST_KEEPS /\ header_next(in) = HEADER_BYTES
                    /\ (RUNTS \/ payload_in(in) > 0)
      /\ ~in.last => in.keep = 8 /\ in_payload + in_header_count_reg + 8 < 8 * MAX_BEATS
  BY DEF Inputs
<1>2. in.keep \in 1..8 /\ in.last \in BOOLEAN
  <2>1. in.keep \in LAST_KEEPS \cup {8} /\ in.last \in BOOLEAN  BY <1>1
  <2>2. LAST_KEEPS \subseteq 1..8 /\ 8 \in 1..8  BY WrapperAssumption
  <2>3. QED  BY <2>1, <2>2
<1>3. /\ in_header_count_reg \in 0..14 /\ in_payload \in Nat /\ in_frame \in 1..(MAX_FRAMES + 1)
      /\ in_payload + in_header_count_reg <= 8 * MAX_BEATS
  BY DEF Side, TypeOK, QueueTypes, HEADER_BYTES
<1>4. MAX_BEATS \in Nat /\ MAX_FRAMES \in Nat  BY WrapperAssumption
<1>5. in_frame \in 1..MAX_FRAMES  BY <1>1, <1>3, <1>4
<1>6. /\ header_next(in) \in 0..14 /\ payload_in(in) \in Nat
      /\ header_next(in) + payload_in(in) = in_header_count_reg + in.keep
  BY <1>2, <1>3 DEF header_next, payload_in, AtMost, HEADER_BYTES
<1>7. ~in.last => in_payload + in_header_count_reg + in.keep < 8 * MAX_BEATS
  BY <1>1
<1>8. in.last => header_next(in) = 14 /\ (RUNTS \/ payload_in(in) > 0)
  BY <1>1 DEF HEADER_BYTES
<1>9. QED  BY <1>2, <1>3, <1>4, <1>5, <1>6, <1>7, <1>8

(* The frame that ends in this cycle. *)
ending_frame(in) == [frame |-> in_frame, bytes |-> in_payload + payload_in(in)]

LEMMA InputStep ==
    ASSUME Side, NEW in \in Inputs, InputEdge(in)
    PROVE  /\ in_header_count_reg' \in 0..14 /\ in_payload' \in Nat
           /\ in_payload' + in_header_count_reg' <= 8 * MAX_BEATS
           /\ in_frame_active_reg' \in BOOLEAN /\ in_frame' \in 1..(MAX_FRAMES + 1)
           /\ in_frame_tuser_reg' \in FrameIds
           /\ accepted' \in Seq(AcceptedFrames)
           /\ s_axis_frame_end_hs(in) =>
                /\ ending_frame(in) \in AcceptedFrames
                /\ accepted' = Append(accepted, ending_frame(in))
           /\ ~s_axis_frame_end_hs(in) => accepted' = accepted
<1>1. /\ in_header_count_reg \in 0..14 /\ in_payload \in Nat /\ in_frame \in 1..(MAX_FRAMES + 1)
      /\ in_payload + in_header_count_reg <= 8 * MAX_BEATS /\ in_frame_active_reg \in BOOLEAN
      /\ in_frame_tuser_reg \in FrameIds /\ accepted \in Seq(AcceptedFrames)
      /\ MAX_BEATS \in Nat /\ MAX_FRAMES \in Nat
  BY WrapperAssumption DEF Side, TypeOK, QueueTypes, HEADER_BYTES
<1>2. CASE ~in_axis_hs(in)
  BY <1>1, <1>2 DEF InputEdge, s_axis_frame_end_hs, inVars
<1>3. CASE in_axis_hs(in)
  <2>1. /\ in.keep \in 1..8 /\ in.last \in BOOLEAN /\ in_frame \in 1..MAX_FRAMES
        /\ header_next(in) \in 0..14 /\ payload_in(in) \in Nat
        /\ header_next(in) + payload_in(in) = in_header_count_reg + in.keep
        /\ in.last => header_next(in) = 14
        /\ ~in.last => in_payload + in_header_count_reg + in.keep < 8 * MAX_BEATS
    BY <1>3, InputFacts DEF in_axis_hs
  <2>2. /\ in_header_count_reg' = IF in.last THEN 0 ELSE header_next(in)
        /\ in_payload' = IF in.last THEN 0 ELSE in_payload + payload_in(in)
        /\ in_frame_tuser_reg' = IF in_frame_active_reg THEN in_frame_tuser_reg ELSE in_frame
        /\ in_frame_active_reg' = ~in.last
        /\ in_frame' = IF in.last THEN in_frame + 1 ELSE in_frame
        /\ accepted' = IF s_axis_frame_end_hs(in) THEN Append(accepted, ending_frame(in))
                       ELSE accepted
    BY <1>3 DEF InputEdge, ending_frame
  <2> DEFINE h == header_next(in)
             b == payload_in(in)
             k == in.keep
  <2>0. /\ h \in 0..14 /\ b \in Nat /\ k \in 1..8 /\ h + b = in_header_count_reg + k
        /\ ~in.last => in_payload + in_header_count_reg + k < 8 * MAX_BEATS
        /\ in_header_count_reg' = IF in.last THEN 0 ELSE h
        /\ in_payload' = IF in.last THEN 0 ELSE in_payload + b
    BY <2>1, <2>2
  <2> HIDE DEF h, b, k
  <2>3. in_header_count_reg' \in 0..14 /\ in_payload' \in Nat
        /\ in_payload' + in_header_count_reg' <= 8 * MAX_BEATS
    <3>1. CASE in.last
      <4>1. in_header_count_reg' = 0 /\ in_payload' = 0  BY <2>0, <3>1
      <4>2. QED  BY <1>1, <4>1
    <3>2. CASE ~in.last
      <4>1. in_header_count_reg' = h /\ in_payload' = in_payload + b
            /\ in_payload + in_header_count_reg + k < 8 * MAX_BEATS
        BY <2>0, <3>2
      <4>2. QED  BY <1>1, <2>0, <4>1
    <3>3. QED  BY <3>1, <3>2
  <2>4. in_frame' \in 1..(MAX_FRAMES + 1) /\ in_frame_tuser_reg' \in FrameIds
    BY <1>1, <2>1, <2>2 DEF FrameIds
  <2>5. s_axis_frame_end_hs(in) => ending_frame(in) \in AcceptedFrames
    <3>1. SUFFICES ASSUME in.last, payload_in(in) > 0 PROVE ending_frame(in) \in AcceptedFrames
      BY DEF s_axis_frame_end_hs
    <3>2. h = 14 /\ b > 0 /\ in_frame \in 1..MAX_FRAMES  BY <2>1, <3>1 DEF h, b
    <3>3. in_payload + b \in 1..(8 * MAX_BEATS)  BY <1>1, <2>0, <3>2
    <3>4. [frame |-> in_frame, bytes |-> in_payload + b] \in AcceptedFrames
      BY <3>2, <3>3 DEF AcceptedFrames
    <3>5. QED  BY <3>4 DEF b, ending_frame
  <2>6. accepted' \in Seq(AcceptedFrames)
    BY <1>1, <2>2, <2>5, AppendProperties
  <2>7. QED  BY <2>2, <2>3, <2>4, <2>5, <2>6
<1>4. QED  BY <1>2, <1>3

(* A push finds room in each of the three queues. *)
LEMMA PushHasRoom ==
    ASSUME NEW in, in_axis_hs(in)
    PROVE  /\ Len(header_fifo) < HEADER_FIFO_DEPTH /\ Len(ethertype_fifo) < HEADER_FIFO_DEPTH
           /\ Len(tuser_fifo) < TUSER_FIFO_DEPTH
  BY DEF in_axis_hs, s_axis_ready_int

(* The words the output register holds. *)
CaptureBeats == [frame : Nat, pos : Nat, keep : 1..8, last : BOOLEAN]

LEMMA WordFacts ==
    /\ NoMeta \in Metas /\ NoWord \in Words
    /\ \A b \in CaptureBeats, meta \in Metas :
          /\ PayloadWord(b, meta) \in Words
          /\ b.frame # 0 => PayloadWord(b, meta) # NoWord
          /\ PayloadWord(b, meta) =
               [frame |-> b.frame, pos |-> b.pos, keep |-> b.keep, from |-> 0,
                auth |-> IF b.last THEN 8 - b.keep ELSE 0,
                meta |-> IF b.last THEN meta ELSE NoMeta, last |-> FALSE]
    /\ \A from \in 0..23, meta \in Metas :
          /\ AuthWord(from, meta) \in Words /\ AuthWord(from, meta) # NoWord
          /\ AuthWord(from, meta) =
               [frame |-> 0, pos |-> 0, keep |-> 0, from |-> from,
                auth |-> IF 24 - from < 8 THEN 24 - from ELSE 8,
                meta |-> meta, last |-> 24 - from <= 8]
<1>1. NoMeta \in Metas
  <2>1. 0 \in 0..(PN_LIMIT - 1) /\ 0 \in FrameIds  BY WrapperAssumption DEF FrameIds
  <2>2. QED  BY <2>1 DEF NoMeta, Metas
<1>2. NoWord \in Words  BY <1>1 DEF NoWord, Words
<1>3. ASSUME NEW b \in CaptureBeats, NEW meta \in Metas
      PROVE  /\ PayloadWord(b, meta) \in Words
             /\ b.frame # 0 => PayloadWord(b, meta) # NoWord
             /\ PayloadWord(b, meta) =
                  [frame |-> b.frame, pos |-> b.pos, keep |-> b.keep, from |-> 0,
                   auth |-> IF b.last THEN 8 - b.keep ELSE 0,
                   meta |-> IF b.last THEN meta ELSE NoMeta, last |-> FALSE]
  <2> DEFINE a == IF b.last THEN 8 - b.keep ELSE 0
             m == IF b.last THEN meta ELSE NoMeta
  <2>0. PayloadWord(b, meta) = [NoWord EXCEPT !.frame = b.frame, !.pos = b.pos, !.keep = b.keep,
                                              !.auth = a, !.meta = m]
    BY Zenon DEF PayloadWord, KEEP_WIDTH
  <2>2. a \in 0..8 /\ m \in Metas  BY <1>1 DEF CaptureBeats
  <2>3. b.frame \in Nat /\ b.pos \in Nat /\ b.keep \in 0..8  BY DEF CaptureBeats
  <2> HIDE DEF a, m
  <2>1. PayloadWord(b, meta) = [frame |-> b.frame, pos |-> b.pos, keep |-> b.keep, from |-> 0,
                                auth |-> a, meta |-> m, last |-> FALSE]
    BY <2>0 DEF NoWord
  <2>4. PayloadWord(b, meta) \in Words  BY <2>1, <2>2, <2>3 DEF Words
  <2>5. b.frame # 0 => PayloadWord(b, meta) # NoWord  BY <2>1 DEF NoWord
  <2>6. QED  BY <2>1, <2>4, <2>5 DEF a, m
<1>4. ASSUME NEW from \in 0..23, NEW meta \in Metas
      PROVE  /\ AuthWord(from, meta) \in Words /\ AuthWord(from, meta) # NoWord
             /\ AuthWord(from, meta) =
                  [frame |-> 0, pos |-> 0, keep |-> 0, from |-> from,
                   auth |-> IF 24 - from < 8 THEN 24 - from ELSE 8,
                   meta |-> meta, last |-> 24 - from <= 8]
  <2> DEFINE a == IF 24 - from < 8 THEN 24 - from ELSE 8
             l == 24 - from <= 8
  <2>0. AuthWord(from, meta) = [NoWord EXCEPT !.from = from, !.auth = a, !.meta = meta, !.last = l]
    BY Zenon DEF AuthWord, KEEP_WIDTH, AUTH_BYTES
  <2>2. a \in 1..8 /\ l \in BOOLEAN  OBVIOUS
  <2> HIDE DEF a, l
  <2>1. AuthWord(from, meta) = [frame |-> 0, pos |-> 0, keep |-> 0, from |-> from,
                                auth |-> a, meta |-> meta, last |-> l]
    BY <2>0, Zenon DEF NoWord
  <2>3. AuthWord(from, meta) \in Words  BY <2>1, <2>2 DEF Words
  <2>4. AuthWord(from, meta) # NoWord  BY <2>1, <2>2 DEF NoWord
  <2>5. QED  BY <2>1, <2>3, <2>4 DEF a, l
<1>5. QED  BY <1>1, <1>2, <1>3, <1>4

LEMMA QueueKeepsType ==
    ASSUME NEW S, NEW q \in Seq(S), NEW depth \in Nat, Len(q) <= depth, NEW push \in BOOLEAN,
           NEW pop \in BOOLEAN, NEW w, push => w \in S
    PROVE  /\ QueueEdge(q, depth, push, w, pop) \in Seq(S)
           /\ Len(QueueEdge(q, depth, push, w, pop)) <= depth
<1> SUFFICES ASSUME NEW p, p = QueueEdge(q, depth, push, w, pop)
             PROVE  p \in Seq(S) /\ Len(p) <= depth
  OBVIOUS
<1>1. CASE push /\ ~pop /\ Len(q) < depth
  <2>1. p = Append(q, w) /\ w \in S  BY <1>1 DEF QueueEdge
  <2>2. p \in Seq(S) /\ Len(p) = Len(q) + 1  BY <2>1, AppendProperties
  <2>3. Len(q) \in Nat /\ Len(q) < depth  BY <1>1
  <2>4. QED  BY <2>2, <2>3
<1>2. CASE ~push /\ pop /\ q # <<>>
  <2>1. p = Tail(q)  BY <1>2 DEF QueueEdge
  <2>2. p \in Seq(S) /\ Len(p) = Len(q) - 1  BY <1>2, <2>1, HeadTailProperties
  <2>3. QED  BY <2>2
<1>3. CASE push /\ pop /\ q # <<>>
  <2>1. p = Append(Tail(q), w) /\ w \in S  BY <1>3 DEF QueueEdge
  <2>2. Tail(q) \in Seq(S) /\ Len(Tail(q)) = Len(q) - 1  BY <1>3, HeadTailProperties
  <2>3. p \in Seq(S) /\ Len(p) = Len(q) - 1 + 1  BY <2>1, <2>2, AppendProperties
  <2>4. QED  BY <2>3
<1>4. CASE ~(push /\ ~pop /\ Len(q) < depth) /\ ~(~push /\ pop /\ q # <<>>)
           /\ ~(push /\ pop /\ q # <<>>)
  <2>1. p = q  BY <1>4 DEF QueueEdge
  <2>2. QED  BY <2>1
<1>5. QED  BY <1>1, <1>2, <1>3, <1>4

(* The beat the return bridge shows, and what it leaves behind. *)
LEMMA ShownBeat ==
    ASSUME Side, from_cipher # <<>>
    PROVE  /\ enc_payload(TRUE) \in CaptureBeats /\ enc_payload(TRUE).frame # 0
           /\ enc_payload(TRUE) =
                [frame |-> from_cipher[1].frame, pos |-> sent_bytes \div 8 + 1,
                 keep |-> AtMost(from_cipher[1].bytes - sent_bytes, 8),
                 last |-> from_cipher[1].bytes - sent_bytes <= 8]
           /\ enc_payload(TRUE).last = (from_cipher[1].bytes - sent_bytes <= 8)
           /\ from_cipher[1] \in AcceptedFrames /\ sent_bytes \in Nat
           /\ sent_bytes < from_cipher[1].bytes /\ from_cipher[1].bytes \in Nat
           /\ from_cipher[1].frame \in Nat \ {0}
<1> DEFINE f == from_cipher[1]
           left == f.bytes - sent_bytes
<1>1. from_cipher \in Seq(AcceptedFrames) /\ sent_bytes \in Nat /\ sent_bytes < f.bytes
  BY DEF Side, QueueTypes
<1>2. Head(from_cipher) = f /\ f \in AcceptedFrames
  BY <1>1, HeadTailProperties
<1>3. f.frame \in Nat \ {0} /\ f.bytes \in Nat
  BY <1>2, WrapperAssumption DEF AcceptedFrames
<1> DEFINE p == sent_bytes \div 8 + 1
           k == AtMost(left, 8)
           l == left <= 8
<1>4. enc_payload(TRUE) = [frame |-> f.frame, pos |-> p, keep |-> k, last |-> l]
  BY <1>2 DEF enc_payload
<1>5. left \in Nat \ {0}  BY <1>1, <1>3
<1>6. k \in 1..8 /\ l \in BOOLEAN /\ p \in Nat
  <2> HIDE DEF left
  <2>1. QED  BY <1>1, <1>5 DEF AtMost
<1> HIDE DEF left, f, p, k, l
<1>7. [frame |-> f.frame, pos |-> p, keep |-> k, last |-> l] \in CaptureBeats
  BY <1>3, <1>6 DEF CaptureBeats
<1>8. enc_payload(TRUE) \in CaptureBeats /\ enc_payload(TRUE).frame # 0
      /\ enc_payload(TRUE).last = l
  <2> SUFFICES ASSUME NEW b, b = [frame |-> f.frame, pos |-> p, keep |-> k, last |-> l]
               PROVE  b \in CaptureBeats /\ b.frame # 0 /\ b.last = l
    BY <1>4
  <2>1. QED  BY <1>3, <1>7
<1>9. QED  BY <1>1, <1>2, <1>3, <1>4, <1>8 DEF f, left, p, k, l

LEMMA ReturnPayload ==
    ASSUME Side, NEW ps \in BOOLEAN, NEW ts \in BOOLEAN, ps => from_cipher # <<>>,
           ReturnEdge(ps, ts)
    PROVE  /\ from_cipher' \in Seq(AcceptedFrames) /\ sent_bytes' \in Nat
           /\ sent_bytes' # 0 => from_cipher' # <<>>
           /\ from_cipher' # <<>> => sent_bytes' < from_cipher'[1].bytes
<1>1. from_cipher \in Seq(AcceptedFrames) /\ sent_bytes \in Nat
      /\ (sent_bytes # 0 => from_cipher # <<>>)
      /\ (from_cipher # <<>> => sent_bytes < from_cipher[1].bytes)
  BY DEF Side, QueueTypes
<1>2. CASE ~(ps /\ s_payload_tready)
  <2>1. UNCHANGED <<sent_bytes, from_cipher>>  BY <1>2 DEF ReturnEdge
  <2>2. QED  BY <1>1, <2>1
<1>3. CASE ps /\ s_payload_tready
  <2>1. from_cipher # <<>>  BY <1>3
  <2>2. ~enc_payload(TRUE).last => ~(from_cipher[1].bytes - sent_bytes <= 8)
    BY <2>1, ShownBeat
  <2>5. from_cipher[1].bytes \in Nat  BY <2>1, ShownBeat
  <2>3. CASE enc_payload(TRUE).last
    <3>1. sent_bytes' = 0 /\ from_cipher' = Tail(from_cipher)  BY <1>3, <2>3 DEF ReturnEdge
    <3>2. from_cipher' \in Seq(AcceptedFrames)  BY <1>1, <2>1, <3>1, HeadTailProperties
    <3>3. from_cipher' # <<>> => from_cipher'[1].bytes \in Nat /\ from_cipher'[1].bytes > 0
      <4>1. from_cipher' # <<>> => from_cipher'[1] \in AcceptedFrames
        BY <3>2, HeadTailProperties
      <4>2. \A g \in AcceptedFrames : g.bytes \in Nat /\ g.bytes > 0
        BY WrapperAssumption DEF AcceptedFrames
      <4>3. QED  BY <4>1, <4>2
    <3>4. QED  BY <3>1, <3>2, <3>3
  <2>4. CASE ~enc_payload(TRUE).last
    <3>1. sent_bytes' = sent_bytes + 8 /\ from_cipher' = from_cipher
      BY <1>3, <2>4 DEF ReturnEdge
    <3>2. ~(from_cipher[1].bytes - sent_bytes <= 8)  BY <2>2, <2>4
    <3>3. sent_bytes + 8 < from_cipher[1].bytes /\ sent_bytes + 8 \in Nat
      BY <1>1, <2>5, <3>2
    <3>4. QED  BY <1>1, <2>1, <3>1, <3>3
  <2>6. QED  BY <2>3, <2>4
<1>4. QED  BY <1>2, <1>3

(* The tag of the return bridge is taken exactly when it is counted, and   *)
(* it is then the whole trailer of the next frame.                         *)
LEMMA ShownTag ==
    ASSUME Side, NEW ts \in BOOLEAN, ts => tags # <<>>
    PROVE  /\ enc_tag(ts) \in Metas
           /\ ts /\ s_tag_ready =>
                /\ tag_meta_hs(ts)
                /\ enc_tag(ts) = Meta(accepted[tagged_frames + 1], tagged_frames + 1)
                /\ enc_tag(ts) # NoMeta
           /\ ~(ts /\ s_tag_ready) =>
                /\ ~tag_meta_hs(ts)
                /\ s_tag_ready => enc_tag(ts) = NoMeta
<1>1. CASE enc_tag_valid_int(ts)
  <2>0. ts /\ ethertype_fifo # <<>> /\ tags # <<>>  BY <1>1 DEF enc_tag_valid_int
  <2>1. /\ tags \in Seq([frame : 1..MAX_FRAMES, pn : 0..(PN_LIMIT - 1)])
        /\ ethertype_fifo \in Seq(FrameIds) /\ pn_sideband_reg \in 0..(PN_LIMIT - 1)
    BY DEF Side, QueueTypes, TypeOK
  <2>2. Head(tags) \in [frame : 1..MAX_FRAMES, pn : 0..(PN_LIMIT - 1)]
        /\ Head(ethertype_fifo) \in FrameIds
    BY <2>0, <2>1, HeadTailProperties
  <2>3. 1..MAX_FRAMES \subseteq FrameIds  BY WrapperAssumption DEF FrameIds
  <2>4. enc_tag(ts) = [frame |-> Head(tags).frame, iv_pn |-> Head(tags).pn,
                       pn |-> pn_sideband_reg, ethertype |-> Head(ethertype_fifo)]
    BY <1>1 DEF enc_tag
  <2>5. enc_tag(ts) \in Metas /\ enc_tag(ts).frame \in 1..MAX_FRAMES
    BY <2>1, <2>2, <2>3, <2>4 DEF Metas
  <2>6. enc_tag(ts) # NoMeta
    <3>1. enc_tag(ts).frame # 0  BY <2>5
    <3>2. QED  BY <3>1 DEF NoMeta
  <2>7. ASSUME s_tag_ready
        PROVE  enc_tag(ts) = Meta(accepted[tagged_frames + 1], tagged_frames + 1)
    <3>1. /\ Head(ethertype_fifo) = Head(tags).frame /\ pn_sideband_reg = Head(tags).pn
          /\ Head(tags) = [frame |-> accepted[tagged_frames + 1].frame,
                           pn    |-> PacketNumber(tagged_frames + 1)]
      BY <2>0, <2>7, TagMeets DEF s_tag_ready
    <3>2. Head(tags).frame = accepted[tagged_frames + 1].frame
          /\ Head(tags).pn = PacketNumber(tagged_frames + 1)
      BY <3>1
    <3>3. QED  BY <2>4, <3>1, <3>2 DEF Meta
  <2>8. QED  BY <1>1, <2>0, <2>5, <2>6, <2>7 DEF tag_meta_hs
<1>2. CASE ~enc_tag_valid_int(ts)
  <2>1. enc_tag(ts) = NoMeta /\ ~tag_meta_hs(ts)  BY <1>2 DEF enc_tag, tag_meta_hs
  <2>2. ~(ts /\ s_tag_ready)
    BY <1>2, TagMeets DEF enc_tag_valid_int, s_tag_ready
  <2>3. QED  BY <2>1, <2>2, WordFacts
<1>3. QED  BY <1>1, <1>2

(* The types of macsec_tag_append's registers. *)
AppendTypes ==
    /\ frame_fifo \in Seq(CaptureBeats) /\ Len(frame_fifo) <= CAPTURE_DEPTH
    /\ pending \in Metas /\ current \in Metas /\ tag_pending_valid_reg \in BOOLEAN
    /\ auth_index_reg \in 0..23 /\ out_auth_fill_reg \in 0..7 /\ out_fifo_last_reg \in BOOLEAN
    /\ m_axis \in Words

LEMMA AppendTypesKept ==
    ASSUME AppendTypes, NEW beat \in CaptureBeats \cup {NoBeat}, NEW tag \in Metas,
           NEW ready \in BOOLEAN, TagAppendEdge(beat, tag, ready)
    PROVE  AppendTypes'
<1> USE DEF AppendTypes
<1>1. pending' \in Metas /\ tag_pending_valid_reg' \in BOOLEAN
  <2>1. PendingEdge(tag)  BY DEF TagAppendEdge
  <2>2. QED  BY <2>1 DEF PendingEdge, s_tag_ready
<1>2. SUFFICES /\ frame_fifo' \in Seq(CaptureBeats) /\ Len(frame_fifo') <= CAPTURE_DEPTH
               /\ current' \in Metas /\ auth_index_reg' \in 0..23 /\ out_auth_fill_reg' \in 0..7
               /\ out_fifo_last_reg' \in BOOLEAN /\ m_axis' \in Words
  BY <1>1
<1>3. CAPTURE_DEPTH \in Nat  BY CaptureAssumption
<1>4. \/ frame_fifo = <<>>
      \/ /\ Tail(frame_fifo) \in Seq(CaptureBeats) /\ Len(Tail(frame_fifo)) <= CAPTURE_DEPTH
         /\ Head(frame_fifo) \in CaptureBeats
  <2>1. CASE frame_fifo # <<>>
    <3>1. /\ Tail(frame_fifo) \in Seq(CaptureBeats) /\ Len(Tail(frame_fifo)) = Len(frame_fifo) - 1
          /\ Head(frame_fifo) \in CaptureBeats
      BY <2>1, HeadTailProperties
    <3>2. Len(frame_fifo) \in Nat  OBVIOUS
    <3>3. Len(Tail(frame_fifo)) <= CAPTURE_DEPTH  BY <1>3, <3>1, <3>2
    <3>4. QED  BY <3>1, <3>3
  <2>2. QED  BY <2>1
<1>5. CASE Capture(beat)
  <2>1. UNCHANGED <<current, auth_index_reg, out_fifo_last_reg, out_auth_fill_reg>>
    BY <1>5 DEF Capture
  <2>2. CASE beat # NoBeat /\ s_payload_tready
    <3>1. /\ frame_fifo' = Append(frame_fifo, beat) /\ beat \in CaptureBeats
          /\ Len(frame_fifo) < CAPTURE_DEPTH
          /\ m_axis' = IF beat.last THEN NoWord ELSE m_axis
      BY <1>5, <2>2 DEF Capture, s_payload_tready
    <3>2. frame_fifo' \in Seq(CaptureBeats) /\ Len(frame_fifo') = Len(frame_fifo) + 1
      BY <3>1, AppendProperties
    <3>3. Len(frame_fifo) \in Nat  OBVIOUS
    <3>4. Len(frame_fifo') <= CAPTURE_DEPTH  BY <1>3, <3>1, <3>2, <3>3
    <3>5. m_axis' \in Words  BY <3>1, WordFacts
    <3>6. QED  BY <2>1, <3>2, <3>4, <3>5
  <2>3. CASE ~(beat # NoBeat /\ s_payload_tready)
    <3>1. UNCHANGED <<frame_fifo, state_reg, m_axis>>  BY <1>5, <2>3 DEF Capture
    <3>2. QED  BY <2>1, <3>1
  <2>4. QED  BY <2>2, <2>3
<1>6. CASE WaitTag
  <2>1. frame_fifo' = frame_fifo  BY <1>6 DEF WaitTag
  <2>2. CASE tag_pending_valid_reg
    <3>1. current' = pending /\ auth_index_reg' = 0 /\ out_fifo_last_reg' = FALSE
          /\ out_auth_fill_reg' = 0 /\ m_axis' = NoWord
      BY <1>6, <2>2 DEF WaitTag
    <3>2. m_axis' \in Words  BY <3>1, WordFacts
    <3>3. current' \in Metas /\ auth_index_reg' \in 0..23 /\ out_auth_fill_reg' \in 0..7
      BY <3>1
    <3>4. out_fifo_last_reg' \in BOOLEAN  BY <3>1
    <3>5. QED  BY <2>1, <3>2, <3>3, <3>4
  <2>3. CASE ~tag_pending_valid_reg
    <3>1. UNCHANGED <<current, auth_index_reg, out_fifo_last_reg, out_auth_fill_reg, m_axis>>
      BY <1>6, <2>3 DEF WaitTag
    <3>2. QED  BY <2>1, <3>1
  <2>4. QED  BY <2>2, <2>3
<1>7. CASE OutputPayload(ready)
  <2>1. current' = current  BY <1>7 DEF OutputPayload
  <2>2. frame_fifo' \in Seq(CaptureBeats) /\ Len(frame_fifo') <= CAPTURE_DEPTH
    <3>1. frame_fifo' = frame_fifo \/ (frame_fifo # <<>> /\ frame_fifo' = Tail(frame_fifo))
      BY <1>7 DEF OutputPayload
    <3>2. QED  BY <1>4, <3>1
  <2>3. CASE ~out_moves(ready)
    <3>1. UNCHANGED <<auth_index_reg, out_fifo_last_reg, out_auth_fill_reg, m_axis>>
      BY <1>7, <2>3 DEF OutputPayload, out_hs, out_moves
    <3>2. QED  BY <2>1, <2>2, <3>1
  <2>4. CASE out_hs(ready) /\ out_fifo_last_reg
    <3>1. auth_index_reg' = out_auth_fill_reg /\ m_axis' = AuthWord(out_auth_fill_reg, current)
          /\ UNCHANGED <<out_fifo_last_reg, out_auth_fill_reg>>
      BY <1>7, <2>4 DEF OutputPayload, out_hs, out_moves
    <3>2. out_auth_fill_reg \in 0..23  OBVIOUS
    <3>3. m_axis' \in Words  BY <3>1, <3>2, WordFacts
    <3>4. QED  BY <2>1, <2>2, <3>1, <3>2, <3>3
  <2>5. CASE out_moves(ready) /\ ~(out_hs(ready) /\ out_fifo_last_reg)
    <3>1. auth_index_reg' = auth_index_reg  BY <1>7, <2>5 DEF OutputPayload
    <3>2. CASE frame_fifo # <<>>
      <4> DEFINE b == Head(frame_fifo)
      <4>1. /\ m_axis' = PayloadWord(b, current) /\ out_fifo_last_reg' = b.last
            /\ out_auth_fill_reg' = IF b.last THEN 8 - b.keep ELSE 0
        BY <1>7, <2>5, <3>2 DEF OutputPayload, KEEP_WIDTH
      <4>2. b \in CaptureBeats  BY <1>4, <3>2
      <4> HIDE DEF b
      <4>3. m_axis' \in Words  BY <4>1, <4>2, WordFacts
      <4>4. b.keep \in 1..8 /\ b.last \in BOOLEAN  BY <4>2 DEF CaptureBeats
      <4>5. out_auth_fill_reg' \in 0..7  BY <4>1, <4>4
      <4>6. QED  BY <2>1, <2>2, <3>1, <4>1, <4>3, <4>4, <4>5
    <3>3. CASE frame_fifo = <<>>
      <4>1. m_axis' = NoWord /\ UNCHANGED <<out_fifo_last_reg, out_auth_fill_reg>>
        BY <1>7, <2>5, <3>3 DEF OutputPayload
      <4>2. QED  BY <2>1, <2>2, <3>1, <4>1, WordFacts
    <3>4. QED  BY <3>2, <3>3
  <2>6. QED  BY <2>3, <2>4, <2>5
<1>8. CASE OutputAuth(ready)
  <2>1. UNCHANGED <<frame_fifo, current, out_fifo_last_reg, out_auth_fill_reg>>
    BY <1>8 DEF OutputAuth
  <2>2. CASE ~out_moves(ready)
    <3>1. UNCHANGED <<auth_index_reg, m_axis>>
      BY <1>8, <2>2 DEF OutputAuth, out_hs, out_moves
    <3>2. QED  BY <2>1, <3>1
  <2>3. CASE out_hs(ready) /\ 24 - auth_index_reg <= 8
    <3>1. m_axis' = NoWord /\ auth_index_reg' = auth_index_reg
      BY <1>8, <2>3 DEF OutputAuth, out_hs, out_moves, AUTH_BYTES, KEEP_WIDTH
    <3>2. QED  BY <2>1, <3>1, WordFacts
  <2>4. CASE out_moves(ready) /\ ~(out_hs(ready) /\ 24 - auth_index_reg <= 8)
    <3>1. /\ auth_index_reg' = IF m_axis # NoWord THEN auth_index_reg + 8 ELSE auth_index_reg
          /\ m_axis' = AuthWord(auth_index_reg', current)
      BY <1>8, <2>4 DEF OutputAuth, AUTH_BYTES, KEEP_WIDTH
    <3>2. auth_index_reg' \in 0..23
      <4>1. CASE m_axis = NoWord  BY <3>1, <4>1
      <4>2. CASE m_axis # NoWord
        <5>1. auth_index_reg' = auth_index_reg + 8 /\ ~(24 - auth_index_reg <= 8)
          BY <2>4, <3>1, <4>2 DEF out_moves, out_hs
        <5>2. auth_index_reg \in 0..23  OBVIOUS
        <5>3. QED  BY <5>1, <5>2
      <4>3. QED  BY <4>1, <4>2
    <3>3. m_axis' \in Words  BY <3>1, <3>2, WordFacts
    <3>4. QED  BY <2>1, <3>2, <3>3
  <2>5. QED  BY <2>2, <2>3, <2>4
<1>9. QED  BY <1>5, <1>6, <1>7, <1>8 DEF TagAppendEdge

(* The compactor refuses what it has no room for. *)
LEMMA OutputTypes ==
    ASSUME Side, NEW m_ready \in BOOLEAN, OutputEdge(m_ready)
    PROVE  /\ out_state_reg' \in {"OUT_IDLE", "OUT_HEADER", "OUT_ENC"}
           /\ out_frame_active_reg' \in BOOLEAN /\ last_pending_reg' \in BOOLEAN
           /\ count_reg' \in 0..64
<1>1. /\ out_state_reg \in {"OUT_IDLE", "OUT_HEADER", "OUT_ENC"} /\ count_reg \in 0..64
      /\ out_frame_active_reg \in BOOLEAN /\ last_pending_reg \in BOOLEAN /\ m_axis \in Words
  BY DEF Side, TypeOK, QueueTypes, BUFFER_BYTES
<1>2. out_state_reg' \in {"OUT_IDLE", "OUT_HEADER", "OUT_ENC"}
  <2>1. out_state_reg' =
          IF ~out_axis_hs(m_ready) THEN out_state_reg
          ELSE CASE out_state_reg = "OUT_IDLE"   -> "OUT_HEADER"
                 [] out_state_reg = "OUT_HEADER" -> "OUT_ENC"
                 [] OTHER -> IF m_axis.last THEN "OUT_IDLE" ELSE "OUT_ENC"
    BY DEF OutputEdge
  <2>2. QED  BY <1>1, <2>1, Zenon
<1>3. out_frame_active_reg' \in BOOLEAN
  <2>1. out_frame_active_reg' = ~out_tlast_int \/ out_frame_active_reg' = out_frame_active_reg
    BY DEF OutputEdge
  <2>2. QED  BY <1>1, <2>1
<1>4. last_pending_reg' \in BOOLEAN  BY DEF OutputEdge
<1>5. popped(m_ready) \in Nat /\ popped(m_ready) <= count_reg
  BY <1>1 DEF popped, AtMost
<1>6. out_bytes_int \in Nat
  <2>1. m_axis.keep \in Nat /\ m_axis.auth \in Nat  BY <1>1 DEF Words
  <2>2. QED  BY <2>1 DEF out_bytes_int, HEADER_BYTES
<1>7. count_reg' \in 0..64
  <2> DEFINE p == popped(m_ready)
             b == out_bytes_int
  <2>1. \/ count_reg' = count_reg - p
        \/ b <= (64 - count_reg) + p /\ count_reg' = (count_reg - p) + b
    BY DEF OutputEdge, out_axis_hs, out_tready_int, BUFFER_BYTES
  <2> HIDE DEF p, b
  <2>2. QED  BY <1>1, <1>5, <1>6, <2>1 DEF p, b
<1>8. QED  BY <1>2, <1>3, <1>4, <1>7

(***************************************************************************)
(* One step: every queue still holds its window of the accepted frames     *)
(***************************************************************************)

(* The queue q holds the parts of the frames acc behind the first g.       *)
Window(q, acc, g) ==
    Len(q) = Len(acc) - g /\ \A i \in 1..Len(q) : q[i] = acc[g + i].frame

LEMMA WindowStep ==
    ASSUME NEW q \in Seq(FrameIds), NEW depth \in Nat, NEW push \in BOOLEAN, NEW pop \in BOOLEAN,
           NEW acc \in Seq(AcceptedFrames), NEW acc2, NEW f, NEW g \in Nat,
           push => f.frame \in FrameIds /\ Len(q) < depth /\ acc2 = Append(acc, f),
           ~push => acc2 = acc, push => f \in AcceptedFrames,
           pop => q # <<>>, Window(q, acc, g)
    PROVE  Window(QueueEdge(q, depth, push, f.frame, pop), acc2, g + Count(pop))
<1> DEFINE o == Count(pop)
           u == Count(push)
           h == g + o
<1> SUFFICES ASSUME NEW p, p = QueueEdge(q, depth, push, f.frame, pop)
             PROVE  Len(p) = Len(acc2) - h /\ \A i \in 1..Len(p) : p[i] = acc2[h + i].frame
  BY DEF Window
<1>1. /\ p \in Seq(FrameIds) /\ Len(p) \in Nat /\ Len(q) \in Nat
      /\ Len(p) = (Len(q) - o) + u /\ \A i \in 1..(Len(q) - o) : p[i] = q[i + o]
      /\ push => p[Len(p)] = f.frame
  <2>1. Moved(FrameIds, q, depth, push, f.frame, pop, QueueEdge(q, depth, push, f.frame, pop))
    BY QueueStep
  <2>2. QED  BY <2>1 DEF Moved
<1>2. /\ Len(q) = Len(acc) - g /\ Len(acc) \in Nat /\ Len(acc) >= g
      /\ \A i \in 1..Len(q) : q[i] = acc[g + i].frame
  <2>1. Len(acc) \in Nat /\ Len(q) = Len(acc) - g  BY DEF Window
  <2>2. QED  BY <1>1, <2>1 DEF Window
<1>3. (pop => Len(q) >= 1) /\ o \in {0, 1} /\ (o = 1 => Len(q) >= 1)
  BY EmptySeq DEF Count
<1>4. CASE push
  <2>1. u = 1 /\ acc2 = Append(acc, f) /\ p[Len(p)] = f.frame
    BY <1>1, <1>4 DEF Count
  <2>2. /\ Len(acc2) = Len(acc) + 1 /\ acc2[Len(acc) + 1] = f
        /\ \A i \in 1..Len(acc) : acc2[i] = acc[i]
    BY <1>4, <2>1, AppendProperties
  <2> HIDE DEF o, u
  <2>3. Len(p) = Len(acc2) - h /\ h \in Nat /\ h <= Len(acc)  BY <1>1, <1>2, <1>3, <2>1, <2>2
  <2>4. ASSUME NEW i \in 1..Len(p) PROVE p[i] = acc2[h + i].frame
    <3>1. CASE i = Len(p)
      <4>1. h + i = Len(acc) + 1  BY <1>1, <1>2, <2>2, <2>3, <3>1
      <4>2. QED  BY <2>1, <2>2, <3>1, <4>1
    <3>2. CASE i # Len(p)
      <4>1. i \in 1..(Len(q) - o) /\ i + o \in 1..Len(q) /\ g + (i + o) = h + i
            /\ h + i \in 1..Len(acc)
        <5>1. /\ Len(p) \in Nat /\ Len(q) \in Nat /\ Len(acc) \in Nat /\ o \in {0, 1}
              /\ Len(p) = (Len(q) - o) + 1 /\ Len(q) = Len(acc) - g
          BY <1>1, <1>2, <1>3, <2>1
        <5>2. i \in Nat /\ 1 <= i /\ i <= Len(q) - o  BY <3>2, <5>1
        <5>3. QED  BY <5>1, <5>2
      <4>2. p[i] = q[i + o] /\ q[i + o] = acc[g + (i + o)].frame  BY <1>1, <1>2, <4>1
      <4>3. acc2[h + i] = acc[h + i]  BY <2>2, <4>1
      <4>4. QED  BY <4>1, <4>2, <4>3
    <3>3. QED  BY <3>1, <3>2
  <2>5. QED  BY <2>3, <2>4
<1>5. CASE ~push
  <2>1. u = 0 /\ acc2 = acc  BY <1>5 DEF Count
  <2> HIDE DEF o, u
  <2>2. Len(p) = Len(acc2) - h /\ h \in Nat /\ h <= Len(acc)  BY <1>1, <1>2, <1>3, <2>1
  <2>3. ASSUME NEW i \in 1..Len(p) PROVE p[i] = acc2[h + i].frame
    <3>1. i \in 1..(Len(q) - o) /\ i + o \in 1..Len(q) /\ g + (i + o) = h + i
      BY <1>1, <1>2, <1>3, <2>1
    <3>2. p[i] = q[i + o] /\ q[i + o] = acc[g + (i + o)].frame  BY <1>1, <1>2, <3>1
    <3>3. QED  BY <2>1, <3>1, <3>2
  <2>4. QED  BY <2>2, <2>3
<1>6. QED  BY <1>4, <1>5

(* What was accepted stays accepted. *)
LEMMA AcceptedKept ==
    ASSUME Side, NEW in \in Inputs, InputEdge(in)
    PROVE  /\ Len(accepted) \in Nat /\ Len(accepted') \in Nat
           /\ \A i \in 1..Len(accepted) : accepted'[i] = accepted[i]
           /\ s_axis_frame_end_hs(in) =>
                /\ Len(accepted') = Len(accepted) + 1
                /\ accepted'[Len(accepted')] = ending_frame(in)
           /\ ~s_axis_frame_end_hs(in) => Len(accepted') = Len(accepted)
<1>1. accepted \in Seq(AcceptedFrames) /\ Len(accepted) \in Nat  BY DEF Side, QueueTypes
<1>2. CASE s_axis_frame_end_hs(in)
  <2>1. ending_frame(in) \in AcceptedFrames /\ accepted' = Append(accepted, ending_frame(in))
    BY <1>2, InputStep
  <2>2. /\ Len(accepted') = Len(accepted) + 1 /\ accepted'[Len(accepted) + 1] = ending_frame(in)
        /\ \A i \in 1..Len(accepted) : accepted'[i] = accepted[i]
    BY <1>1, <2>1, AppendProperties
  <2>3. QED  BY <1>1, <1>2, <2>2
<1>3. CASE ~s_axis_frame_end_hs(in)
  <2>1. accepted' = accepted  BY <1>3, InputStep
  <2>2. QED  BY <1>1, <1>3, <2>1
<1>4. QED  BY <1>2, <1>3

(* The cipher's queue: a frame enters it when it is accepted.              *)
LEMMA MacCipher ==
    ASSUME Side, NEW in \in Inputs, InputEdge(in), tx_pn' = tx_pn,
           to_cipher' = IF s_axis_frame_end_hs(in)
                        THEN Append(to_cipher, accepted'[Len(accepted')]) ELSE to_cipher
    PROVE  /\ CipherInOrder' /\ encrypted_frames' = encrypted_frames
           /\ to_cipher' \in Seq(AcceptedFrames)
<1> DEFINE e == encrypted_frames
           n == Len(accepted)
           c == Len(to_cipher)
<1>1. n \in Nat /\ c \in Nat /\ e \in Nat /\ e + c = n /\ to_cipher \in Seq(AcceptedFrames)
  BY Counts DEF Side, QueueTypes
<1>2. (\A i \in 1..c : to_cipher[i] = accepted[e + i]) /\ tx_pn = PacketNumber(e + 1)
  BY DEF Side, CipherInOrder
<1>3. \A i \in 1..n : accepted'[i] = accepted[i]  BY AcceptedKept
<1>4. SUFFICES /\ to_cipher' \in Seq(AcceptedFrames) /\ Len(accepted') - Len(to_cipher') = e
               /\ Len(to_cipher') <= Len(accepted')
               /\ \A i \in 1..Len(to_cipher') : to_cipher'[i] = accepted'[e + i]
  BY <1>2 DEF CipherInOrder, encrypted_frames
<1> HIDE DEF e
<1>5. CASE s_axis_frame_end_hs(in)
  <2> DEFINE f == ending_frame(in)
  <2>1. f \in AcceptedFrames /\ to_cipher' = Append(to_cipher, f)
        /\ Len(accepted') = n + 1 /\ accepted'[n + 1] = f
    BY <1>5, InputStep, AcceptedKept
  <2> HIDE DEF f
  <2>2. /\ to_cipher' \in Seq(AcceptedFrames) /\ Len(to_cipher') = c + 1 /\ to_cipher'[c + 1] = f
        /\ \A i \in 1..c : to_cipher'[i] = to_cipher[i]
    BY <1>1, <2>1, AppendProperties
  <2>3. ASSUME NEW i \in 1..(c + 1) PROVE to_cipher'[i] = accepted'[e + i]
    <3>1. CASE i = c + 1
      <4>1. e + i = n + 1  BY <1>1, <3>1
      <4>2. QED  BY <2>1, <2>2, <3>1, <4>1
    <3>2. CASE i # c + 1
      <4>1. i \in 1..c /\ e + i \in 1..n  BY <1>1, <3>2
      <4>2. QED  BY <1>2, <1>3, <2>2, <4>1
    <3>3. QED  BY <3>1, <3>2
  <2>4. Len(accepted') - Len(to_cipher') = e /\ Len(to_cipher') <= Len(accepted')
    BY <1>1, <2>1, <2>2
  <2>5. QED  BY <2>2, <2>3, <2>4
<1>6. CASE ~s_axis_frame_end_hs(in)
  <2>1. to_cipher' = to_cipher /\ accepted' = accepted  BY <1>6, InputStep
  <2>2. Len(accepted') - Len(to_cipher') = e /\ Len(to_cipher') <= Len(accepted')
    BY <1>1, <2>1
  <2>3. QED  BY <1>1, <1>2, <2>1, <2>2
<1>7. QED  BY <1>5, <1>6

(* The tags: the counter of the sideband moves with them. *)
TagRecords == [frame : 1..MAX_FRAMES, pn : 0..(PN_LIMIT - 1)]

LEMMA MacTags ==
    ASSUME Side, NEW in \in Inputs, NEW ps \in BOOLEAN, NEW ts \in BOOLEAN,
           NEW m_ready \in BOOLEAN, ts => tags # <<>>, InputEdge(in),
           QueuesEdge(in, ts, m_ready), ReturnEdge(ps, ts), encrypted_frames' = encrypted_frames
    PROVE  /\ TagsInOrder' /\ tags' \in Seq(TagRecords)
           /\ ts /\ s_tag_ready => tagged_frames' = tagged_frames + 1
           /\ ~(ts /\ s_tag_ready) => tagged_frames' = tagged_frames
           /\ pn_sideband_reg' \in 0..(PN_LIMIT - 1)
<1> DEFINE e == encrypted_frames
           T == tagged_frames
           t == Len(tags)
           n == Len(accepted)
<1>1. /\ n \in Nat /\ t \in Nat /\ e \in Nat /\ T \in Nat /\ T + t = e /\ e <= n
      /\ tags \in Seq(TagRecords)
  <2>1. /\ n \in Nat /\ t \in Nat /\ e \in Nat /\ T \in Nat /\ T + t = e
        /\ Len(to_cipher) \in Nat /\ e + Len(to_cipher) = n
    BY Counts
  <2>2. tags \in Seq(TagRecords)  BY DEF Side, QueueTypes, TagRecords
  <2> HIDE DEF e, T, t, n
  <2>3. QED  BY <2>1, <2>2
<1>2. /\ \A i \in 1..t : tags[i] = [frame |-> accepted[T + i].frame, pn |-> PacketNumber(T + i)]
      /\ pn_sideband_reg = PacketNumber(T + 1)
  BY DEF Side, TagsInOrder
<1>3. \A i \in 1..n : accepted'[i] = accepted[i]  BY AcceptedKept
<1>4. encrypted_frames' = e /\ tagged_frames' = e - Len(tags')
  BY DEF tagged_frames
<1>5. SUFFICES ASSUME NEW d \in Nat, tagged_frames' = d
      PROVE  /\ Len(tags') <= e /\ tags' \in Seq(TagRecords)
             /\ \A i \in 1..Len(tags') :
                   tags'[i] = [frame |-> accepted'[d + i].frame, pn |-> PacketNumber(d + i)]
             /\ pn_sideband_reg' = PacketNumber(d + 1)
             /\ ts /\ s_tag_ready => d = T + 1
             /\ ~(ts /\ s_tag_ready) => d = T
  <2>1. tagged_frames' \in Nat
    <3>1. tags' = tags \/ (tags # <<>> /\ tags' = Tail(tags))
      BY DEF ReturnEdge
    <3>2. tags # <<>> => Len(Tail(tags)) = t - 1 /\ t >= 1
      BY <1>1, HeadTailProperties, EmptySeq
    <3> HIDE DEF e, T
    <3>3. QED  BY <1>1, <1>4, <3>1, <3>2
  <2>2. ASSUME NEW d \in Nat, tagged_frames' = d, pn_sideband_reg' = PacketNumber(d + 1)
        PROVE  pn_sideband_reg' \in 0..(PN_LIMIT - 1)
    BY <2>2, NextPacketNumber
  <2>3. QED  BY <1>4, <2>1, <2>2 DEF TagsInOrder
<1> HIDE DEF e, T
<1>6. CASE ts /\ s_tag_ready
  <2>1. tags # <<>> /\ tags' = Tail(tags)  BY <1>6 DEF ReturnEdge
  <2>2. /\ tags' \in Seq(TagRecords) /\ Len(tags') = t - 1 /\ t >= 1
        /\ \A i \in 1..(t - 1) : tags'[i] = tags[i + 1]
    BY <1>1, <2>1, HeadTailProperties, EmptySeq
  <2>3. d = T + 1  BY <1>1, <1>4, <1>5, <2>2
  <2>4. pn_sideband_reg' = PacketNumber(d + 1)
    <3>1. tag_meta_hs(ts)  BY <1>6, ShownTag
    <3>2. pn_sideband_reg' = (PacketNumber(T + 1) + 1) % PN_LIMIT  BY <1>2, <3>1 DEF QueuesEdge
    <3>3. PacketNumber((T + 1) + 1) = (PacketNumber(T + 1) + 1) % PN_LIMIT
      BY <1>1, NextPacketNumber
    <3>4. QED  BY <2>3, <3>2, <3>3
  <2>5. ASSUME NEW i \in 1..Len(tags')
        PROVE  tags'[i] = [frame |-> accepted'[d + i].frame, pn |-> PacketNumber(d + i)]
    <3>1. i \in 1..(t - 1) /\ i + 1 \in 1..t /\ T + (i + 1) = d + i /\ d + i \in 1..n
      BY <1>1, <2>2, <2>3
    <3>2. tags'[i] = tags[i + 1]
          /\ tags[i + 1] = [frame |-> accepted[T + (i + 1)].frame, pn |-> PacketNumber(T + (i + 1))]
      BY <1>2, <2>2, <3>1
    <3>3. accepted'[d + i] = accepted[d + i]  BY <1>3, <3>1
    <3>4. QED  BY <3>1, <3>2, <3>3
  <2>6. Len(tags') <= e  BY <1>1, <2>2
  <2>7. QED  BY <1>6, <2>2, <2>3, <2>4, <2>5, <2>6
<1>7. CASE ~(ts /\ s_tag_ready)
  <2>1. tags' = tags  BY <1>7 DEF ReturnEdge
  <2>2. d = T  BY <1>1, <1>4, <1>5, <2>1
  <2>3. pn_sideband_reg' = PacketNumber(d + 1)
    <3>1. ~tag_meta_hs(ts)  BY <1>7, ShownTag
    <3>2. QED  BY <1>2, <2>2, <3>1 DEF QueuesEdge
  <2>4. ASSUME NEW i \in 1..Len(tags')
        PROVE  tags'[i] = [frame |-> accepted'[d + i].frame, pn |-> PacketNumber(d + i)]
    <3>1. i \in 1..t /\ T + i \in 1..n  BY <1>1, <2>1
    <3>2. QED  BY <1>2, <1>3, <2>1, <2>2, <3>1
  <2>5. Len(tags') <= e  BY <1>1, <2>1
  <2>6. QED  BY <1>1, <1>7, <2>1, <2>2, <2>3, <2>4, <2>5
<1>8. QED  BY <1>6, <1>7

(* The EtherTypes: what was popped late leaves the queue before the next.  *)
LEMMA MacEthertypes ==
    ASSUME Side, NEW in \in Inputs, NEW ps \in BOOLEAN, NEW ts \in BOOLEAN,
           NEW m_ready \in BOOLEAN, ts => tags # <<>>, InputEdge(in),
           QueuesEdge(in, ts, m_ready), PendingEdge(enc_tag(ts)),
           ts /\ s_tag_ready => tagged_frames' = tagged_frames + 1,
           ~(ts /\ s_tag_ready) => tagged_frames' = tagged_frames
    PROVE  EthertypesInOrder' /\ ethertype_pop_d1_reg' \in BOOLEAN
<1> DEFINE T == tagged_frames
           g == T - Count(ethertype_pop_d1_reg)
           push == s_axis_frame_end_hs(in)
           f == ending_frame(in)
<1>1. /\ T \in Nat /\ ethertype_pop_d1_reg \in BOOLEAN /\ push \in BOOLEAN
      /\ Len(accepted) \in Nat /\ T <= Len(accepted) /\ HEADER_FIFO_DEPTH \in Nat
      /\ ethertype_fifo \in Seq(FrameIds) /\ accepted \in Seq(AcceptedFrames)
      /\ ethertype_pop_d1_reg => T > 0
  <2>1. /\ Len(accepted) \in Nat /\ Len(to_cipher) \in Nat /\ Len(tags) \in Nat /\ T \in Nat
        /\ encrypted_frames + Len(to_cipher) = Len(accepted) /\ T + Len(tags) = encrypted_frames
        /\ encrypted_frames \in Nat
    BY Counts
  <2>2. T <= Len(accepted)
    <3> HIDE DEF T
    <3>1. QED  BY <2>1
  <2>3. QED
    BY <2>1, <2>2, WrapperAssumption
    DEF Side, TypeOK, QueueTypes, EthertypesInOrder, s_axis_frame_end_hs
<1>2. /\ Len(ethertype_fifo) = Len(accepted) - g
      /\ \A i \in 1..Len(ethertype_fifo) : ethertype_fifo[i] = accepted[g + i].frame
  BY DEF Side, EthertypesInOrder
<1>3. Window(ethertype_fifo, accepted, g)  BY <1>2 DEF Window
<1>4. g \in Nat /\ g + Count(ethertype_pop_d1_reg) = T
      /\ (ethertype_pop_d1_reg => Len(ethertype_fifo) >= 1)
  <2>1. (ethertype_pop_d1_reg => Count(ethertype_pop_d1_reg) = 1)
        /\ (~ethertype_pop_d1_reg => Count(ethertype_pop_d1_reg) = 0)
    BY DEF Count
  <2> DEFINE o == Count(ethertype_pop_d1_reg)
  <2>2. Len(ethertype_fifo) = Len(accepted) - (T - o)  BY <1>2
  <2> HIDE DEF T, o
  <2>3. QED  BY <1>1, <2>1, <2>2 DEF o
<1>5. ethertype_pop_d1_reg => ethertype_fifo # <<>>  BY <1>1, <1>4, EmptySeq
<1>6. /\ push => /\ f \in AcceptedFrames /\ accepted' = Append(accepted, f)
                 /\ f.frame = in_frame /\ f.frame \in FrameIds
                 /\ Len(ethertype_fifo) < HEADER_FIFO_DEPTH
      /\ ~push => accepted' = accepted
  <2>1. push => f \in AcceptedFrames /\ accepted' = Append(accepted, f)  BY InputStep
  <2>2. f.frame = in_frame  BY DEF ending_frame
  <2>3. f \in AcceptedFrames => f.frame \in FrameIds
    BY WrapperAssumption DEF AcceptedFrames, FrameIds
  <2>4. push => Len(ethertype_fifo) < HEADER_FIFO_DEPTH
    BY PushHasRoom DEF s_axis_frame_end_hs
  <2>5. ~push => accepted' = accepted  BY InputStep
  <2>6. QED  BY <2>1, <2>2, <2>3, <2>4, <2>5
<1>7. ethertype_fifo' = QueueEdge(ethertype_fifo, HEADER_FIFO_DEPTH, push, f.frame,
                                  ethertype_pop_d1_reg)
  BY DEF QueuesEdge, ending_frame
<1> HIDE DEF g, push, f
<1>8. Window(ethertype_fifo', accepted', T)
  <2>1. Window(QueueEdge(ethertype_fifo, HEADER_FIFO_DEPTH, push, f.frame, ethertype_pop_d1_reg),
               accepted', g + Count(ethertype_pop_d1_reg))
    BY <1>1, <1>3, <1>4, <1>5, <1>6, WindowStep
  <2>2. QED  BY <1>4, <1>7, <2>1
<1>9. ethertype_pop_d1_reg' = tag_meta_hs(ts)  BY DEF QueuesEdge
<1>10. CASE ts /\ s_tag_ready
  <2>1. ethertype_pop_d1_reg' = TRUE
    <3>1. tag_meta_hs(ts) = TRUE  BY <1>10, ShownTag DEF tag_meta_hs, enc_tag_valid_int
    <3>2. QED  BY <1>9, <3>1
  <2>2. tag_pending_valid_reg'  BY <1>10, ShownTag DEF PendingEdge
  <2>3. tagged_frames' = T + 1 /\ tagged_frames' - Count(ethertype_pop_d1_reg') = T
        /\ tagged_frames' > 0
    <3>1. tagged_frames' = T + 1  BY <1>10
    <3>2. Count(ethertype_pop_d1_reg') = 1  BY <2>1 DEF Count
    <3> HIDE DEF T
    <3>3. (T + 1) - 1 = T /\ T + 1 > 0  BY <1>1
    <3>4. QED  BY <3>1, <3>2, <3>3
  <2>4. QED  BY <1>8, <2>1, <2>2, <2>3 DEF EthertypesInOrder, Window
<1>11. CASE ~(ts /\ s_tag_ready)
  <2>1. ethertype_pop_d1_reg' = FALSE
    <3>1. tag_meta_hs(ts) = FALSE  BY <1>11, ShownTag DEF tag_meta_hs, enc_tag_valid_int
    <3>2. QED  BY <1>9, <3>1
  <2>2. tagged_frames' = T /\ tagged_frames' - Count(ethertype_pop_d1_reg') = T
    <3>1. tagged_frames' = T  BY <1>11
    <3>2. Count(ethertype_pop_d1_reg') = 0  BY <2>1 DEF Count
    <3> HIDE DEF T
    <3>3. T - 0 = T  BY <1>1
    <3>4. QED  BY <3>1, <3>2, <3>3
  <2>3. QED  BY <1>8, <2>1, <2>2 DEF EthertypesInOrder, Window
<1>12. QED  BY <1>10, <1>11

LEMMA SideMac ==
    ASSUME Side, NEW in \in Inputs, NEW ps \in BOOLEAN, NEW ts \in BOOLEAN,
           NEW m_ready \in BOOLEAN, MacEdge(in, ps, ts, m_ready)
    PROVE  /\ Side' /\ encrypted_frames' = encrypted_frames
           /\ ts /\ s_tag_ready => tagged_frames' = tagged_frames + 1
           /\ ~(ts /\ s_tag_ready) => tagged_frames' = tagged_frames
<1>1. /\ ps => from_cipher # <<>>
      /\ ts => tags # <<>>
      /\ InputEdge(in) /\ QueuesEdge(in, ts, m_ready)
      /\ TagAppendEdge(enc_payload(ps), enc_tag(ts), enc_frame_tready(m_ready))
      /\ ReturnEdge(ps, ts) /\ OutputEdge(m_ready) /\ tx_pn' = tx_pn
      /\ to_cipher' = IF s_axis_frame_end_hs(in)
                      THEN Append(to_cipher, accepted'[Len(accepted')]) ELSE to_cipher
  BY DEF MacEdge
<1>2. /\ CipherInOrder' /\ encrypted_frames' = encrypted_frames
      /\ to_cipher' \in Seq(AcceptedFrames)
  BY <1>1, MacCipher
<1>3. /\ TagsInOrder' /\ tags' \in Seq(TagRecords)
      /\ ts /\ s_tag_ready => tagged_frames' = tagged_frames + 1
      /\ ~(ts /\ s_tag_ready) => tagged_frames' = tagged_frames
      /\ pn_sideband_reg' \in 0..(PN_LIMIT - 1)
  BY <1>1, <1>2, MacTags
<1>4. EthertypesInOrder' /\ ethertype_pop_d1_reg' \in BOOLEAN
  <2>1. PendingEdge(enc_tag(ts))  BY <1>1 DEF TagAppendEdge
  <2>2. QED  BY <1>1, <1>3, <2>1, MacEthertypes
<1>5. AppendTypes'
  <2>1. AppendTypes  BY DEF Side, TypeOK, QueueTypes, AppendTypes, CaptureBeats
  <2>2. enc_payload(ps) \in CaptureBeats \cup {NoBeat}
    <3>1. CASE ps  BY <1>1, <3>1, ShownBeat
    <3>2. CASE ~ps  BY <3>2 DEF enc_payload
    <3>3. QED  BY <3>1, <3>2
  <2>3. enc_tag(ts) \in Metas  BY <1>1, ShownTag
  <2>4. enc_frame_tready(m_ready) \in BOOLEAN  BY DEF enc_frame_tready
  <2>5. QED  BY <1>1, <2>1, <2>2, <2>3, <2>4, AppendTypesKept
<1>6. /\ in_header_count_reg' \in 0..14 /\ in_payload' \in Nat
      /\ in_payload' + in_header_count_reg' <= 8 * MAX_BEATS
      /\ in_frame_active_reg' \in BOOLEAN /\ in_frame' \in 1..(MAX_FRAMES + 1)
      /\ in_frame_tuser_reg' \in FrameIds /\ accepted' \in Seq(AcceptedFrames)
  BY <1>1, InputStep
<1>7. /\ from_cipher' \in Seq(AcceptedFrames) /\ sent_bytes' \in Nat
      /\ (sent_bytes' # 0 => from_cipher' # <<>>)
      /\ (from_cipher' # <<>> => sent_bytes' < from_cipher'[1].bytes)
  BY <1>1, ReturnPayload
<1>8. /\ out_state_reg' \in {"OUT_IDLE", "OUT_HEADER", "OUT_ENC"}
      /\ out_frame_active_reg' \in BOOLEAN /\ last_pending_reg' \in BOOLEAN
      /\ count_reg' \in 0..64
  BY <1>1, OutputTypes
<1>9. /\ header_fifo' \in Seq(FrameIds) /\ Len(header_fifo') <= HEADER_FIFO_DEPTH
      /\ ethertype_fifo' \in Seq(FrameIds) /\ Len(ethertype_fifo') <= HEADER_FIFO_DEPTH
      /\ tuser_fifo' \in Seq(FrameIds) /\ Len(tuser_fifo') <= TUSER_FIFO_DEPTH
  <2>1. /\ header_fifo \in Seq(FrameIds) /\ Len(header_fifo) <= HEADER_FIFO_DEPTH
        /\ ethertype_fifo \in Seq(FrameIds) /\ Len(ethertype_fifo) <= HEADER_FIFO_DEPTH
        /\ tuser_fifo \in Seq(FrameIds) /\ Len(tuser_fifo) <= TUSER_FIFO_DEPTH
        /\ header_pop_d1_reg \in BOOLEAN /\ ethertype_pop_d1_reg \in BOOLEAN
        /\ HEADER_FIFO_DEPTH \in Nat /\ TUSER_FIFO_DEPTH \in Nat
    BY WrapperAssumption DEF Side, TypeOK, QueueTypes
  <2>2. in_axis_hs(in) => in_frame \in FrameIds
    BY InputFacts DEF in_axis_hs, FrameIds
  <2>3. s_axis_frame_end_hs(in) \in BOOLEAN /\ (in_axis_hs(in) /\ in.last) \in BOOLEAN
        /\ tuser_pop(m_ready) \in BOOLEAN /\ (s_axis_frame_end_hs(in) => in_axis_hs(in))
    BY DEF s_axis_frame_end_hs, tuser_pop
  <2>4. /\ header_fifo' = QueueEdge(header_fifo, HEADER_FIFO_DEPTH, s_axis_frame_end_hs(in),
                                    in_frame, header_pop_d1_reg)
        /\ ethertype_fifo' = QueueEdge(ethertype_fifo, HEADER_FIFO_DEPTH,
                                       s_axis_frame_end_hs(in), in_frame, ethertype_pop_d1_reg)
        /\ tuser_fifo' = QueueEdge(tuser_fifo, TUSER_FIFO_DEPTH, in_axis_hs(in) /\ in.last,
                                   in_frame_tuser_reg', tuser_pop(m_ready))
    BY <1>1 DEF QueuesEdge
  <2>5. header_fifo' \in Seq(FrameIds) /\ Len(header_fifo') <= HEADER_FIFO_DEPTH
    BY <2>1, <2>2, <2>3, <2>4, QueueKeepsType
  <2>6. ethertype_fifo' \in Seq(FrameIds) /\ Len(ethertype_fifo') <= HEADER_FIFO_DEPTH
    BY <2>1, <2>2, <2>3, <2>4, QueueKeepsType
  <2>7. tuser_fifo' \in Seq(FrameIds) /\ Len(tuser_fifo') <= TUSER_FIFO_DEPTH
    <3> DEFINE push == in_axis_hs(in) /\ in.last
               pop == tuser_pop(m_ready)
    <3>1. push \in BOOLEAN /\ pop \in BOOLEAN
          /\ tuser_fifo' = QueueEdge(tuser_fifo, TUSER_FIFO_DEPTH, push, in_frame_tuser_reg', pop)
      BY <2>3, <2>4
    <3> HIDE DEF push, pop
    <3>2. QED  BY <1>6, <2>1, <3>1, QueueKeepsType
  <2>8. QED  BY <2>5, <2>6, <2>7
<1>10. header_pop_d1_reg' \in BOOLEAN
  BY <1>1 DEF QueuesEdge, out_start_hs
<1>11. tx_pn' \in 0..(PN_LIMIT - 1)  BY <1>1 DEF Side, TypeOK
<1>12. TypeOK'
  <2>1. /\ pending' \in Metas /\ current' \in Metas /\ Len(frame_fifo') <= CAPTURE_DEPTH
    BY <1>5 DEF AppendTypes
  <2>2. QED
    BY <1>3, <1>6, <1>8, <1>9, <1>11, <2>1 DEF TypeOK, HEADER_BYTES, BUFFER_BYTES
<1>13. QueueTypes'
  <2>1. /\ tag_pending_valid_reg' \in BOOLEAN /\ frame_fifo' \in Seq(CaptureBeats)
        /\ auth_index_reg' \in 0..23 /\ out_auth_fill_reg' \in 0..7
        /\ out_fifo_last_reg' \in BOOLEAN /\ m_axis' \in Words
    BY <1>5 DEF AppendTypes
  <2>2. QED
    BY <1>2, <1>3, <1>4, <1>6, <1>7, <1>8, <1>10, <2>1 DEF QueueTypes, CaptureBeats, TagRecords
<1>14. QED  BY <1>2, <1>3, <1>4, <1>12, <1>13 DEF Side

(* The cipher takes the oldest frame and adds its tag behind the others. *)
LEMMA SideEncrypt ==
    ASSUME Side, Encrypt
    PROVE  /\ Side' /\ encrypted_frames' = encrypted_frames + 1
           /\ tagged_frames' = tagged_frames
<1> DEFINE e == encrypted_frames
           T == tagged_frames
           t == Len(tags)
           c == Len(to_cipher)
           n == Len(accepted)
           f == Head(to_cipher)
           r == [frame |-> f.frame, pn |-> tx_pn]
<1>1. /\ n \in Nat /\ t \in Nat /\ c \in Nat /\ e \in Nat /\ T \in Nat /\ T + t = e /\ e + c = n
  BY Counts
<1>2. /\ to_cipher \in Seq(AcceptedFrames) /\ from_cipher \in Seq(AcceptedFrames)
      /\ tags \in Seq(TagRecords) /\ to_cipher # <<>>
      /\ to_cipher' = Tail(to_cipher) /\ from_cipher' = Append(from_cipher, f)
      /\ tags' = Append(tags, r) /\ tx_pn' = (tx_pn + 1) % PN_LIMIT
      /\ UNCHANGED <<tagAppendVars, inVars, queueVars, sent_bytes, outVars>>
  BY DEF Side, QueueTypes, Encrypt, TagRecords
<1>3. /\ to_cipher' \in Seq(AcceptedFrames) /\ Len(to_cipher') = c - 1 /\ c >= 1
      /\ (\A i \in 1..(c - 1) : to_cipher'[i] = to_cipher[i + 1])
      /\ f = to_cipher[1] /\ f \in AcceptedFrames
  BY <1>2, HeadTailProperties, EmptySeq
<1>4. /\ \A i \in 1..c : to_cipher[i] = accepted[e + i]
      /\ tx_pn = PacketNumber(e + 1) /\ tx_pn \in 0..(PN_LIMIT - 1)
  BY DEF Side, CipherInOrder, TypeOK
<1>5. r \in TagRecords
  <2>1. f.frame \in 1..MAX_FRAMES  BY <1>3 DEF AcceptedFrames
  <2>2. QED  BY <1>4, <2>1 DEF TagRecords
<1>6. f = accepted[e + 1]
  <2>1. 1 \in 1..c  BY <1>1, <1>3
  <2>2. QED  BY <1>3, <1>4, <2>1
<1> HIDE DEF r, f
<1>7. /\ tags' \in Seq(TagRecords) /\ Len(tags') = t + 1 /\ tags'[t + 1] = r
      /\ \A i \in 1..t : tags'[i] = tags[i]
  BY <1>2, <1>5, AppendProperties
<1>8. encrypted_frames' = e + 1 /\ tagged_frames' = T
  <2>1. encrypted_frames' = n - Len(to_cipher')  BY <1>2 DEF encrypted_frames, inVars
  <2>2. tagged_frames' = encrypted_frames' - Len(tags')  BY DEF tagged_frames
  <2> HIDE DEF e, T
  <2>3. QED  BY <1>1, <1>3, <1>7, <2>1, <2>2
<1>9. tx_pn' = PacketNumber((e + 1) + 1) /\ tx_pn' \in 0..(PN_LIMIT - 1)
  <2>1. e + 1 \in Nat /\ (e + 1) + 1 \in Nat
    <3> HIDE DEF e
    <3>1. QED  BY <1>1
  <2>2. QED  BY <1>2, <1>4, <2>1, NextPacketNumber
<1>10. accepted' = accepted  BY <1>2 DEF inVars
<1>11. CipherInOrder'
  <2> SUFFICES /\ Len(to_cipher') <= n /\ tx_pn' = PacketNumber((e + 1) + 1)
               /\ \A i \in 1..Len(to_cipher') : to_cipher'[i] = accepted[(e + 1) + i]
    BY <1>8, <1>10 DEF CipherInOrder
  <2> HIDE DEF e
  <2>1. ASSUME NEW i \in 1..Len(to_cipher') PROVE to_cipher'[i] = accepted[(e + 1) + i]
    <3>1. i \in 1..(c - 1) /\ i + 1 \in 1..c /\ e + (i + 1) = (e + 1) + i  BY <1>1, <1>3
    <3>2. to_cipher'[i] = to_cipher[i + 1]  BY <1>3, <3>1
    <3>3. to_cipher[i + 1] = accepted[e + (i + 1)]  BY <1>4, <3>1
    <3>4. QED  BY <3>1, <3>2, <3>3
  <2>2. Len(to_cipher') <= n
    <3>1. n \in Nat /\ c \in Nat /\ e \in Nat /\ e + c = n /\ Len(to_cipher') = c - 1
      BY <1>1, <1>3
    <3> HIDE DEF n, c
    <3>2. QED  BY <3>1
  <2>3. QED  BY <1>9, <2>1, <2>2
<1>12. TagsInOrder'
  <2> SUFFICES /\ Len(tags') <= e + 1 /\ pn_sideband_reg = PacketNumber(T + 1)
               /\ \A i \in 1..Len(tags') :
                    tags'[i] = [frame |-> accepted[T + i].frame, pn |-> PacketNumber(T + i)]
    BY <1>2, <1>8, <1>10 DEF TagsInOrder, queueVars
  <2>1. /\ \A i \in 1..t : tags[i] = [frame |-> accepted[T + i].frame, pn |-> PacketNumber(T + i)]
        /\ pn_sideband_reg = PacketNumber(T + 1)
    BY DEF Side, TagsInOrder
  <2> HIDE DEF e, T
  <2>2. ASSUME NEW i \in 1..Len(tags')
        PROVE  tags'[i] = [frame |-> accepted[T + i].frame, pn |-> PacketNumber(T + i)]
    <3>1. CASE i = t + 1
      <4>1. T + i = e + 1  BY <1>1, <3>1
      <4>2. r = [frame |-> accepted[T + i].frame, pn |-> PacketNumber(T + i)]
        BY <1>4, <1>6, <4>1 DEF r
      <4>3. QED  BY <1>7, <3>1, <4>2
    <3>2. CASE i # t + 1
      <4>1. i \in 1..t  BY <1>1, <1>7, <3>2
      <4>2. QED  BY <1>7, <2>1, <4>1
    <3>3. QED  BY <3>1, <3>2
  <2>3. Len(tags') <= e + 1
    <3>1. t \in Nat /\ e \in Nat /\ T \in Nat /\ T + t = e /\ Len(tags') = t + 1  BY <1>1, <1>7
    <3> HIDE DEF t
    <3>2. QED  BY <3>1
  <2>4. QED  BY <2>1, <2>2, <2>3
<1>13. EthertypesInOrder'
  BY <1>2, <1>8, <1>10 DEF Side, EthertypesInOrder, queueVars, tagAppendVars
<1>14. TypeOK'
  BY <1>2, <1>9 DEF Side, TypeOK, inVars, queueVars, outVars, tagAppendVars
<1>15. /\ from_cipher' \in Seq(AcceptedFrames) /\ from_cipher' # <<>>
       /\ sent_bytes' = sent_bytes /\ sent_bytes \in Nat
       /\ sent_bytes < from_cipher'[1].bytes
  <2>1. from_cipher' \in Seq(AcceptedFrames) /\ Len(from_cipher') = Len(from_cipher) + 1
        /\ from_cipher'[Len(from_cipher) + 1] = f
        /\ (\A i \in 1..Len(from_cipher) : from_cipher'[i] = from_cipher[i])
    BY <1>2, <1>3, AppendProperties
  <2>2. Len(from_cipher) \in Nat /\ sent_bytes \in Nat /\ sent_bytes' = sent_bytes
    BY <1>2 DEF Side, QueueTypes
  <2>3. from_cipher' # <<>>  BY <2>1, <2>2, EmptySeq
  <2>4. sent_bytes < from_cipher'[1].bytes
    <3>1. CASE from_cipher = <<>>
      <4>1. sent_bytes = 0 /\ Len(from_cipher) = 0  BY <1>2, <3>1, EmptySeq DEF Side, QueueTypes
      <4>2. from_cipher'[1] = f  BY <2>1, <4>1
      <4>3. f.bytes \in Nat /\ f.bytes > 0  BY <1>3, WrapperAssumption DEF AcceptedFrames
      <4>4. QED  BY <4>1, <4>2, <4>3
    <3>2. CASE from_cipher # <<>>
      <4>1. Len(from_cipher) # 0  BY <1>2, <3>2, EmptySeq
      <4>2. from_cipher'[1] = from_cipher[1]  BY <2>1, <2>2, <4>1
      <4>3. QED  BY <3>2, <4>2 DEF Side, QueueTypes
    <3>3. QED  BY <3>1, <3>2
  <2>5. QED  BY <2>1, <2>2, <2>3, <2>4
<1>16. QueueTypes'
  <2>1. QueueTypes  BY DEF Side
  <2>2. /\ in_payload' = in_payload /\ in_header_count_reg' = in_header_count_reg
        /\ in_frame_active_reg' = in_frame_active_reg /\ accepted' = accepted
        /\ tag_pending_valid_reg' = tag_pending_valid_reg /\ frame_fifo' = frame_fifo
        /\ header_pop_d1_reg' = header_pop_d1_reg /\ ethertype_pop_d1_reg' = ethertype_pop_d1_reg
        /\ out_frame_active_reg' = out_frame_active_reg /\ last_pending_reg' = last_pending_reg
        /\ auth_index_reg' = auth_index_reg /\ out_auth_fill_reg' = out_auth_fill_reg
        /\ out_fifo_last_reg' = out_fifo_last_reg /\ m_axis' = m_axis
    BY <1>2 DEF inVars, queueVars, outVars, tagAppendVars
  <2>3. QED  BY <1>3, <1>7, <1>15, <2>1, <2>2 DEF QueueTypes, TagRecords
<1>17. QED  BY <1>8, <1>11, <1>12, <1>13, <1>14, <1>16 DEF Side

LEMMA SideInit == Init => Side
<1> SUFFICES ASSUME Init PROVE Side
  OBVIOUS
<1>1. /\ in_header_count_reg = 0 /\ in_payload = 0 /\ in_frame_tuser_reg = 0
      /\ in_frame_active_reg = FALSE /\ in_frame = 1
      /\ header_fifo = <<>> /\ header_pop_d1_reg = FALSE
      /\ ethertype_fifo = <<>> /\ ethertype_pop_d1_reg = FALSE /\ tuser_fifo = <<>>
      /\ to_cipher = <<>> /\ from_cipher = <<>> /\ sent_bytes = 0 /\ tags = <<>>
      /\ out_state_reg = "OUT_IDLE" /\ out_frame_active_reg = FALSE
      /\ count_reg = 0 /\ last_pending_reg = FALSE /\ accepted = <<>>
  BY DEF Init, NoFrame
<1>2. /\ frame_fifo = <<>> /\ pending = NoMeta /\ current = NoMeta
      /\ tag_pending_valid_reg = FALSE /\ auth_index_reg = 0 /\ out_fifo_last_reg = FALSE
      /\ out_auth_fill_reg = 0 /\ m_axis = NoWord
  BY DEF Init, TagAppendInit
<1>3. pn_sideband_reg = 1 % PN_LIMIT /\ tx_pn = 1 % PN_LIMIT
  BY DEF Init, PN_INIT
<1>4. PacketNumber(1) = 1 % PN_LIMIT /\ PacketNumber(1) \in 0..(PN_LIMIT - 1)
  <2>1. (1 + 1) - 1 = 1  OBVIOUS
  <2>2. PacketNumber(1) = 1 % PN_LIMIT  BY <2>1, Zenon DEF PacketNumber, PN_INIT
  <2>3. PacketNumber(1) \in 0..(PN_LIMIT - 1)  BY NextPacketNumber
  <2>4. QED  BY <2>2, <2>3
<1>5. encrypted_frames = 0 /\ tagged_frames = 0
  <2>1. Len(accepted) = 0 /\ Len(to_cipher) = 0 /\ Len(tags) = 0  BY <1>1
  <2>2. encrypted_frames = 0  BY <2>1 DEF encrypted_frames
  <2>3. QED  BY <2>1, <2>2 DEF tagged_frames
<1>6. CAPTURE_DEPTH \in Nat /\ HEADER_FIFO_DEPTH \in Nat /\ TUSER_FIFO_DEPTH \in Nat
      /\ MAX_FRAMES \in Nat /\ MAX_BEATS \in Nat
  BY WrapperAssumption, CaptureAssumption
<1>7. TypeOK
  <2>1. in_header_count_reg \in 0..14 /\ in_payload \in Nat /\ in_frame \in 1..(MAX_FRAMES + 1)
        /\ in_frame_tuser_reg \in FrameIds /\ count_reg \in 0..64
    BY <1>1, <1>6 DEF FrameIds
  <2>2. /\ header_fifo \in Seq(FrameIds) /\ Len(header_fifo) <= HEADER_FIFO_DEPTH
        /\ ethertype_fifo \in Seq(FrameIds) /\ Len(ethertype_fifo) <= HEADER_FIFO_DEPTH
        /\ tuser_fifo \in Seq(FrameIds) /\ Len(tuser_fifo) <= TUSER_FIFO_DEPTH
        /\ Len(frame_fifo) <= CAPTURE_DEPTH
    BY <1>1, <1>2, <1>6
  <2>3. pn_sideband_reg \in 0..(PN_LIMIT - 1) /\ tx_pn \in 0..(PN_LIMIT - 1)
    BY <1>3, <1>4
  <2>4. pending \in Metas /\ current \in Metas  BY <1>2, WordFacts
  <2>5. out_state_reg \in {"OUT_IDLE", "OUT_HEADER", "OUT_ENC"}  BY <1>1
  <2>6. QED  BY <2>1, <2>2, <2>3, <2>4, <2>5 DEF TypeOK, HEADER_BYTES, BUFFER_BYTES
<1>8. QueueTypes
  <2>1. in_payload + in_header_count_reg <= 8 * MAX_BEATS  BY <1>1, <1>6
  <2>2. /\ accepted \in Seq(AcceptedFrames) /\ to_cipher \in Seq(AcceptedFrames)
        /\ from_cipher \in Seq(AcceptedFrames) /\ tags \in Seq(TagRecords)
        /\ frame_fifo \in Seq(CaptureBeats)
    BY <1>1, <1>2
  <2>3. /\ in_frame_active_reg \in BOOLEAN /\ tag_pending_valid_reg \in BOOLEAN
        /\ header_pop_d1_reg \in BOOLEAN /\ ethertype_pop_d1_reg \in BOOLEAN
        /\ out_frame_active_reg \in BOOLEAN /\ last_pending_reg \in BOOLEAN
        /\ out_fifo_last_reg \in BOOLEAN
    BY <1>1, <1>2
  <2>4. sent_bytes \in Nat /\ auth_index_reg \in 0..23 /\ out_auth_fill_reg \in 0..7
    BY <1>1, <1>2
  <2>5. (sent_bytes # 0 => from_cipher # <<>>)
        /\ (from_cipher # <<>> => sent_bytes < from_cipher[1].bytes)
    BY <1>1
  <2>6. m_axis \in Words  BY <1>2, WordFacts
  <2>7. QED
    BY <2>1, <2>2, <2>3, <2>4, <2>5, <2>6 DEF QueueTypes, TagRecords, CaptureBeats
<1>9. CipherInOrder
  BY <1>1, <1>3, <1>4, <1>5 DEF CipherInOrder
<1>10. TagsInOrder
  BY <1>1, <1>3, <1>4, <1>5 DEF TagsInOrder
<1>11. EthertypesInOrder
  BY <1>1, <1>5 DEF EthertypesInOrder, Count
<1>12. QED  BY <1>7, <1>8, <1>9, <1>10, <1>11 DEF Side

LEMMA SideStep == Side /\ [Next]_vars => Side'
<1> SUFFICES ASSUME Side, [Next]_vars PROVE Side'
  OBVIOUS
<1>1. CASE Encrypt  BY <1>1, SideEncrypt
<1>2. ASSUME NEW in \in Inputs, NEW ps \in BOOLEAN, NEW ts \in BOOLEAN, NEW r \in Ready,
             MacEdge(in, ps, ts, r)
      PROVE  Side'
  <2>1. r \in BOOLEAN  BY DEF Ready
  <2>2. QED  BY <1>2, <2>1, SideMac
<1>3. CASE UNCHANGED vars
  <2>1. /\ UNCHANGED <<tagAppendVars, inVars, queueVars, cipherVars, outVars>>
    BY <1>3 DEF vars
  <2>2. encrypted_frames' = encrypted_frames /\ tagged_frames' = tagged_frames
    BY <2>1 DEF encrypted_frames, tagged_frames, inVars, cipherVars
  <2>3. TypeOK'
    BY <2>1 DEF Side, TypeOK, tagAppendVars, inVars, queueVars, cipherVars, outVars
  <2>4. QueueTypes'
    BY <2>1 DEF Side, QueueTypes, tagAppendVars, inVars, queueVars, cipherVars, outVars
  <2>5. CipherInOrder' /\ TagsInOrder' /\ EthertypesInOrder'
    BY <2>1, <2>2 DEF Side, CipherInOrder, TagsInOrder, EthertypesInOrder, tagAppendVars,
       inVars, queueVars, cipherVars
  <2>6. QED  BY <2>3, <2>4, <2>5 DEF Side
<1>4. QED  BY <1>1, <1>2, <1>3 DEF Next

(* The queues and counters beside the cipher stay in step, with and        *)
(* without back-pressure, with and without runts.                          *)
THEOREM SideInvariant == Spec => []Side
<1>1. Init => Side  BY SideInit
<1>2. Side /\ [Next]_vars => Side'  BY SideStep
<1>3. QED  BY <1>1, <1>2, PTL DEF Spec

(* Every register and queue of the wrapper has its type: no queue is ever  *)
(* overfull, no count leaves its register.                                 *)
THEOREM WrapperTypeCorrect == Spec => []TypeOK
<1>1. Side => TypeOK  BY DEF Side
<1>2. QED  BY <1>1, SideInvariant, PTL

(* A tag never meets another frame's EtherType or packet number, and never *)
(* an empty EtherType queue.                                               *)
THEOREM TagsMeetTheirFrames == Spec => []TagMeetsItsFrame
<1>1. Side => TagMeetsItsFrame  BY TagMeets DEF TagMeetsItsFrame, s_tag_ready
<1>2. QED  BY <1>1, SideInvariant, PTL

(***************************************************************************)
(* The words of a frame                                                    *)
(***************************************************************************)

(* How a payload divides into beats. *)
LEMMA BeatsOfFrame ==
    ASSUME NEW f \in AcceptedFrames
    PROVE  /\ f.bytes \in Nat \ {0} /\ f.frame \in Nat \ {0}
           /\ BeatsOf(f) \in Nat \ {0} /\ LastKeep(f) \in 1..8
           /\ f.bytes = 8 * (BeatsOf(f) - 1) + LastKeep(f)
           /\ \A j \in Nat : 8 * j < f.bytes =>
                /\ j + 1 <= BeatsOf(f)
                /\ f.bytes - 8 * j <= 8 <=> j + 1 = BeatsOf(f)
                /\ j + 1 = BeatsOf(f) => f.bytes - 8 * j = LastKeep(f)
                /\ (8 * j) \div 8 = j
<1>1. f.bytes \in Nat \ {0} /\ f.frame \in Nat \ {0}  BY WrapperAssumption DEF AcceptedFrames
<1> DEFINE b == f.bytes
           n == BeatsOf(f)
           l == LastKeep(f)
<1>2. n = (b + 7) \div 8 /\ l = b - 8 * (n - 1)  BY DEF BeatsOf, LastKeep
<1>3. b \in Nat \ {0}  BY <1>1
<1> HIDE DEF b, n, l
<1>4. n \in Nat /\ 8 * n <= b + 7 /\ b + 7 < 8 * n + 8  BY <1>2, <1>3
<1>5. n \in Nat \ {0} /\ l \in 1..8 /\ b = 8 * (n - 1) + l  BY <1>2, <1>3, <1>4
<1>6. ASSUME NEW j \in Nat, 8 * j < b
      PROVE  /\ j + 1 <= n
             /\ b - 8 * j <= 8 <=> j + 1 = n
             /\ j + 1 = n => b - 8 * j = l
             /\ (8 * j) \div 8 = j
  BY <1>3, <1>5, <1>6
<1>7. QED  BY <1>1, <1>5, <1>6 DEF b, n, l

LEMMA BeatType ==
    ASSUME NEW f \in AcceptedFrames, NEW i \in Nat
    PROVE  /\ Beat(f, i) \in CaptureBeats /\ Beat(f, i).frame = f.frame /\ Beat(f, i).pos = i
           /\ Beat(f, i).keep = IF i = BeatsOf(f) THEN LastKeep(f) ELSE 8
           /\ Beat(f, i).last = (i = BeatsOf(f))
<1>1. f.frame \in Nat /\ LastKeep(f) \in 1..8  BY BeatsOfFrame
<1> DEFINE k == IF i = BeatsOf(f) THEN LastKeep(f) ELSE 8
           l == i = BeatsOf(f)
<1>2. k \in 1..8 /\ l \in BOOLEAN  BY <1>1
<1>3. Beat(f, i) = [frame |-> f.frame, pos |-> i, keep |-> k, last |-> l]  BY Zenon DEF Beat
<1> HIDE DEF k, l
<1>4. SUFFICES ASSUME NEW b, b = [frame |-> f.frame, pos |-> i, keep |-> k, last |-> l]
               PROVE  b \in CaptureBeats /\ b.frame = f.frame /\ b.pos = i /\ b.keep = k
                      /\ b.last = l
  BY <1>3 DEF k, l
<1>5. b \in CaptureBeats  BY <1>1, <1>2, <1>4 DEF CaptureBeats
<1>6. QED  BY <1>4, <1>5

(* The words in front of the trailer are the payload's beats, ... *)
LEMMA PayloadWords ==
    ASSUME NEW f \in AcceptedFrames, NEW k \in Nat, NEW i \in 1..BeatsOf(f)
    PROVE  /\ Encrypted(f, k)[i] = PayloadWord(Beat(f, i), Meta(f, k))
           /\ Encrypted(f, k)[i] # NoWord /\ Encrypted(f, k)[i].last = FALSE
           /\ Encrypted(f, k)[i].keep + Encrypted(f, k)[i].auth = 8
<1> DEFINE n == BeatsOf(f)
           l == LastKeep(f)
           m == Meta(f, k)
           b == Beat(f, i)
<1>1. n \in Nat \ {0} /\ l \in 1..8 /\ f.frame \in Nat \ {0}  BY BeatsOfFrame
<1>2. b \in CaptureBeats /\ b.frame = f.frame /\ b.pos = i /\ b.last = (i = n)
      /\ b.keep = IF i = n THEN l ELSE 8
  <2>1. i \in Nat  BY <1>1
  <2>2. QED  BY <2>1, BeatType
<1>3. Encrypted(f, k)[i] =
        [frame |-> f.frame, pos |-> i, keep |-> IF i = n THEN l ELSE 8, from |-> 0,
         auth |-> IF i = n THEN 8 - l ELSE 0, meta |-> IF i = n THEN m ELSE NoMeta, last |-> FALSE]
  <2>1. i \in 1..(n + 3) /\ i <= n  BY <1>1
  <2>2. QED  BY <2>1 DEF Encrypted, FrameWords
<1>4. PayloadWord(b, m) =
        [frame |-> f.frame, pos |-> i, keep |-> IF i = n THEN l ELSE 8, from |-> 0,
         auth |-> IF i = n THEN 8 - l ELSE 0, meta |-> IF i = n THEN m ELSE NoMeta, last |-> FALSE]
  <2>1. PayloadWord(b, m) = [NoWord EXCEPT !.frame = b.frame, !.pos = b.pos, !.keep = b.keep,
                                           !.auth = IF b.last THEN 8 - b.keep ELSE 0,
                                           !.meta = IF b.last THEN m ELSE NoMeta]
    BY Zenon DEF PayloadWord, KEEP_WIDTH
  <2> HIDE DEF b, m, n, l
  <2>2. CASE i = n
    <3>1. b.last = TRUE /\ b.keep = l  BY <1>2, <2>2
    <3>2. QED  BY <1>2, <2>1, <2>2, <3>1 DEF NoWord
  <2>3. CASE i # n
    <3>1. b.last = FALSE /\ b.keep = 8  BY <1>2, <2>3
    <3>2. QED  BY <1>2, <2>1, <2>3, <3>1 DEF NoWord
  <2>4. QED  BY <2>2, <2>3
<1> HIDE DEF n, l, m, b
<1>5. Encrypted(f, k)[i].frame # NoWord.frame  BY <1>1, <1>3 DEF NoWord
<1>6. Encrypted(f, k)[i].keep + Encrypted(f, k)[i].auth = 8
  <2>1. CASE i = n  BY <1>1, <1>3, <2>1
  <2>2. CASE i # n  BY <1>3, <2>2
  <2>3. QED  BY <2>1, <2>2
<1>7. Encrypted(f, k)[i].last = FALSE  BY <1>3
<1>8. Encrypted(f, k)[i] # NoWord  BY <1>5
<1>9. QED  BY <1>3, <1>4, <1>6, <1>7, <1>8 DEF m, b

(* ... and the others are the trailer, 8 bytes at a time from where the    *)
(* payload's last word broke off.                                          *)
LEMMA TrailerWords ==
    ASSUME NEW f \in AcceptedFrames, NEW k \in Nat, NEW j \in 0..2
    PROVE  LET w    == Encrypted(f, k)[BeatsOf(f) + 1 + j]
               from == (8 - LastKeep(f)) + 8 * j
           IN  /\ w = AuthWord(from, Meta(f, k)) /\ w # NoWord /\ from \in 0..23
               /\ w.last = (j = 2) /\ (24 - from <= 8 <=> j = 2)
               /\ w.keep + w.auth \in 1..8
<1> DEFINE n == BeatsOf(f)
           l == LastKeep(f)
           m == Meta(f, k)
           i == n + 1 + j
           from == (8 - l) + 8 * j
           w == Encrypted(f, k)[i]
           a == IF i = n + 3 THEN l ELSE 8
           e == i = n + 3
           d == 24 - from <= 8
<1>1. n \in Nat \ {0} /\ l \in 1..8 /\ j \in Nat  BY BeatsOfFrame
<1>2. i \in 1..(n + 3) /\ ~(i <= n) /\ (8 - l) + 8 * (i - (n + 1)) = from
  <2> HIDE DEF n, l
  <2>1. QED  BY <1>1
<1>3. w = [frame |-> 0, pos |-> 0, keep |-> 0, from |-> from, auth |-> a, meta |-> m, last |-> e]
  <2>1. w = [frame |-> 0, pos |-> 0, keep |-> 0, from |-> (8 - l) + 8 * (i - (n + 1)),
             auth |-> a, meta |-> m, last |-> e]
    BY <1>2, Zenon DEF Encrypted, FrameWords
  <2>2. QED  BY <1>2, <2>1, Zenon
<1>4. AuthWord(from, m) = [NoWord EXCEPT !.from = from, !.auth = IF 24 - from < 8 THEN 24 - from ELSE 8,
                                         !.meta = m, !.last = d]
  BY Zenon DEF AuthWord, KEEP_WIDTH, AUTH_BYTES
<1>5. /\ from \in 0..23 /\ (24 - from <= 8 <=> j = 2) /\ a \in 1..8
      /\ (IF 24 - from < 8 THEN 24 - from ELSE 8) = a
  <2> HIDE DEF n, l
  <2>1. CASE j = 0  BY <1>1, <2>1
  <2>2. CASE j = 1  BY <1>1, <2>2
  <2>3. CASE j = 2  BY <1>1, <2>3
  <2>4. QED  BY <2>1, <2>2, <2>3
<1>6. d = e /\ e = (j = 2)
  <2>1. e <=> j = 2
    <3> HIDE DEF n
    <3>1. QED  BY <1>1
  <2>2. d <=> j = 2  BY <1>5
  <2>3. QED  BY <2>1, <2>2
<1>7. AuthWord(from, m) = [NoWord EXCEPT !.from = from, !.auth = a, !.meta = m, !.last = e]
  BY <1>4, <1>5, <1>6, Zenon
<1> HIDE DEF n, l, m, i, from, w, a, e, d
<1>8. w = AuthWord(from, m)  BY <1>3, <1>7 DEF NoWord
<1>9. w.last = e /\ w.keep = 0 /\ w.auth = a  BY <1>3
<1>10. w.keep + w.auth \in 1..8  BY <1>5, <1>9
<1>11. w # NoWord
  <2>1. w.auth # NoWord.auth  BY <1>5, <1>9 DEF NoWord
  <2>2. QED  BY <2>1
<1>12. w.last = (j = 2)  BY <1>6, <1>9, Zenon
<1>13. QED  BY <1>5, <1>8, <1>10, <1>11, <1>12 DEF n, l, m, i, from, w

(***************************************************************************)
(* The frame in hand                                                       *)
(***************************************************************************)

(* The payloads taken, and the frame that is captured or released.         *)
LEMMA InHand ==
    ASSUME Side, Flow
    PROVE  /\ Len(sent) \in Nat /\ this_number \in Nat /\ this_number = Len(sent) + 1
           /\ captured_frames \in Nat /\ captured_frames + Len(from_cipher) = encrypted_frames
           /\ encrypted_frames <= Len(accepted) /\ Len(sent) <= captured_frames
           /\ Len(sent) <= Len(accepted)
           /\ state_reg # "ST_CAPTURE" =>
                captured_frames = Len(sent) + 1 /\ this_number \in 1..Len(accepted)
           /\ this_number \in 1..Len(accepted) =>
                this_frame \in AcceptedFrames /\ this_frame.frame = this_number
<1> DEFINE e == encrypted_frames
           c == captured_frames
           N == Len(sent)
           n == Len(accepted)
<1>1. N \in Nat /\ this_number = N + 1  BY DEF Flow, Output, this_number
<1>2. e \in Nat /\ n \in Nat /\ Len(to_cipher) \in Nat /\ e + Len(to_cipher) = n  BY Counts
<1>3. Len(from_cipher) \in Nat /\ Len(from_cipher) <= e /\ c = e - Len(from_cipher)
  BY DEF Side, QueueTypes, Flow, PayloadsInOrder, captured_frames
<1>4. c = N + Count(state_reg # "ST_CAPTURE")  BY DEF Flow, TagAppend, TagsHeld
<1>5. (state_reg # "ST_CAPTURE" => c = N + 1) /\ (state_reg = "ST_CAPTURE" => c = N + 0)
  BY <1>4, Zenon DEF Count
<1> HIDE DEF e, c, N, n
<1>6. c \in Nat /\ c + Len(from_cipher) = e /\ e <= n  BY <1>2, <1>3
<1>7. N <= c /\ N <= n  BY <1>1, <1>2, <1>5, <1>6
<1>8. state_reg # "ST_CAPTURE" => c = N + 1 /\ N + 1 \in 1..n
  <2>1. SUFFICES ASSUME c = N + 1 PROVE N + 1 \in 1..n
    BY <1>5
  <2>2. QED  BY <1>1, <1>2, <1>3, <1>6, <2>1
<1>9. this_number \in 1..n => this_frame \in AcceptedFrames /\ this_frame.frame = this_number
  <2>1. SUFFICES ASSUME this_number \in 1..n
                 PROVE  this_frame \in AcceptedFrames /\ this_frame.frame = this_number
    OBVIOUS
  <2>2. accepted \in Seq(AcceptedFrames)  BY DEF Side, QueueTypes
  <2>3. accepted[this_number] \in AcceptedFrames  BY <2>1, <2>2, ElementOfSeq DEF n
  <2>4. accepted[this_number].frame = this_number  BY <2>1 DEF Flow, Numbered, n
  <2>5. QED  BY <2>3, <2>4 DEF this_frame
<1>10. QED  BY <1>1, <1>6, <1>7, <1>8, <1>9 DEF e, c, N, n

(* The word in the output register is the next one of the frame in hand.   *)
LEMMA WordInHand ==
    ASSUME Side, Flow, m_axis # NoWord
    PROVE  /\ busy /\ this_number \in 1..Len(accepted) /\ this_frame \in AcceptedFrames
           /\ words_taken \in 0..(BeatsOf(this_frame) + 2)
           /\ m_axis = this_words[words_taken + 1]
           /\ m_axis.keep + m_axis.auth \in 1..8
           /\ m_axis.last = (words_taken = BeatsOf(this_frame) + 2)
           /\ out_state_reg = "OUT_IDLE" => state_reg = "ST_OUTPUT_PAYLOAD"
<1> DEFINE f == this_frame
           k == this_number
           w == words_taken
           n == BeatsOf(f)
<1>1. \/ state_reg = "ST_OUTPUT_PAYLOAD" /\ Releasing
      \/ state_reg = "ST_OUTPUT_AUTH" /\ Trailing
  BY DEF Flow, TagAppend, Capturing, Waiting
<1>2. busy /\ state_reg # "ST_CAPTURE"  BY <1>1 DEF busy
<1>3. k \in 1..Len(accepted) /\ f \in AcceptedFrames /\ k \in Nat
  BY <1>2, InHand
<1>4. w \in Nat
  <2>1. CASE out_state_reg = "OUT_ENC"
    <3>1. Len(sending) \in Nat /\ Len(sending) >= 2 /\ w = Len(sending) - 2
      BY <2>1 DEF Flow, Output, words_taken
    <3>2. QED  BY <3>1
  <2>2. CASE out_state_reg # "OUT_ENC"  BY <2>2 DEF words_taken
  <2>3. QED  BY <2>1, <2>2
<1>5. n \in Nat \ {0}  BY <1>3, BeatsOfFrame
<1>6. this_words = Encrypted(f, k)  BY DEF this_words
<1>7. CASE state_reg = "ST_OUTPUT_PAYLOAD" /\ Releasing
  <2>1. w < n /\ m_axis = this_words[w + 1]  BY <1>7 DEF Releasing
  <2> HIDE DEF w, n, f, k
  <2>2. w + 1 \in 1..n /\ w \in 0..(n + 2) /\ w # n + 2  BY <1>4, <1>5, <2>1
  <2>3. m_axis.keep + m_axis.auth = 8 /\ m_axis.last = FALSE
    BY <1>3, <1>6, <2>1, <2>2, PayloadWords DEF n
  <2>4. m_axis.last = (w = n + 2)  BY <2>2, <2>3
  <2>5. m_axis.keep + m_axis.auth \in 1..8  BY <2>3
  <2>6. QED  BY <1>2, <1>3, <1>7, <2>1, <2>2, <2>4, <2>5 DEF w, n, f, k
<1>8. CASE state_reg = "ST_OUTPUT_AUTH" /\ Trailing
  <2>1. w \in n..(n + 2) /\ m_axis = this_words[w + 1] /\ out_state_reg = "OUT_ENC"
    BY <1>8 DEF Trailing
  <2> HIDE DEF w, n, f, k
  <2> DEFINE j == w - n
  <2>2. j \in 0..2 /\ w + 1 = n + 1 + j /\ w \in 0..(n + 2) /\ (j = 2 <=> w = n + 2)
    BY <1>4, <1>5, <2>1
  <2> HIDE DEF j
  <2>3. m_axis = Encrypted(f, k)[BeatsOf(f) + 1 + j]  BY <1>6, <2>1, <2>2 DEF n
  <2>4. m_axis.last = (j = 2) /\ m_axis.keep + m_axis.auth \in 1..8
    <3>1. LET x == Encrypted(f, k)[BeatsOf(f) + 1 + j]
          IN  x.last = (j = 2) /\ x.keep + x.auth \in 1..8
      BY <1>3, <2>2, TrailerWords
    <3>2. QED  BY <2>3, <3>1
  <2>5. m_axis.last = (w = n + 2)  BY <2>2, <2>4
  <2>6. QED  BY <1>2, <1>3, <2>1, <2>2, <2>4, <2>5 DEF w, n, f, k
<1>9. QED  BY <1>1, <1>7, <1>8

(* The compactor refuses no beat of a frame that has begun.                *)
LEMMA OutputReady ==
    ASSUME Side, Flow
    PROVE  /\ out_state_reg # "OUT_IDLE" => out_axis_hs(TRUE)
           /\ out_start_hs(TRUE) => /\ header_fifo # <<>> /\ tuser_fifo # <<>>
                                    /\ m_axis # NoWord /\ ~last_pending_reg
           /\ out_axis_hs(TRUE) => out_bytes_int \in 1..8 /\ ~last_pending_reg
           /\ popped(TRUE) \in Nat /\ popped(TRUE) <= count_reg
           /\ ~last_pending_reg => count_reg - popped(TRUE) <= 7
<1>0. SUFFICES ASSUME NEW p, p = popped(TRUE)
             PROVE  /\ out_state_reg # "OUT_IDLE" => out_axis_hs(TRUE)
                    /\ out_start_hs(TRUE) => /\ header_fifo # <<>> /\ tuser_fifo # <<>>
                                             /\ m_axis # NoWord /\ ~last_pending_reg
                    /\ out_axis_hs(TRUE) => out_bytes_int \in 1..8 /\ ~last_pending_reg
                    /\ p \in Nat /\ p <= count_reg
                    /\ ~last_pending_reg => count_reg - p <= 7
  OBVIOUS
<1>1. count_reg \in 0..15 /\ last_pending_reg \in BOOLEAN
      /\ out_state_reg \in {"OUT_IDLE", "OUT_HEADER", "OUT_ENC"}
  <2>1. count_reg \in 0..64 /\ count_reg <= 15
    BY DEF Side, TypeOK, BUFFER_BYTES, Flow, Compactor
  <2>2. count_reg \in 0..15  BY <2>1
  <2>3. QED  BY <2>2 DEF Side, TypeOK, QueueTypes
<1>2. count_reg \in 0..15  BY <1>1
<1>3. p \in Nat /\ p <= count_reg /\ (~last_pending_reg => count_reg - p <= 7)
  <2>1. CASE compact_valid
    <3>1. p = IF count_reg > 8 THEN 8 ELSE count_reg  BY <1>0, <2>1 DEF popped, AtMost
    <3>2. p \in Nat /\ p <= count_reg /\ count_reg - p <= 7  BY <1>2, <3>1
    <3>3. QED  BY <3>2
  <2>2. CASE ~compact_valid
    <3>1. p = 0 /\ count_reg < 8  BY <1>0, <1>1, <2>2 DEF popped, compact_valid
    <3>2. p \in Nat /\ p <= count_reg /\ count_reg - p <= 7  BY <1>2, <3>1
    <3>3. QED  BY <3>2
  <2>3. QED  BY <2>1, <2>2
<1>4. out_tvalid_int => out_bytes_int \in 1..8
  <2>1. CASE out_state_reg = "OUT_IDLE"  BY <2>1 DEF out_bytes_int
  <2>2. CASE out_state_reg = "OUT_HEADER"  BY <2>2 DEF out_bytes_int, HEADER_BYTES
  <2>3. CASE out_state_reg = "OUT_ENC"
    <3>1. SUFFICES ASSUME out_tvalid_int PROVE out_bytes_int \in 1..8
      OBVIOUS
    <3>2. m_axis # NoWord  BY <2>3, <3>1 DEF out_tvalid_int
    <3>3. QED  BY <2>3, <3>2, WordInHand DEF out_bytes_int
  <2>4. QED  BY <1>1, <2>1, <2>2, <2>3
<1>5. out_state_reg # "OUT_IDLE" => out_tvalid_int /\ ~last_pending_reg
  <2>1. out_state_reg # "OUT_IDLE" => m_axis # NoWord /\ ~last_pending_reg
    BY DEF Flow, Output, Compactor
  <2>2. QED  BY <1>1, <2>1 DEF out_tvalid_int
<1>6. ~last_pending_reg => out_tready_int(TRUE)
  <2>1. out_tvalid_int => out_bytes_int <= (64 - count_reg) + p
    <3>1. SUFFICES ASSUME out_bytes_int \in 1..8
                   PROVE  out_bytes_int <= (64 - count_reg) + p
      BY <1>4
    <3>2. p \in Nat  BY <1>3
    <3>3. QED  BY <1>2, <3>1, <3>2
  <2>2. QED  BY <1>0, <2>1 DEF out_tready_int, BUFFER_BYTES
<1>7. out_start_hs(TRUE) => /\ header_fifo # <<>> /\ tuser_fifo # <<>>
                            /\ m_axis # NoWord /\ ~last_pending_reg
  BY DEF out_start_hs, out_axis_hs, out_tvalid_int, out_tready_int
<1>8. QED  BY <1>3, <1>4, <1>5, <1>6, <1>7 DEF out_axis_hs, out_tready_int

(***************************************************************************)
(* One edge: the output                                                    *)
(***************************************************************************)

(* The first j beats of the k-th frame f on its way out. *)
Upto(f, k, j) == [i \in 1..j |-> Sealed(f, k)[i]]

LEMMA PrefixNext ==
    ASSUME NEW F, NEW j \in Nat
    PROVE  /\ Append([i \in 1..j |-> F[i]], F[j + 1]) = [i \in 1..(j + 1) |-> F[i]]
           /\ Len([i \in 1..j |-> F[i]]) = j
<1> DEFINE S == {F[i] : i \in 1..(j + 1)}
           u == [i \in 1..j |-> F[i]]
           v == [i \in 1..(j + 1) |-> F[i]]
           y == F[j + 1]
<1>1. u = [i \in 1..j |-> F[i]] /\ v = [i \in 1..(j + 1) |-> F[i]] /\ y = F[j + 1]
  OBVIOUS
<1>2. j + 1 \in Nat /\ j + 1 \in 1..(j + 1) /\ \A i \in 1..j : i \in 1..(j + 1)  OBVIOUS
<1>3. \A i \in 1..(j + 1) : F[i] \in S  OBVIOUS
<1> HIDE DEF u, v, S, y
<1>4. u \in [1..j -> S] /\ v \in [1..(j + 1) -> S] /\ y \in S  BY <1>1, <1>2, <1>3
<1>5. u \in Seq(S) /\ v \in Seq(S) /\ Len(u) = j /\ Len(v) = j + 1
  BY <1>2, <1>4, SeqDef, LenProperties
<1>6. /\ Append(u, y) \in Seq(S) /\ Len(Append(u, y)) = j + 1 /\ Append(u, y)[j + 1] = y
      /\ \A i \in 1..j : Append(u, y)[i] = u[i]
  BY <1>4, <1>5, AppendProperties
<1>7. ASSUME NEW i \in 1..(j + 1) PROVE Append(u, y)[i] = v[i]
  <2>1. CASE i = j + 1  BY <1>1, <1>2, <1>6, <2>1
  <2>2. CASE i # j + 1
    <3>1. i \in 1..j  BY <2>2
    <3>2. QED  BY <1>1, <1>2, <1>6, <3>1
  <2>3. QED  BY <2>1, <2>2
<1>8. Append(u, y) = v  BY <1>5, <1>6, <1>7, SeqEqual
<1>9. QED  BY <1>5, <1>8 DEF u, v, y

LEMMA PrefixIsSubSeq ==
    ASSUME NEW F, NEW j \in Nat
    PROVE  SubSeq(F, 1, j) = [i \in 1..j |-> F[i]]
<1> DEFINE S == {F[i] : i \in 1..j}
           u == [i \in 1..j |-> F[i]]
           v == SubSeq(F, 1, j)
<1>1. \A i \in 1..j : F[i] \in S  OBVIOUS
<1>2. u \in [1..j -> S] /\ \A i \in 1..j : u[i] = F[i]  OBVIOUS
<1> HIDE DEF S, u
<1>3. u \in Seq(S) /\ Len(u) = j  BY <1>2, SeqDef, LenProperties
<1>4. /\ v \in Seq(S) /\ Len(v) = IF 1 <= j THEN j - 1 + 1 ELSE 0
      /\ \A i \in 1..(j - 1 + 1) : v[i] = F[1 + i - 1]
  BY <1>1, SubSeqProperties
<1> HIDE DEF v
<1>5. Len(v) = j /\ \A i \in 1..j : v[i] = F[i]
  <2>1. j - 1 + 1 = j /\ \A i \in 1..j : 1 + i - 1 = i  OBVIOUS
  <2>2. \A i \in 1..j : v[i] = F[i]  BY <1>4, <2>1
  <2>3. QED  BY <1>4, <2>2
<1>6. v = u  BY <1>2, <1>3, <1>4, <1>5, SeqEqual
<1>7. QED  BY <1>6 DEF u, v

LEMMA UptoNext ==
    ASSUME NEW f, NEW k, NEW j \in Nat
    PROVE  /\ Append(Upto(f, k, j), Sealed(f, k)[j + 1]) = Upto(f, k, j + 1)
           /\ Len(Upto(f, k, j)) = j
  BY PrefixNext DEF Upto

LEMMA SealedBeats ==
    ASSUME NEW f \in AcceptedFrames, NEW k
    PROVE  /\ \A i \in 1..2 : Sealed(f, k)[i] = [beat |-> HeaderBeat(i, f.frame), tuser |-> f.frame]
           /\ \A w \in 0..(BeatsOf(f) + 2) :
                Sealed(f, k)[w + 3] = [beat  |-> EncBeat(Encrypted(f, k)[w + 1]),
                                       tuser |-> f.frame]
           /\ Upto(f, k, BeatsOf(f) + 5) = Sealed(f, k)
<1> DEFINE n == BeatsOf(f)
           y(i) == [beat  |-> IF i <= 2 THEN HeaderBeat(i, f.frame)
                              ELSE EncBeat(Encrypted(f, k)[i - 2]),
                    tuser |-> f.frame]
<1>1. n \in Nat  BY BeatsOfFrame
<1>2. Sealed(f, k) = [i \in 1..(n + 5) |-> y(i)]  BY DEF Sealed
<1>3. ASSUME NEW i \in 1..2
      PROVE  Sealed(f, k)[i] = [beat |-> HeaderBeat(i, f.frame), tuser |-> f.frame]
  <2>1. i \in 1..(n + 5) /\ i <= 2
    <3> HIDE DEF n
    <3>1. QED  BY <1>1
  <2>2. Sealed(f, k)[i] = y(i)
    <3> HIDE DEF n, y
    <3>1. QED  BY <1>2, <2>1
  <2>3. QED  BY <2>1, <2>2
<1>4. ASSUME NEW w \in 0..(n + 2)
      PROVE  Sealed(f, k)[w + 3] = [beat |-> EncBeat(Encrypted(f, k)[w + 1]), tuser |-> f.frame]
  <2>1. w + 3 \in 1..(n + 5) /\ ~(w + 3 <= 2) /\ (w + 3) - 2 = w + 1
    <3> HIDE DEF n
    <3>1. QED  BY <1>1
  <2>2. Sealed(f, k)[w + 3] = y(w + 3)
    <3> HIDE DEF n, y
    <3>1. QED  BY <1>2, <2>1
  <2>3. y(w + 3) = [beat |-> EncBeat(Encrypted(f, k)[w + 1]), tuser |-> f.frame]
    BY <2>1, Zenon
  <2>4. QED  BY <2>2, <2>3
<1>5. Upto(f, k, n + 5) = Sealed(f, k)
  <2> HIDE DEF n, y
  <2>1. QED  BY <1>2 DEF Upto
<1>6. QED  BY <1>3, <1>4, <1>5

(* The parts of the frame in hand that wait for the output are its own. *)
LEMMA HeadsInHand ==
    ASSUME Side, Flow
    PROVE  /\ out_state_reg = "OUT_IDLE" /\ header_fifo # <<>> => Head(header_fifo) = this_number
           /\ out_state_reg = "OUT_IDLE" /\ tuser_fifo # <<>> => out_tuser_int = this_number
           /\ out_state_reg # "OUT_IDLE" => out_tuser_int = this_number
           /\ out_state_reg = "OUT_HEADER" => out_header_reg = this_number
<1>1. this_number = Len(sent) + 1 /\ Len(sent) \in Nat  BY InHand
<1>2. out_state_reg # "OUT_IDLE" => out_tuser_int = this_number
  BY <1>1 DEF Flow, TuserInOrder, out_tuser_int
<1>3. out_state_reg = "OUT_HEADER" => out_header_reg = this_number
  BY <1>1 DEF Flow, HeadersInOrder
<1>4. ASSUME out_state_reg = "OUT_IDLE"
      PROVE  started_frames = Len(sent) /\ ~out_frame_active_reg /\ ~header_pop_d1_reg
             /\ started_frames - Count(header_pop_d1_reg) = Len(sent)
  <2>1. started_frames = Len(sent) + 0  BY <1>4 DEF started_frames, Count
  <2>2. ~out_frame_active_reg /\ ~header_pop_d1_reg
    BY <1>4 DEF Flow, TuserInOrder, HeadersInOrder
  <2>3. Count(header_pop_d1_reg) = 0  BY <2>2 DEF Count
  <2>4. started_frames = Len(sent) /\ started_frames - 0 = Len(sent)  BY <1>1, <2>1
  <2>5. QED  BY <2>2, <2>3, <2>4
<1>5. ASSUME out_state_reg = "OUT_IDLE", header_fifo # <<>>
      PROVE  Head(header_fifo) = this_number
  <2>1. \A i \in 1..Len(header_fifo) : header_fifo[i] = Len(sent) + i
    BY <1>4, <1>5 DEF Flow, HeadersInOrder
  <2>2. header_fifo \in Seq(FrameIds)  BY DEF Side, TypeOK
  <2>3. 1 \in 1..Len(header_fifo) /\ Head(header_fifo) = header_fifo[1]
    BY <1>5, <2>2, EmptySeq, HeadTailProperties
  <2>4. QED  BY <1>1, <2>1, <2>3
<1>6. ASSUME out_state_reg = "OUT_IDLE", tuser_fifo # <<>>
      PROVE  out_tuser_int = this_number
  <2>1. \A i \in 1..Len(tuser_fifo) : tuser_fifo[i] = Len(sent) + i
    BY <1>4, <1>6 DEF Flow, TuserInOrder
  <2>2. tuser_fifo \in Seq(FrameIds)  BY DEF Side, TypeOK
  <2>3. 1 \in 1..Len(tuser_fifo) /\ Head(tuser_fifo) = tuser_fifo[1]
    BY <1>6, <2>2, EmptySeq, HeadTailProperties
  <2>4. out_tuser_int = Head(tuser_fifo)  BY <1>4, <1>6 DEF out_tuser_int
  <2>5. QED  BY <1>1, <2>1, <2>3, <2>4
<1>7. QED  BY <1>2, <1>3, <1>5, <1>6

(* What an edge does at the output while the k-th frame f is in hand: it   *)
(* waits, begins the frame, goes on with it, or ends it.                   *)
Idles ==
    /\ out_state_reg = "OUT_IDLE" /\ ~out_start_hs(TRUE)
    /\ out_state_reg' = "OUT_IDLE" /\ sending' = <<>> /\ sent' = sent
Starts(f, k) ==
    /\ out_state_reg = "OUT_IDLE" /\ out_start_hs(TRUE) /\ m_axis # NoWord
    /\ out_state_reg' = "OUT_HEADER" /\ out_header_reg' = k
    /\ sending' = Upto(f, k, 1) /\ sent' = sent
HeaderEnds(f, k) ==
    /\ out_state_reg = "OUT_HEADER" /\ ~out_start_hs(TRUE)
    /\ out_state_reg' = "OUT_ENC" /\ sending' = Upto(f, k, 2) /\ sent' = sent
WordTaken(f, k) ==
    /\ out_state_reg = "OUT_ENC" /\ ~out_start_hs(TRUE) /\ words_taken < BeatsOf(f) + 2
    /\ out_state_reg' = "OUT_ENC" /\ sending' = Upto(f, k, words_taken + 3) /\ sent' = sent
FrameEnds(f, k) ==
    /\ out_state_reg = "OUT_ENC" /\ ~out_start_hs(TRUE) /\ words_taken = BeatsOf(f) + 2
    /\ out_state_reg' = "OUT_IDLE" /\ sending' = <<>> /\ sent' = Append(sent, Sealed(f, k))

LEMMA OutputMoves ==
    ASSUME Side, Flow, OutputEdge(TRUE), NEW f, f = this_frame, NEW k, k = this_number
    PROVE  Idles \/ Starts(f, k) \/ HeaderEnds(f, k) \/ WordTaken(f, k) \/ FrameEnds(f, k)
<1>1. k \in Nat /\ (m_axis # NoWord => f \in AcceptedFrames /\ f.frame = k)
  BY InHand, WordInHand
<1>2. sending = Upto(f, k, Len(sending)) /\ Len(sending) \in Nat
  BY DEF Flow, Output, Upto
<1> DEFINE y == [beat |-> out_beat_int, tuser |-> out_tuser_int]
<1>3. ASSUME out_axis_hs(TRUE)
      PROVE  /\ out_state_reg' = CASE out_state_reg = "OUT_IDLE"   -> "OUT_HEADER"
                                   [] out_state_reg = "OUT_HEADER" -> "OUT_ENC"
                                   [] OTHER -> IF m_axis.last THEN "OUT_IDLE" ELSE "OUT_ENC"
             /\ sending' = IF out_tlast_int THEN <<>> ELSE Append(sending, y)
             /\ sent' = IF out_tlast_int THEN Append(sent, Append(sending, y)) ELSE sent
  BY <1>3, Zenon DEF OutputEdge
<1> HIDE DEF y
<1>4. CASE out_state_reg = "OUT_IDLE" /\ ~out_axis_hs(TRUE)
  <2>1. out_state_reg' = "OUT_IDLE" /\ sending' = sending /\ sent' = sent
    <3>1. sending' = sending /\ sent' = sent  BY <1>4, Zenon DEF OutputEdge
    <3>2. out_state_reg' = out_state_reg  BY <1>4, Zenon DEF OutputEdge
    <3>3. QED  BY <1>4, <3>1, <3>2
  <2>2. sending = <<>>  BY <1>4 DEF Flow, Output
  <2>3. QED  BY <1>4, <2>1, <2>2 DEF Idles, out_start_hs
<1>5. CASE out_state_reg = "OUT_IDLE" /\ out_axis_hs(TRUE)
  <2>1. out_start_hs(TRUE)  BY <1>5 DEF out_start_hs
  <2>2. header_fifo # <<>> /\ tuser_fifo # <<>> /\ m_axis # NoWord  BY <2>1, OutputReady
  <2>3. ~out_tlast_int  BY <1>5 DEF out_tlast_int
  <2>4. out_state_reg' = "OUT_HEADER" /\ sending' = Append(sending, y) /\ sent' = sent
    BY <1>3, <1>5, <2>3
  <2>5. out_header_reg' = k /\ y = [beat |-> HeaderBeat(1, k), tuser |-> k]
    <3>1. Head(header_fifo) = k /\ out_tuser_int = k  BY <1>5, <2>2, HeadsInHand
    <3>2. out_header_reg' = Head(header_fifo)  BY <2>1 DEF OutputEdge
    <3>3. out_beat_int = HeaderBeat(1, Head(header_fifo))  BY <1>5 DEF out_beat_int
    <3>4. QED  BY <3>1, <3>2, <3>3 DEF y
  <2>6. y = Sealed(f, k)[0 + 1]
    <3>1. f \in AcceptedFrames /\ f.frame = k  BY <1>1, <2>2
    <3>2. Sealed(f, k)[1] = [beat |-> HeaderBeat(1, f.frame), tuser |-> f.frame]
      <4>1. \A i \in 1..2 :
              Sealed(f, k)[i] = [beat |-> HeaderBeat(i, f.frame), tuser |-> f.frame]
        BY <3>1, SealedBeats
      <4>2. 1 \in 1..2  OBVIOUS
      <4>3. QED  BY <4>1, <4>2
    <3>3. QED  BY <2>5, <3>1, <3>2
  <2>7. sending = Upto(f, k, 0)
    <3>1. sending = <<>>  BY <1>5 DEF Flow, Output
    <3>2. Len(sending) = 0  BY <3>1
    <3>3. QED  BY <1>2, <3>2
  <2>8. sending' = Upto(f, k, 1)
    <3>1. Append(Upto(f, k, 0), Sealed(f, k)[0 + 1]) = Upto(f, k, 0 + 1)  BY UptoNext
    <3>2. QED  BY <2>4, <2>6, <2>7, <3>1
  <2>9. QED  BY <1>5, <2>1, <2>2, <2>4, <2>5, <2>8 DEF Starts
<1>6. CASE out_state_reg = "OUT_HEADER"
  <2>1. out_axis_hs(TRUE) /\ ~out_start_hs(TRUE) /\ ~out_tlast_int
    BY <1>6, OutputReady DEF out_start_hs, out_tlast_int
  <2>2. out_state_reg' = "OUT_ENC" /\ sending' = Append(sending, y) /\ sent' = sent
    BY <1>3, <1>6, <2>1
  <2>3. y = Sealed(f, k)[1 + 1]
    <3>1. f \in AcceptedFrames /\ f.frame = k  BY <1>1, <1>6 DEF Flow, Output
    <3>2. out_tuser_int = k /\ out_header_reg = k  BY <1>6, HeadsInHand
    <3>3. out_beat_int = HeaderBeat(2, out_header_reg)  BY <1>6 DEF out_beat_int
    <3>4. Sealed(f, k)[2] = [beat |-> HeaderBeat(2, f.frame), tuser |-> f.frame]
      <4>1. \A i \in 1..2 :
              Sealed(f, k)[i] = [beat |-> HeaderBeat(i, f.frame), tuser |-> f.frame]
        BY <3>1, SealedBeats
      <4>2. 2 \in 1..2  OBVIOUS
      <4>3. QED  BY <4>1, <4>2
    <3>5. QED  BY <3>1, <3>2, <3>3, <3>4 DEF y
  <2>4. sending = Upto(f, k, 1)
    <3>1. Len(sending) = 1  BY <1>6 DEF Flow, Output
    <3>2. QED  BY <1>2, <3>1
  <2>5. sending' = Upto(f, k, 2)
    <3>1. Append(Upto(f, k, 1), Sealed(f, k)[1 + 1]) = Upto(f, k, 1 + 1)  BY UptoNext
    <3>2. QED  BY <2>2, <2>3, <2>4, <3>1
  <2>6. QED  BY <1>6, <2>1, <2>2, <2>5 DEF HeaderEnds
<1>7. CASE out_state_reg = "OUT_ENC"
  <2> DEFINE w == words_taken
             n == BeatsOf(f)
  <2>1. out_axis_hs(TRUE) /\ ~out_start_hs(TRUE)
    BY <1>7, OutputReady DEF out_start_hs
  <2>2. m_axis # NoWord  BY <1>7 DEF Flow, Output
  <2>3. /\ f \in AcceptedFrames /\ f.frame = k /\ w \in 0..(n + 2)
        /\ m_axis = Encrypted(f, k)[w + 1] /\ m_axis.last = (w = n + 2)
    BY <1>1, <2>2, WordInHand DEF this_words
  <2>4. Len(sending) = w + 2
    <3>1. w = Len(sending) - 2  BY <1>7 DEF words_taken
    <3> HIDE DEF w
    <3>2. QED  BY <1>2, <3>1
  <2>5. w \in Nat /\ n \in Nat /\ w + 2 \in Nat /\ (w + 2) + 1 = w + 3
    <3>1. n \in Nat  BY <2>3, BeatsOfFrame
    <3> HIDE DEF w, n
    <3>2. QED  BY <2>3, <3>1
  <2>6. Append(sending, y) = Upto(f, k, w + 3)
    <3>1. out_tuser_int = k  BY <1>7, HeadsInHand
    <3>2. out_beat_int = EncBeat(m_axis)  BY <1>7 DEF out_beat_int
    <3>3. Sealed(f, k)[w + 3] = [beat |-> EncBeat(Encrypted(f, k)[w + 1]), tuser |-> f.frame]
      BY <2>3, SealedBeats
    <3>4. y = Sealed(f, k)[(w + 2) + 1]  BY <2>3, <2>5, <3>1, <3>2, <3>3 DEF y
    <3>5. Append(Upto(f, k, w + 2), Sealed(f, k)[(w + 2) + 1]) = Upto(f, k, (w + 2) + 1)
      BY <2>5, UptoNext
    <3>6. QED  BY <1>2, <2>4, <2>5, <3>4, <3>5
  <2>7. out_tlast_int <=> w = n + 2  BY <1>7, <2>3 DEF out_tlast_int
  <2>8. CASE w = n + 2
    <3>1. m_axis.last = TRUE /\ out_tlast_int  BY <2>3, <2>7, <2>8
    <3>2. out_state_reg' = "OUT_IDLE"  BY <1>3, <1>7, <2>1, <3>1
    <3>3. sending' = <<>> /\ sent' = Append(sent, Upto(f, k, w + 3))
      BY <1>3, <2>1, <2>6, <3>1
    <3>4. w + 3 = n + 5  BY <2>5, <2>8
    <3>5. Upto(f, k, n + 5) = Sealed(f, k)  BY <2>3, SealedBeats
    <3>6. QED  BY <1>7, <2>1, <2>8, <3>2, <3>3, <3>4, <3>5 DEF FrameEnds
  <2>9. CASE w # n + 2
    <3>1. m_axis.last = FALSE /\ ~out_tlast_int  BY <2>3, <2>7, <2>9
    <3>2. out_state_reg' = "OUT_ENC"  BY <1>3, <1>7, <2>1, <3>1
    <3>3. sending' = Upto(f, k, w + 3) /\ sent' = sent
      BY <1>3, <2>1, <2>6, <3>1
    <3>4. w < n + 2
      <4> HIDE DEF w, n
      <4>1. QED  BY <2>3, <2>5, <2>9
    <3>5. QED  BY <1>7, <2>1, <3>2, <3>3, <3>4 DEF WordTaken
  <2>10. QED  BY <2>8, <2>9
<1>8. out_state_reg \in {"OUT_IDLE", "OUT_HEADER", "OUT_ENC"}  BY DEF Side, TypeOK
<1>9. QED  BY <1>4, <1>5, <1>6, <1>7, <1>8

(***************************************************************************)
(* One edge: the queues                                                    *)
(***************************************************************************)

(* Without runts every frame that ends has a payload; the frames' numbers  *)
(* are their places in the line.                                           *)
LEMMA NumberedStep ==
    ASSUME Side, Flow, ~RUNTS, NEW in \in Inputs, InputEdge(in)
    PROVE  /\ Numbered'
           /\ (in_axis_hs(in) /\ in.last) = s_axis_frame_end_hs(in)
           /\ s_axis_frame_end_hs(in) => in_frame_tuser_reg' = ending_frame(in).frame
<1>1. /\ in_frame = Len(accepted) + 1 /\ Len(accepted) \in Nat
      /\ \A k \in 1..Len(accepted) : accepted[k].frame = k
      /\ in_frame_active_reg => in_frame_tuser_reg = in_frame
  BY DEF Flow, Numbered, Side, QueueTypes
<1>2. in_axis_hs(in) => in.last \in BOOLEAN /\ (in.last => payload_in(in) > 0)
  BY InputFacts DEF in_axis_hs
<1>3. (in_axis_hs(in) /\ in.last) = s_axis_frame_end_hs(in)
  BY <1>2 DEF s_axis_frame_end_hs
<1>4. ending_frame(in).frame = in_frame  BY DEF ending_frame
<1>5. CASE ~in_axis_hs(in)
  <2>1. UNCHANGED inVars /\ ~s_axis_frame_end_hs(in)
    BY <1>5 DEF InputEdge, s_axis_frame_end_hs
  <2>2. Numbered'  BY <2>1 DEF Flow, Numbered, inVars
  <2>3. QED  BY <1>3, <2>1, <2>2
<1>6. CASE in_axis_hs(in) /\ ~in.last
  <2>1. ~s_axis_frame_end_hs(in)  BY <1>6 DEF s_axis_frame_end_hs
  <2>2. /\ in_frame' = in_frame /\ accepted' = accepted
        /\ in_frame_tuser_reg' = IF in_frame_active_reg THEN in_frame_tuser_reg ELSE in_frame
    BY <1>6, <2>1 DEF InputEdge
  <2>3. in_frame_tuser_reg' = in_frame  BY <1>1, <2>2
  <2>4. Numbered'  BY <1>1, <2>2, <2>3 DEF Numbered
  <2>5. QED  BY <1>3, <2>1, <2>4
<1>7. CASE in_axis_hs(in) /\ in.last
  <2>1. s_axis_frame_end_hs(in)  BY <1>2, <1>7 DEF s_axis_frame_end_hs
  <2>2. /\ in_frame' = in_frame + 1 /\ in_frame_active_reg' = FALSE
        /\ in_frame_tuser_reg' = IF in_frame_active_reg THEN in_frame_tuser_reg ELSE in_frame
    BY <1>7 DEF InputEdge
  <2>3. in_frame_tuser_reg' = in_frame  BY <1>1, <2>2
  <2>4. /\ Len(accepted') = Len(accepted) + 1 /\ accepted'[Len(accepted')] = ending_frame(in)
        /\ \A i \in 1..Len(accepted) : accepted'[i] = accepted[i]
    BY <2>1, AcceptedKept
  <2>5. ASSUME NEW k \in 1..Len(accepted') PROVE accepted'[k].frame = k
    <3>1. CASE k = Len(accepted')  BY <1>1, <1>4, <2>4, <3>1
    <3>2. CASE k # Len(accepted')
      <4>1. k \in 1..Len(accepted)  BY <1>1, <2>4, <3>2
      <4>2. QED  BY <1>1, <2>4, <4>1
    <3>3. QED  BY <3>1, <3>2
  <2>6. in_frame' = Len(accepted') + 1  BY <1>1, <2>2, <2>4
  <2>7. Numbered'  BY <2>2, <2>5, <2>6 DEF Numbered
  <2>8. QED  BY <1>3, <1>4, <2>1, <2>3, <2>7
<1>8. QED  BY <1>5, <1>6, <1>7

(* A payload leaves the return bridge with its last beat.                  *)
LEMMA PayloadsStep ==
    ASSUME Side, Flow, NEW in \in Inputs, InputEdge(in), NEW ps \in BOOLEAN, NEW ts \in BOOLEAN,
           ps => from_cipher # <<>>, ReturnEdge(ps, ts), encrypted_frames' = encrypted_frames
    PROVE  /\ PayloadsInOrder'
           /\ ps /\ s_payload_tready /\ enc_payload(TRUE).last =>
                captured_frames' = captured_frames + 1 /\ sent_bytes' = 0
           /\ ps /\ s_payload_tready /\ ~enc_payload(TRUE).last =>
                captured_frames' = captured_frames /\ sent_bytes' = sent_bytes + 8
           /\ ~(ps /\ s_payload_tready) =>
                captured_frames' = captured_frames /\ sent_bytes' = sent_bytes
<1> DEFINE e == encrypted_frames
           c == captured_frames
           l == Len(from_cipher)
           n == Len(accepted)
           takes == ps /\ s_payload_tready /\ enc_payload(TRUE).last
<1>1. /\ c \in Nat /\ l \in Nat /\ n \in Nat /\ c + l = e /\ e <= n
      /\ from_cipher \in Seq(AcceptedFrames)
  BY InHand DEF Side, QueueTypes
<1>2. \A i \in 1..l : from_cipher[i] = accepted[c + i]  BY DEF Flow, PayloadsInOrder
<1>3. \A i \in 1..n : accepted'[i] = accepted[i]  BY AcceptedKept
<1>4. captured_frames' = e - Len(from_cipher')  BY DEF captured_frames
<1> HIDE DEF e, c
<1>5. ASSUME takes
      PROVE  PayloadsInOrder' /\ captured_frames' = c + 1 /\ sent_bytes' = 0
  <2>1. from_cipher # <<>> /\ from_cipher' = Tail(from_cipher) /\ sent_bytes' = 0
    BY <1>5 DEF ReturnEdge
  <2>2. /\ Len(from_cipher') = l - 1 /\ l >= 1 /\ Len(from_cipher') \in Nat
        /\ \A i \in 1..(l - 1) : from_cipher'[i] = from_cipher[i + 1]
    BY <1>1, <2>1, HeadTailProperties, EmptySeq
  <2>3. captured_frames' = c + 1  BY <1>1, <1>4, <2>2
  <2>4. ASSUME NEW i \in 1..Len(from_cipher') PROVE from_cipher'[i] = accepted'[(c + 1) + i]
    <3>1. i \in 1..(l - 1) /\ i + 1 \in 1..l /\ c + (i + 1) = (c + 1) + i /\ (c + 1) + i \in 1..n
      BY <1>1, <2>2
    <3>2. from_cipher'[i] = from_cipher[i + 1]  BY <2>2, <3>1
    <3>3. from_cipher[i + 1] = accepted[c + (i + 1)]  BY <1>2, <3>1
    <3>4. accepted'[(c + 1) + i] = accepted[(c + 1) + i]  BY <1>3, <3>1
    <3>5. QED  BY <3>1, <3>2, <3>3, <3>4
  <2>5. Len(from_cipher') <= e  BY <1>1, <2>2
  <2>6. PayloadsInOrder'  BY <2>3, <2>4, <2>5 DEF PayloadsInOrder, e
  <2>7. QED  BY <2>1, <2>3, <2>6
<1>6. ASSUME ~takes
      PROVE  PayloadsInOrder' /\ captured_frames' = c
  <2>1. from_cipher' = from_cipher  BY <1>6 DEF ReturnEdge
  <2>2. captured_frames' = c  BY <1>1, <1>4, <2>1
  <2>3. ASSUME NEW i \in 1..l PROVE from_cipher[i] = accepted'[c + i]
    <3>1. c + i \in 1..n  BY <1>1
    <3>2. QED  BY <1>2, <1>3, <3>1
  <2>4. Len(from_cipher') <= e  BY <1>1, <2>1
  <2>5. PayloadsInOrder'  BY <2>1, <2>2, <2>3, <2>4 DEF PayloadsInOrder, e
  <2>6. QED  BY <2>2, <2>5
<1>7. ps /\ s_payload_tready /\ ~enc_payload(TRUE).last => sent_bytes' = sent_bytes + 8
  BY DEF ReturnEdge
<1>8. ~(ps /\ s_payload_tready) => sent_bytes' = sent_bytes  BY DEF ReturnEdge
<1>9. QED  BY <1>5, <1>6, <1>7, <1>8 DEF c

(* The frames handed on are a prefix of the line, and the frame in hand is *)
(* the next.                                                               *)
LEMMA SentNext ==
    ASSUME Side, Flow, NEW f, f = this_frame, NEW k, k = this_number
    PROVE  /\ Append(sent, Sealed(f, k)) = [j \in 1..k |-> Sealed(accepted[j], j)]
           /\ Len(Append(sent, Sealed(f, k))) = k
<1> DEFINE F == [j \in Nat |-> Sealed(accepted[j], j)]
           N == Len(sent)
<1>1. N \in Nat /\ k = N + 1 /\ k \in Nat  BY InHand
<1>2. f = accepted[k]  BY DEF this_frame
<1>3. \A j \in Nat : F[j] = Sealed(accepted[j], j)  OBVIOUS
<1> HIDE DEF F
<1>4. sent = [j \in 1..N |-> F[j]]
  <2>1. sent = [j \in 1..N |-> Sealed(accepted[j], j)]  BY DEF Flow, Output
  <2>2. \A j \in 1..N : Sealed(accepted[j], j) = F[j]  BY <1>1, <1>3
  <2>3. QED  BY <2>1, <2>2
<1>5. Sealed(f, k) = F[N + 1]  BY <1>1, <1>2, <1>3
<1>6. Append(sent, Sealed(f, k)) = [j \in 1..k |-> F[j]]
  <2> HIDE DEF N
  <2>1. Append([i \in 1..N |-> F[i]], F[N + 1]) = [i \in 1..(N + 1) |-> F[i]]
    BY <1>1, PrefixNext
  <2>2. QED  BY <1>1, <1>4, <1>5, <2>1
<1>7. Len([j \in 1..k |-> F[j]]) = k  BY <1>1, PrefixNext
<1>8. \A j \in 1..k : F[j] = Sealed(accepted[j], j)  BY <1>1, <1>3
<1>9. [j \in 1..k |-> F[j]] = [j \in 1..k |-> Sealed(accepted[j], j)]  BY <1>8
<1>10. QED  BY <1>6, <1>7, <1>9

Moves(f, k) ==
    Idles \/ Starts(f, k) \/ HeaderEnds(f, k) \/ WordTaken(f, k) \/ FrameEnds(f, k)

LEMMA StartedStep ==
    ASSUME Side, Flow, NEW f, f = this_frame, NEW k, k = this_number, Moves(f, k)
    PROVE  /\ started_frames \in Nat /\ started_frames <= Len(accepted)
           /\ out_start_hs(TRUE) => Starts(f, k) /\ started_frames' = started_frames + 1
           /\ ~out_start_hs(TRUE) => ~Starts(f, k) /\ started_frames' = started_frames
           /\ ~FrameEnds(f, k) => sent' = sent /\ Len(sent') + 1 = k
           /\ FrameEnds(f, k) => Len(sent') = k
<1> DEFINE N == Len(sent)
<1>1. N \in Nat /\ k = N + 1 /\ N <= Len(accepted) /\ Len(accepted) \in Nat
  BY InHand DEF Side, QueueTypes
<1>2. FrameEnds(f, k) => Len(sent') = k  BY SentNext DEF FrameEnds
<1>3. ~FrameEnds(f, k) => sent' = sent /\ Len(sent') + 1 = k
  BY <1>1 DEF Moves, Idles, Starts, HeaderEnds, WordTaken
<1>4. /\ out_state_reg = "OUT_IDLE" => started_frames = N
      /\ out_state_reg # "OUT_IDLE" => started_frames = N + 1
  <2>1. out_state_reg = "OUT_IDLE" => started_frames = N + 0
    BY DEF started_frames, Count
  <2>2. out_state_reg # "OUT_IDLE" => started_frames = N + 1
    BY DEF started_frames, Count
  <2>3. N + 0 = N
    <3> HIDE DEF N
    <3>1. QED  BY <1>1
  <2>4. QED  BY <2>1, <2>2, <2>3
<1>5. /\ out_state_reg' = "OUT_IDLE" => started_frames' = Len(sent') + 0
      /\ out_state_reg' # "OUT_IDLE" => started_frames' = Len(sent') + 1
  BY DEF started_frames, Count
<1>6. started_frames \in Nat /\ started_frames <= Len(accepted)
  <2>1. CASE out_state_reg = "OUT_IDLE"  BY <1>1, <1>4, <2>1
  <2>2. CASE out_state_reg # "OUT_IDLE"
    <3>1. state_reg # "ST_CAPTURE"  BY <2>2 DEF Flow, Output, busy
    <3>2. k \in 1..Len(accepted)  BY <3>1, InHand
    <3>3. started_frames = k  BY <1>1, <1>4, <2>2
    <3>4. QED  BY <1>1, <3>2, <3>3
  <2>3. QED  BY <2>1, <2>2
<1>7. CASE Idles
  <2>1. started_frames' = N + 0 /\ started_frames = N /\ ~out_start_hs(TRUE)
    BY <1>4, <1>5, <1>7 DEF Idles
  <2>2. ~Starts(f, k)  BY <2>1 DEF Starts
  <2>3. started_frames' = started_frames
    <3> HIDE DEF N
    <3>1. QED  BY <1>1, <2>1
  <2>4. QED  BY <1>2, <1>3, <1>6, <2>1, <2>2, <2>3
<1>8. CASE Starts(f, k)
  <2>1. started_frames' = N + 1 /\ started_frames = N /\ out_start_hs(TRUE)
    BY <1>4, <1>5, <1>8 DEF Starts
  <2>2. QED  BY <1>2, <1>3, <1>6, <1>8, <2>1
<1>9. CASE HeaderEnds(f, k) \/ WordTaken(f, k)
  <2>1. started_frames' = N + 1 /\ started_frames = N + 1 /\ ~out_start_hs(TRUE)
    BY <1>4, <1>5, <1>9 DEF HeaderEnds, WordTaken
  <2>2. ~Starts(f, k)  BY <2>1 DEF Starts
  <2>3. QED  BY <1>2, <1>3, <1>6, <2>1, <2>2
<1>10. CASE FrameEnds(f, k)
  <2>1. started_frames' = k + 0 /\ started_frames = k /\ ~out_start_hs(TRUE)
    BY <1>1, <1>2, <1>4, <1>5, <1>10 DEF FrameEnds
  <2>2. ~Starts(f, k)  BY <2>1 DEF Starts
  <2>3. started_frames' = started_frames
    <3> HIDE DEF N
    <3>1. QED  BY <1>1, <2>1
  <2>4. QED  BY <1>2, <1>3, <1>6, <2>1, <2>2, <2>3
<1>11. QED  BY <1>7, <1>8, <1>9, <1>10 DEF Moves

(* A window of numbered frames holds numbers. *)
LEMMA WindowNumbers ==
    ASSUME NEW q, NEW acc, NEW g \in Nat, Len(q) \in Nat, Len(acc) \in Nat,
           \A k \in 1..Len(acc) : acc[k].frame = k
    PROVE  /\ Window(q, acc, g) =>
                Len(q) = Len(acc) - g /\ \A i \in 1..Len(q) : q[i] = g + i
           /\ Len(q) = Len(acc) - g /\ (\A i \in 1..Len(q) : q[i] = g + i) => Window(q, acc, g)
<1>1. ASSUME Len(q) = Len(acc) - g, NEW i \in 1..Len(q)
      PROVE  acc[g + i].frame = g + i
  <2>1. g + i \in 1..Len(acc)  BY <1>1
  <2>2. QED  BY <2>1
<1>2. QED  BY <1>1 DEF Window

(* Headers are popped one cycle after the output began with them. *)
LEMMA HeadersStep ==
    ASSUME Side, Flow, NEW in \in Inputs, NEW ts, InputEdge(in), QueuesEdge(in, ts, TRUE), Numbered',
           NEW f, f = this_frame, NEW k, k = this_number, Moves(f, k)
    PROVE  HeadersInOrder'
<1> DEFINE s == started_frames
           pop == header_pop_d1_reg
           g == s - Count(pop)
           push == s_axis_frame_end_hs(in)
           x == ending_frame(in)
<1>1. /\ s \in Nat /\ s <= Len(accepted)
      /\ out_start_hs(TRUE) => Starts(f, k) /\ started_frames' = s + 1
      /\ ~out_start_hs(TRUE) => ~Starts(f, k) /\ started_frames' = s
      /\ ~FrameEnds(f, k) => sent' = sent /\ Len(sent') + 1 = k
  BY StartedStep
<1>2. /\ pop => out_state_reg = "OUT_HEADER"
      /\ Len(header_fifo) = Len(accepted) - g
      /\ \A i \in 1..Len(header_fifo) : header_fifo[i] = g + i
  BY DEF Flow, HeadersInOrder
<1>3. /\ header_fifo \in Seq(FrameIds) /\ accepted \in Seq(AcceptedFrames) /\ pop \in BOOLEAN
      /\ push \in BOOLEAN /\ Len(header_fifo) \in Nat /\ Len(accepted) \in Nat
      /\ HEADER_FIFO_DEPTH \in Nat /\ \A j \in 1..Len(accepted) : accepted[j].frame = j
  BY WrapperAssumption
  DEF Side, TypeOK, QueueTypes, s_axis_frame_end_hs, Flow, Numbered
<1>4. g \in Nat /\ g + Count(pop) = s /\ (pop => header_fifo # <<>>)
  <2>1. CASE pop
    <3>1. Count(pop) = 1 /\ s = Len(sent) + 1
      BY <1>2, <2>1 DEF Count, started_frames
    <3>2. Len(sent) \in Nat  BY InHand
    <3>3. Len(header_fifo) = Len(accepted) - (s - 1)  BY <1>2, <3>1
    <3> HIDE DEF s
    <3>4. s - 1 \in Nat /\ (s - 1) + 1 = s /\ Len(header_fifo) >= 1
      BY <1>1, <1>3, <3>1, <3>2, <3>3
    <3>5. header_fifo # <<>>  BY <1>3, <3>4, EmptySeq
    <3>6. QED  BY <3>1, <3>4, <3>5
  <2>2. CASE ~pop
    <3>1. Count(pop) = 0  BY <2>2 DEF Count
    <3> HIDE DEF s
    <3>2. s - 0 \in Nat /\ (s - 0) + 0 = s  BY <1>1
    <3>3. QED  BY <2>2, <3>1, <3>2
  <2>3. QED  BY <2>1, <2>2
<1>5. /\ push => /\ x \in AcceptedFrames /\ accepted' = Append(accepted, x)
                 /\ x.frame = in_frame /\ x.frame \in FrameIds
                 /\ Len(header_fifo) < HEADER_FIFO_DEPTH
      /\ ~push => accepted' = accepted
  <2>1. push => x \in AcceptedFrames /\ accepted' = Append(accepted, x)  BY InputStep
  <2>2. x.frame = in_frame  BY DEF ending_frame
  <2>3. x \in AcceptedFrames => x.frame \in FrameIds
    BY WrapperAssumption DEF AcceptedFrames, FrameIds
  <2>4. push => Len(header_fifo) < HEADER_FIFO_DEPTH
    BY PushHasRoom DEF s_axis_frame_end_hs
  <2>5. ~push => accepted' = accepted  BY InputStep
  <2>6. QED  BY <2>1, <2>2, <2>3, <2>4, <2>5
<1>6. header_fifo' = QueueEdge(header_fifo, HEADER_FIFO_DEPTH, push, x.frame, pop)
      /\ header_pop_d1_reg' = out_start_hs(TRUE)
  BY DEF QueuesEdge, ending_frame
<1> HIDE DEF g, push, x, pop
<1>7. Window(header_fifo, accepted, g)  BY <1>2, <1>3, <1>4, WindowNumbers
<1>8. Window(header_fifo', accepted', s)
  <2>1. Window(QueueEdge(header_fifo, HEADER_FIFO_DEPTH, push, x.frame, pop), accepted',
               g + Count(pop))
    BY <1>3, <1>4, <1>5, <1>7, WindowStep
  <2>2. QED  BY <1>4, <1>6, <2>1
<1>9. Len(header_fifo') = Len(accepted') - s
      /\ \A i \in 1..Len(header_fifo') : header_fifo'[i] = s + i
  <2>1. Len(header_fifo') \in Nat
    <3>1. Moved(FrameIds, header_fifo, HEADER_FIFO_DEPTH, push, x.frame, pop,
                QueueEdge(header_fifo, HEADER_FIFO_DEPTH, push, x.frame, pop))
      BY <1>3, <1>4, <1>5, QueueStep
    <3>2. QED  BY <1>6, <3>1 DEF Moved
  <2>2. Len(accepted') \in Nat  BY AcceptedKept
  <2>3. \A j \in 1..Len(accepted') : accepted'[j].frame = j  BY DEF Numbered
  <2> HIDE DEF s
  <2>4. QED  BY <1>1, <1>8, <2>1, <2>2, <2>3, WindowNumbers
<1>10. CASE out_start_hs(TRUE)
  <2>1. Starts(f, k) /\ started_frames' = s + 1 /\ Len(sent') + 1 = k
    BY <1>1, <1>10 DEF Starts, FrameEnds
  <2>2. header_pop_d1_reg' = TRUE
    <3>1. out_start_hs(TRUE) = TRUE  BY <1>10 DEF out_start_hs
    <3>2. QED  BY <1>6, <3>1
  <2>3. started_frames' - Count(header_pop_d1_reg') = s
    <3>1. Count(header_pop_d1_reg') = 1  BY <2>2 DEF Count
    <3> HIDE DEF s
    <3>2. (s + 1) - 1 = s  BY <1>1
    <3>3. QED  BY <2>1, <3>1, <3>2
  <2>4. out_state_reg' = "OUT_HEADER" /\ out_header_reg' = k  BY <2>1 DEF Starts
  <2>5. QED  BY <1>9, <2>1, <2>3, <2>4 DEF HeadersInOrder
<1>11. CASE ~out_start_hs(TRUE)
  <2>1. started_frames' = s /\ out_state_reg' # "OUT_HEADER"
    BY <1>1, <1>11 DEF Moves, Idles, HeaderEnds, WordTaken, FrameEnds
  <2>2. header_pop_d1_reg' = FALSE
    <3>1. out_start_hs(TRUE) = FALSE  BY <1>11 DEF out_start_hs
    <3>2. QED  BY <1>6, <3>1
  <2>3. started_frames' - Count(header_pop_d1_reg') = s
    <3>1. Count(header_pop_d1_reg') = 0  BY <2>2 DEF Count
    <3> HIDE DEF s
    <3>2. s - 0 = s  BY <1>1
    <3>3. QED  BY <2>1, <3>1, <3>2
  <2>4. QED  BY <1>9, <2>1, <2>2, <2>3 DEF HeadersInOrder
<1>12. QED  BY <1>10, <1>11

(* The sideband is popped when the output begins with its frame, and then  *)
(* held until the frame has left.                                          *)
LEMMA TuserHeld ==
    ASSUME Side, Flow, OutputEdge(TRUE), NEW f, f = this_frame, NEW k, k = this_number, Moves(f, k)
    PROVE  /\ out_frame_active_reg' <=> out_state_reg' # "OUT_IDLE"
           /\ out_frame_active_reg' => out_frame_tuser_reg' = Len(sent') + 1
<1>1. out_axis_hs(TRUE) =>
        out_frame_tuser_reg' = out_tuser_int /\ out_frame_active_reg' = ~out_tlast_int
  BY DEF OutputEdge
<1>2. CASE Idles
  <2>1. out_state_reg = "OUT_IDLE" /\ out_state_reg' = "OUT_IDLE" /\ ~out_axis_hs(TRUE)
    BY <1>2 DEF Idles, out_start_hs
  <2>2. out_frame_active_reg' = out_frame_active_reg  BY <2>1, Zenon DEF OutputEdge
  <2>3. ~out_frame_active_reg  BY <2>1 DEF Flow, TuserInOrder
  <2>4. QED  BY <2>1, <2>2, <2>3
<1>3. CASE Starts(f, k) \/ HeaderEnds(f, k)
  <2>1. out_axis_hs(TRUE) /\ ~out_tlast_int /\ out_state_reg' # "OUT_IDLE" /\ Len(sent') + 1 = k
    BY <1>3, OutputReady, StartedStep
    DEF Starts, HeaderEnds, FrameEnds, out_start_hs, out_tlast_int
  <2>2. out_tuser_int = k
    BY <1>3, HeadsInHand, OutputReady DEF Starts, HeaderEnds
  <2>3. out_frame_active_reg' = TRUE /\ out_frame_tuser_reg' = k  BY <1>1, <2>1, <2>2
  <2>4. QED  BY <2>1, <2>3
<1>4. CASE WordTaken(f, k) \/ FrameEnds(f, k)
  <2>1. out_axis_hs(TRUE) /\ out_state_reg = "OUT_ENC" /\ m_axis # NoWord
    BY <1>4, OutputReady DEF WordTaken, FrameEnds, Flow, Output
  <2>2. m_axis.last = (words_taken = BeatsOf(f) + 2) /\ words_taken \in 0..(BeatsOf(f) + 2)
        /\ f \in AcceptedFrames
    BY <2>1, WordInHand
  <2>3. CASE WordTaken(f, k)
    <3> DEFINE n == BeatsOf(f)
               w == words_taken
    <3>1. w < n + 2 /\ out_state_reg' = "OUT_ENC"  BY <2>3 DEF WordTaken
    <3>2. w # n + 2
      <4>1. n \in Nat  BY <2>2, BeatsOfFrame
      <4> HIDE DEF n, w
      <4>2. QED  BY <2>2, <3>1, <4>1 DEF n, w
    <3>3. m_axis.last = FALSE  BY <2>2, <3>2
    <3>4. out_tlast_int = FALSE  BY <3>3 DEF out_tlast_int
    <3>5. out_tuser_int = k  BY <2>1, HeadsInHand
    <3>6. Len(sent') + 1 = k  BY <2>3, <3>1, StartedStep DEF FrameEnds
    <3>7. out_frame_active_reg' = TRUE /\ out_frame_tuser_reg' = k
      BY <1>1, <2>1, <3>4, <3>5
    <3>8. QED  BY <3>1, <3>6, <3>7
  <2>4. CASE FrameEnds(f, k)
    <3>1. m_axis.last = TRUE /\ out_state_reg' = "OUT_IDLE"  BY <2>2, <2>4 DEF FrameEnds
    <3>2. out_tlast_int = TRUE  BY <2>1, <3>1 DEF out_tlast_int
    <3>3. out_frame_active_reg' = FALSE  BY <1>1, <2>1, <3>2
    <3>4. QED  BY <3>1, <3>3
  <2>5. QED  BY <1>4, <2>3, <2>4
<1>5. QED  BY <1>2, <1>3, <1>4 DEF Moves

LEMMA TuserStep ==
    ASSUME Side, Flow, ~RUNTS, NEW in \in Inputs, NEW ts, InputEdge(in), QueuesEdge(in, ts, TRUE),
           OutputEdge(TRUE), Numbered', NEW f, f = this_frame, NEW k, k = this_number, Moves(f, k)
    PROVE  TuserInOrder'
<1> DEFINE s == started_frames
           pop == tuser_pop(TRUE)
           start == out_start_hs(TRUE)
           push == s_axis_frame_end_hs(in)
           x == ending_frame(in)
<1>1. /\ s \in Nat /\ s <= Len(accepted)
      /\ start => started_frames' = s + 1
      /\ ~start => started_frames' = s
  BY StartedStep
<1>2. /\ Len(tuser_fifo) = Len(accepted) - s
      /\ \A i \in 1..Len(tuser_fifo) : tuser_fifo[i] = s + i
  BY DEF Flow, TuserInOrder
<1>3. /\ tuser_fifo \in Seq(FrameIds) /\ accepted \in Seq(AcceptedFrames)
      /\ push \in BOOLEAN /\ Len(tuser_fifo) \in Nat /\ Len(accepted) \in Nat
      /\ TUSER_FIFO_DEPTH \in Nat /\ \A j \in 1..Len(accepted) : accepted[j].frame = j
  BY WrapperAssumption
  DEF Side, TypeOK, QueueTypes, s_axis_frame_end_hs, Flow, Numbered
<1>4. pop \in BOOLEAN /\ (pop => tuser_fifo # <<>>) /\ (pop <=> start)
  <2>1. pop \in BOOLEAN /\ (pop => tuser_fifo # <<>>)  BY DEF tuser_pop
  <2>2. start => tuser_fifo # <<>>  BY OutputReady
  <2>3. out_frame_active_reg <=> out_state_reg # "OUT_IDLE"  BY DEF Flow, TuserInOrder
  <2>4. QED  BY <2>1, <2>2, <2>3 DEF tuser_pop, out_start_hs
<1>5. s + Count(pop) = started_frames'
  <2>1. CASE pop
    <3>1. Count(pop) = 1 /\ started_frames' = s + 1  BY <1>1, <1>4, <2>1 DEF Count
    <3>2. QED  BY <3>1
  <2>2. CASE ~pop
    <3>1. Count(pop) = 0 /\ started_frames' = s  BY <1>1, <1>4, <2>2 DEF Count
    <3> HIDE DEF s
    <3>2. s + 0 = s  BY <1>1
    <3>3. QED  BY <3>1, <3>2
  <2>3. QED  BY <2>1, <2>2
<1>6. /\ push => /\ x \in AcceptedFrames /\ accepted' = Append(accepted, x)
                 /\ x.frame = in_frame_tuser_reg' /\ x.frame \in FrameIds
                 /\ Len(tuser_fifo) < TUSER_FIFO_DEPTH
      /\ ~push => accepted' = accepted
      /\ (in_axis_hs(in) /\ in.last) = push
  <2>1. push => x \in AcceptedFrames /\ accepted' = Append(accepted, x)  BY InputStep
  <2>2. (push => x.frame = in_frame_tuser_reg') /\ (in_axis_hs(in) /\ in.last) = push
    BY NumberedStep
  <2>3. x \in AcceptedFrames => x.frame \in FrameIds
    BY WrapperAssumption DEF AcceptedFrames, FrameIds
  <2>4. push => Len(tuser_fifo) < TUSER_FIFO_DEPTH
    BY PushHasRoom DEF s_axis_frame_end_hs
  <2>5. ~push => accepted' = accepted  BY InputStep
  <2>6. QED  BY <2>1, <2>2, <2>3, <2>4, <2>5
<1>7. tuser_fifo' = QueueEdge(tuser_fifo, TUSER_FIFO_DEPTH, push, in_frame_tuser_reg', pop)
  <2>1. tuser_fifo' = QueueEdge(tuser_fifo, TUSER_FIFO_DEPTH, in_axis_hs(in) /\ in.last,
                                in_frame_tuser_reg', pop)
    BY DEF QueuesEdge
  <2>2. QED  BY <1>6, <2>1, Zenon
<1>8. tuser_fifo' = QueueEdge(tuser_fifo, TUSER_FIFO_DEPTH, push, x.frame, pop)
  <2>1. CASE push  BY <1>6, <1>7, <2>1
  <2>2. CASE ~push
    <3>1. \A u, v : QueueEdge(tuser_fifo, TUSER_FIFO_DEPTH, push, u, pop)
                    = QueueEdge(tuser_fifo, TUSER_FIFO_DEPTH, push, v, pop)
      <4> HIDE DEF push, pop
      <4>1. QED  BY <1>3, <1>4, <2>2 DEF QueueEdge
    <3>2. QED  BY <1>7, <3>1
  <2>3. QED  BY <2>1, <2>2
<1> HIDE DEF push, x, pop
<1>9. Window(tuser_fifo, accepted, s)
  <2> HIDE DEF s
  <2>1. QED  BY <1>1, <1>2, <1>3, WindowNumbers
<1>10. Window(tuser_fifo', accepted', started_frames')
  <2>1. Window(QueueEdge(tuser_fifo, TUSER_FIFO_DEPTH, push, x.frame, pop), accepted',
               s + Count(pop))
    <3> HIDE DEF s
    <3>1. QED  BY <1>1, <1>3, <1>4, <1>6, <1>9, WindowStep
  <2>2. QED  BY <1>5, <1>8, <2>1
<1>11. Len(tuser_fifo') = Len(accepted') - started_frames'
       /\ \A i \in 1..Len(tuser_fifo') : tuser_fifo'[i] = started_frames' + i
  <2>1. Len(tuser_fifo') \in Nat
    <3>1. Moved(FrameIds, tuser_fifo, TUSER_FIFO_DEPTH, push, x.frame, pop,
                QueueEdge(tuser_fifo, TUSER_FIFO_DEPTH, push, x.frame, pop))
      BY <1>3, <1>4, <1>6, QueueStep
    <3>2. QED  BY <1>8, <3>1 DEF Moved
  <2>2. Len(accepted') \in Nat  BY AcceptedKept
  <2>3. \A j \in 1..Len(accepted') : accepted'[j].frame = j  BY DEF Numbered
  <2>4. started_frames' \in Nat
    <3> HIDE DEF s, start
    <3>1. QED  BY <1>1
  <2>5. QED  BY <1>10, <2>1, <2>2, <2>3, <2>4, WindowNumbers
<1>12. /\ out_frame_active_reg' <=> out_state_reg' # "OUT_IDLE"
       /\ out_frame_active_reg' => out_frame_tuser_reg' = Len(sent') + 1
  BY TuserHeld
<1>13. QED  BY <1>11, <1>12 DEF TuserInOrder

(* A beat of at most 8 bytes joins at most 7. *)
LEMMA CompactorStep ==
    ASSUME Side, Flow, OutputEdge(TRUE), NEW f, f = this_frame, NEW k, k = this_number, Moves(f, k)
    PROVE  Compactor'
<1>0. SUFFICES ASSUME NEW p, p = popped(TRUE), NEW b, b = out_bytes_int PROVE Compactor'
  OBVIOUS
<1>1. count_reg \in Nat /\ count_reg <= 15 /\ (last_pending_reg => out_state_reg = "OUT_IDLE")
      /\ (last_pending_reg => count_reg > 0)
  <2>1. count_reg \in 0..64 /\ count_reg <= 15  BY DEF Side, TypeOK, BUFFER_BYTES, Flow, Compactor
  <2>2. count_reg \in Nat  BY <2>1
  <2>3. QED  BY <2>1, <2>2 DEF Flow, Compactor
<1>2. /\ p \in Nat /\ p <= count_reg
      /\ ~last_pending_reg => count_reg - p <= 7
      /\ out_axis_hs(TRUE) => b \in 1..8 /\ ~last_pending_reg
  BY <1>0, OutputReady
<1>3. CASE out_axis_hs(TRUE)
  <2>1. count_reg' = (count_reg - p) + b  BY <1>0, <1>3, Zenon DEF OutputEdge
  <2>2. b \in 1..8 /\ count_reg - p <= 7 /\ p \in Nat /\ p <= count_reg  BY <1>2, <1>3
  <2>3. count_reg \in Nat  BY <1>1
  <2>4. count_reg' <= 15 /\ count_reg' > 0  BY <2>1, <2>2, <2>3
  <2>5. last_pending_reg' => out_tlast_int
    <3>1. last_pending_reg' <=> \/ out_axis_hs(TRUE) /\ out_tlast_int
                                \/ last_pending_reg /\ ~(compact_last /\ TRUE)
      BY DEF OutputEdge
    <3>2. QED  BY <1>2, <1>3, <3>1
  <2>6. out_tlast_int => out_state_reg' = "OUT_IDLE"
    <3>1. out_tlast_int => out_state_reg = "OUT_ENC" /\ m_axis.last  BY DEF out_tlast_int
    <3>2. ASSUME out_state_reg = "OUT_ENC", m_axis.last PROVE out_state_reg' = "OUT_IDLE"
      BY <1>3, <3>2, Zenon DEF OutputEdge
    <3>3. QED  BY <3>1, <3>2
  <2>7. QED  BY <2>4, <2>5, <2>6 DEF Compactor
<1>4. CASE ~out_axis_hs(TRUE)
  <2>1. count_reg' = count_reg - p  BY <1>0, <1>4, Zenon DEF OutputEdge
  <2>2. count_reg' <= 15
    <3>1. p \in Nat /\ count_reg \in Nat /\ count_reg <= 15  BY <1>1, <1>2
    <3>2. QED  BY <2>1, <3>1
  <2>3. out_state_reg = "OUT_IDLE" /\ out_state_reg' = "OUT_IDLE"
    <3>1. out_state_reg = "OUT_IDLE"  BY <1>4, OutputReady
    <3>2. ~out_start_hs(TRUE)  BY <1>4 DEF out_start_hs
    <3>3. QED  BY <3>1, <3>2 DEF Moves, Idles, Starts, HeaderEnds, WordTaken, FrameEnds
  <2>4. last_pending_reg' => last_pending_reg /\ ~compact_last
    <3>1. last_pending_reg' <=> \/ out_axis_hs(TRUE) /\ out_tlast_int
                                \/ last_pending_reg /\ ~(compact_last /\ TRUE)
      BY DEF OutputEdge
    <3>2. QED  BY <1>4, <3>1
  <2>5. ASSUME last_pending_reg, ~compact_last PROVE count_reg' > 0
    <3>1. count_reg > 0 /\ count_reg \in Nat  BY <1>1, <2>5
    <3>2. compact_valid  BY <2>5, <3>1 DEF compact_valid
    <3>3. count_reg > 8  BY <2>5, <3>1, <3>2 DEF compact_last
    <3>4. p = 8  BY <1>0, <3>2, <3>3 DEF popped, AtMost
    <3>5. QED  BY <2>1, <3>1, <3>3, <3>4
  <2>6. QED  BY <2>2, <2>3, <2>4, <2>5 DEF Compactor
<1>5. QED  BY <1>3, <1>4

(***************************************************************************)
(* One edge: macsec_tag_append                                             *)
(***************************************************************************)

(* The frame in hand stays in hand until its last word has left. *)
LEMMA KeptFrame ==
    ASSUME Side, Flow, NEW in \in Inputs, InputEdge(in), NEW f, f = this_frame,
           NEW k, k = this_number, Moves(f, k), ~FrameEnds(f, k), k \in 1..Len(accepted)
    PROVE  /\ this_number' = k /\ this_frame' = f /\ this_words' = Encrypted(f, k)
           /\ f \in AcceptedFrames /\ f.frame = k /\ k \in Nat
<1>1. this_number' = k  BY StartedStep DEF this_number
<1>2. accepted'[k] = accepted[k]  BY AcceptedKept
<1>3. this_frame' = f  BY <1>1, <1>2 DEF this_frame
<1>4. this_words' = Encrypted(f, k)  BY <1>1, <1>3 DEF this_words
<1>5. f \in AcceptedFrames /\ f.frame = k /\ k \in Nat  BY InHand
<1>6. QED  BY <1>1, <1>3, <1>4, <1>5

(* The words taken, and when macsec_tag_append sees its output ready. *)
LEMMA WordsStep ==
    ASSUME Side, Flow, NEW f, f = this_frame, NEW k, k = this_number, Moves(f, k),
           NEW ready, out_state_reg = "OUT_ENC" => ready = TRUE,
           out_state_reg # "OUT_ENC" => ready = FALSE
    PROVE  /\ words_taken \in Nat
           /\ ~WordTaken(f, k) /\ ~FrameEnds(f, k) =>
                ready = FALSE /\ words_taken = 0 /\ words_taken' = 0
           /\ WordTaken(f, k) => ready = TRUE /\ words_taken' = words_taken + 1
           /\ FrameEnds(f, k) => ready = TRUE
<1>1. /\ out_state_reg = "OUT_ENC" => ready = TRUE
      /\ out_state_reg # "OUT_ENC" => ready = FALSE
  OBVIOUS
<1>2. Len(sending) \in Nat /\ (out_state_reg = "OUT_ENC" => Len(sending) >= 2)
  BY DEF Flow, Output
<1>3. /\ out_state_reg = "OUT_ENC" => words_taken = Len(sending) - 2
      /\ out_state_reg # "OUT_ENC" => words_taken = 0
      /\ out_state_reg' = "OUT_ENC" => words_taken' = Len(sending') - 2
      /\ out_state_reg' # "OUT_ENC" => words_taken' = 0
  BY DEF words_taken
<1>4. words_taken \in Nat
  <2>1. CASE out_state_reg = "OUT_ENC"  BY <1>2, <1>3, <2>1
  <2>2. CASE out_state_reg # "OUT_ENC"  BY <1>3, <2>2
  <2>3. QED  BY <2>1, <2>2
<1>5. CASE Idles \/ Starts(f, k)
  <2>1. out_state_reg = "OUT_IDLE" /\ out_state_reg' # "OUT_ENC"  BY <1>5 DEF Idles, Starts
  <2>2. ~WordTaken(f, k) /\ ~FrameEnds(f, k)  BY <2>1 DEF WordTaken, FrameEnds
  <2>3. QED  BY <1>1, <1>3, <1>4, <2>1, <2>2
<1>6. CASE HeaderEnds(f, k)
  <2>1. out_state_reg = "OUT_HEADER" /\ out_state_reg' = "OUT_ENC" /\ sending' = Upto(f, k, 2)
    BY <1>6 DEF HeaderEnds
  <2>2. ~WordTaken(f, k) /\ ~FrameEnds(f, k)  BY <2>1 DEF WordTaken, FrameEnds
  <2>3. Len(sending') = 2  BY <2>1, UptoNext
  <2>4. words_taken' = 0  BY <1>3, <2>1, <2>3
  <2>5. QED  BY <1>1, <1>3, <1>4, <2>1, <2>2, <2>4
<1>7. CASE WordTaken(f, k)
  <2>1. /\ out_state_reg = "OUT_ENC" /\ out_state_reg' = "OUT_ENC"
        /\ sending' = Upto(f, k, words_taken + 3) /\ words_taken < BeatsOf(f) + 2
    BY <1>7 DEF WordTaken
  <2>2. words_taken' = words_taken + 1
    <3>1. Len(sending') = words_taken + 3  BY <1>4, <2>1, UptoNext
    <3>2. QED  BY <1>3, <1>4, <2>1, <3>1
  <2>3. ~FrameEnds(f, k)
    <3>1. f \in AcceptedFrames  BY <2>1, WordInHand DEF Flow, Output
    <3>2. BeatsOf(f) \in Nat  BY <3>1, BeatsOfFrame
    <3>3. words_taken # BeatsOf(f) + 2  BY <1>4, <2>1, <3>2
    <3>4. QED  BY <3>3 DEF FrameEnds
  <2>4. QED  BY <1>1, <1>4, <1>7, <2>1, <2>2, <2>3
<1>8. CASE FrameEnds(f, k)
  <2>1. out_state_reg = "OUT_ENC" /\ out_state_reg' = "OUT_IDLE"  BY <1>8 DEF FrameEnds
  <2>2. ~WordTaken(f, k)  BY <2>1 DEF WordTaken
  <2>3. QED  BY <1>1, <1>4, <1>8, <2>1, <2>2
<1>9. QED  BY <1>5, <1>6, <1>7, <1>8 DEF Moves

(* Nothing leaves while the output register is empty. *)
LEMMA NothingLeaves ==
    ASSUME Flow, NEW f, NEW k, Moves(f, k), m_axis = NoWord
    PROVE  Idles /\ ~Starts(f, k) /\ ~WordTaken(f, k) /\ ~FrameEnds(f, k)
<1>1. out_state_reg = "OUT_IDLE"  BY DEF Flow, Output
<1>2. QED  BY <1>1 DEF Moves, Starts, HeaderEnds, WordTaken, FrameEnds

(* The tags taken: one more than before when the return bridge let go of   *)
(* one, and it is the tag of the next frame.                               *)
tag_used == state_reg = "ST_WAITTAG" /\ tag_pending_valid_reg

LEMMA PendingStep ==
    ASSUME Side, Flow, NEW in \in Inputs, InputEdge(in), NEW ts \in BOOLEAN, ts => tags # <<>>,
           PendingEdge(enc_tag(ts)),
           ts /\ s_tag_ready => tagged_frames' = tagged_frames + 1,
           ~(ts /\ s_tag_ready) => tagged_frames' = tagged_frames
    PROVE  /\ tagged_frames' = Len(sent) + Count(busy) + Count(tag_used)
                               + Count(tag_pending_valid_reg')
           /\ tag_pending_valid_reg' =>
                pending' = Meta(accepted'[tagged_frames'], tagged_frames')
<1> DEFINE T == tagged_frames
           N == Len(sent)
           a == Count(busy)
           n == Len(accepted)
<1>1. /\ T \in Nat /\ n \in Nat /\ Len(tags) \in Nat /\ encrypted_frames \in Nat
      /\ Len(to_cipher) \in Nat /\ T + Len(tags) = encrypted_frames
      /\ encrypted_frames + Len(to_cipher) = n /\ N \in Nat
  BY Counts, InHand
<1>2. a \in Nat  BY DEF Count
<1>3. T = N + a + Count(tag_pending_valid_reg)
      /\ (tag_pending_valid_reg => pending = Meta(accepted[T], T))
  BY DEF Flow, TagAppend, TagsHeld
<1>4. \A i \in 1..n : accepted'[i] = accepted[i]  BY AcceptedKept
<1> HIDE DEF T, N, a, n
<1>5. CASE ts /\ s_tag_ready
  <2>1. /\ tag_pending_valid_reg = FALSE /\ ~tag_used /\ tagged_frames' = T + 1
    BY <1>5 DEF s_tag_ready, tag_used, T, Side, QueueTypes
  <2>2. enc_tag(ts) # NoMeta /\ enc_tag(ts) = Meta(accepted[T + 1], T + 1)
    BY <1>5, ShownTag DEF T
  <2>3. pending' = enc_tag(ts) /\ tag_pending_valid_reg' = TRUE
    BY <1>5, <2>2 DEF PendingEdge
  <2>4. Count(tag_pending_valid_reg) = 0 /\ Count(tag_used) = 0
        /\ Count(tag_pending_valid_reg') = 1
    BY <2>1, <2>3 DEF Count
  <2>5. tags \in Seq(TagRecords)  BY DEF Side, QueueTypes, TagRecords
  <2>6. Len(tags) >= 1  BY <1>5, <2>5, EmptySeq, <1>1
  <2>7. T + 1 \in 1..n  BY <1>1, <2>6
  <2>8. tagged_frames' = N + a + 0 + 1  BY <1>1, <1>2, <1>3, <2>1, <2>4
  <2>9. pending' = Meta(accepted'[tagged_frames'], tagged_frames')
    BY <1>4, <2>1, <2>2, <2>3, <2>7
  <2>10. QED  BY <2>4, <2>8, <2>9 DEF N, a
<1>6. CASE ~(ts /\ s_tag_ready)
  <2>1. tagged_frames' = T  BY <1>6 DEF T
  <2>2. ~(enc_tag(ts) # NoMeta /\ s_tag_ready)  BY <1>6, ShownTag
  <2>3. /\ pending' = pending
        /\ tag_pending_valid_reg' = (tag_pending_valid_reg /\ ~tag_used)
    BY <2>2, Zenon DEF PendingEdge, tag_used
  <2>4. CASE tag_used
    <3>1. tag_pending_valid_reg' = FALSE /\ tag_pending_valid_reg = TRUE
      BY <2>3, <2>4 DEF tag_used, Side, QueueTypes
    <3>2. Count(tag_pending_valid_reg) = 1 /\ Count(tag_used) = 1
          /\ Count(tag_pending_valid_reg') = 0
      BY <2>4, <3>1 DEF Count
    <3>3. T = N + a + 1 + 0  BY <1>1, <1>2, <1>3, <3>2
    <3>4. QED  BY <2>1, <3>1, <3>2, <3>3 DEF N, a
  <2>5. CASE ~tag_used
    <3>1. tag_pending_valid_reg' = tag_pending_valid_reg
      BY <2>3, <2>5 DEF Side, QueueTypes
    <3>2. Count(tag_used) = 0 /\ Count(tag_pending_valid_reg') = Count(tag_pending_valid_reg)
          /\ Count(tag_pending_valid_reg) \in Nat
      BY <2>5, <3>1 DEF Count
    <3>3. T = N + a + 0 + Count(tag_pending_valid_reg')  BY <1>1, <1>2, <1>3, <3>2
    <3>4. tag_pending_valid_reg' => pending' = Meta(accepted'[tagged_frames'], tagged_frames')
      <4>1. SUFFICES ASSUME tag_pending_valid_reg
                     PROVE  pending' = Meta(accepted'[T], T)
        BY <2>1, <3>1
      <4>2. Count(tag_pending_valid_reg) = 1  BY <4>1 DEF Count
      <4>3. T \in 1..n  BY <1>1, <1>2, <1>3, <4>2
      <4>4. QED  BY <1>3, <1>4, <2>3, <4>1, <4>3
    <3>5. QED  BY <2>1, <3>2, <3>3, <3>4 DEF N, a
  <2>6. QED  BY <2>4, <2>5
<1>7. QED  BY <1>5, <1>6

(* The tags and payloads taken, after an edge that uses a tag or not. *)
LEMMA TagsHeldStep ==
    ASSUME Side, Flow, NEW in \in Inputs, InputEdge(in), NEW ts \in BOOLEAN, ts => tags # <<>>,
           PendingEdge(enc_tag(ts)),
           ts /\ s_tag_ready => tagged_frames' = tagged_frames + 1,
           ~(ts /\ s_tag_ready) => tagged_frames' = tagged_frames,
           Len(sent') + Count(busy') = Len(sent) + Count(busy) + Count(tag_used),
           captured_frames' = Len(sent') + Count(state_reg' # "ST_CAPTURE"),
           busy' => current' = Meta(this_frame', this_number'),
           state_reg' # "ST_CAPTURE" => sent_bytes' = 0
    PROVE  TagsHeld'
  BY PendingStep DEF TagsHeld

(* Beats of the frame f, from its (j+1)-st on, in a queue. *)
Holds(q, f, j) ==
    /\ Len(q) = BeatsOf(f) - j
    /\ \A i \in 1..Len(q) : q[i] = Beat(f, j + i)

LEMMA NextBeat ==
    ASSUME NEW f \in AcceptedFrames, NEW j \in Nat, NEW q \in Seq(CaptureBeats), Holds(q, f, j)
    PROVE  /\ j < BeatsOf(f) =>
                q # <<>> /\ Head(q) = Beat(f, j + 1) /\ Holds(Tail(q), f, j + 1)
           /\ j = BeatsOf(f) => q = <<>>
<1> DEFINE n == BeatsOf(f)
           l == Len(q)
<1>1. n \in Nat /\ l \in Nat /\ l = n - j  BY BeatsOfFrame DEF Holds
<1>2. \A i \in 1..l : q[i] = Beat(f, j + i)  BY DEF Holds
<1>3. ASSUME j < n
      PROVE  q # <<>> /\ Head(q) = Beat(f, j + 1) /\ Holds(Tail(q), f, j + 1)
  <2>1. l >= 1 /\ 1 \in 1..l
    <3> HIDE DEF n, l
    <3>1. QED  BY <1>1, <1>3
  <2>2. q # <<>>  BY <2>1, EmptySeq
  <2>3. Head(q) = q[1] /\ Len(Tail(q)) = l - 1 /\ \A i \in 1..(l - 1) : Tail(q)[i] = q[i + 1]
    BY <2>2, HeadTailProperties
  <2> DEFINE t == Tail(q)
  <2>4. Len(t) = n - (j + 1)
    <3>1. Len(t) = l - 1  BY <2>3
    <3> HIDE DEF n, l, t
    <3>2. QED  BY <1>1, <3>1
  <2>5. ASSUME NEW i \in 1..Len(t) PROVE t[i] = Beat(f, (j + 1) + i)
    <3>1. Len(t) = l - 1 /\ \A m \in 1..(l - 1) : t[m] = q[m + 1]  BY <2>3
    <3> HIDE DEF n, l, t
    <3>2. i \in 1..(l - 1) /\ i + 1 \in 1..l /\ j + (i + 1) = (j + 1) + i  BY <1>1, <3>1
    <3>3. t[i] = q[i + 1] /\ q[i + 1] = Beat(f, j + (i + 1))  BY <1>2, <3>1, <3>2
    <3>4. QED  BY <3>2, <3>3
  <2>6. QED  BY <1>2, <2>1, <2>2, <2>3, <2>4, <2>5 DEF Holds
<1>4. ASSUME j = n PROVE q = <<>>
  <2>1. l = 0
    <3> HIDE DEF n, l
    <3>2. QED  BY <1>1, <1>4
  <2>2. QED  BY <2>1, EmptySeq
<1>5. QED  BY <1>3, <1>4

(* While no frame is whole, its beats are collected in order; the last of  *)
(* them completes it.                                                      *)
LEMMA CaptureBeat ==
    ASSUME NEW f \in AcceptedFrames, NEW q \in Seq(CaptureBeats), 8 * Len(q) < f.bytes,
           \A i \in 1..Len(q) : q[i] = [frame |-> f.frame, pos |-> i, keep |-> 8, last |-> FALSE],
           NEW l, l = (f.bytes - 8 * Len(q) <= 8), NEW b \in CaptureBeats,
           b = [frame |-> f.frame, pos |-> (8 * Len(q)) \div 8 + 1,
                keep |-> AtMost(f.bytes - 8 * Len(q), 8), last |-> l]
    PROVE  /\ l => Holds(Append(q, b), f, 0)
           /\ ~l => /\ Len(Append(q, b)) = Len(q) + 1
                    /\ \A i \in 1..Len(Append(q, b)) : Append(q, b)[i] =
                          [frame |-> f.frame, pos |-> i, keep |-> 8, last |-> FALSE]
<1> DEFINE j == Len(q)
           n == BeatsOf(f)
           r == Append(q, b)
           left == f.bytes - 8 * j
<1>1. /\ j \in Nat /\ f.bytes \in Nat /\ n \in Nat \ {0} /\ LastKeep(f) \in 1..8
      /\ j + 1 <= n /\ (left <= 8 <=> j + 1 = n) /\ (j + 1 = n => left = LastKeep(f))
      /\ (8 * j) \div 8 = j
  BY BeatsOfFrame
<1>2. Len(r) = j + 1 /\ r[j + 1] = b /\ \A i \in 1..j : r[i] = q[i]
  BY AppendProperties
<1>3. \A i \in 1..j : q[i] = [frame |-> f.frame, pos |-> i, keep |-> 8, last |-> FALSE]
  OBVIOUS
<1>4. b = [frame |-> f.frame, pos |-> j + 1, keep |-> AtMost(left, 8), last |-> l]
  BY <1>1
<1>5. left \in Nat /\ (l <=> left <= 8)  
  <2>1. l <=> left <= 8  OBVIOUS
  <2>2. left \in Nat  
    <3>1. 8 * j < f.bytes  OBVIOUS
    <3> HIDE DEF j
    <3>2. QED  BY <1>1, <3>1
  <2>3. QED  BY <2>1, <2>2
<1>6. l \in BOOLEAN  BY <1>4 DEF CaptureBeats
<1> HIDE DEF j, n, r, left
<1>7. ASSUME l PROVE Holds(r, f, 0)
  <2>1. j + 1 = n /\ AtMost(left, 8) = LastKeep(f)  BY <1>1, <1>5, <1>7 DEF AtMost
  <2>2. ASSUME NEW i \in 1..(j + 1) PROVE r[i] = Beat(f, i)
    <3>1. CASE i = j + 1
      <4>1. (i = BeatsOf(f)) = TRUE  BY <2>1, <3>1 DEF n
      <4>2. Beat(f, i) = [frame |-> f.frame, pos |-> i, keep |-> LastKeep(f), last |-> TRUE]
        BY <4>1, Zenon DEF Beat
      <4>3. l = TRUE  BY <1>6, <1>7
      <4>4. QED  BY <1>2, <1>4, <2>1, <3>1, <4>2, <4>3
    <3>2. CASE i # j + 1
      <4>1. i \in 1..j  BY <1>1, <3>2
      <4>2. (i = BeatsOf(f)) = FALSE  BY <2>1, <3>2 DEF n
      <4>3. Beat(f, i) = [frame |-> f.frame, pos |-> i, keep |-> 8, last |-> FALSE]
        BY <4>2, Zenon DEF Beat
      <4>4. QED  BY <1>2, <1>3, <4>1, <4>3
    <3>3. QED  BY <3>1, <3>2
  <2>3. \A i \in 1..(j + 1) : 0 + i = i  BY <1>1
  <2>4. Len(r) = BeatsOf(f) - 0  BY <1>1, <1>2, <2>1 DEF n
  <2>5. QED  BY <1>2, <2>2, <2>3, <2>4 DEF Holds
<1>8. ASSUME ~l, NEW i \in 1..(j + 1)
      PROVE  r[i] = [frame |-> f.frame, pos |-> i, keep |-> 8, last |-> FALSE]
  <2>1. CASE i = j + 1
    <3>1. AtMost(left, 8) = 8  BY <1>5, <1>8 DEF AtMost
    <3>2. l = FALSE  BY <1>6, <1>8
    <3>3. QED  BY <1>2, <1>4, <2>1, <3>1, <3>2
  <2>2. CASE i # j + 1
    <3>1. i \in 1..j  BY <1>1, <2>2
    <3>2. QED  BY <1>2, <1>3, <3>1
  <2>3. QED  BY <2>1, <2>2
<1>9. QED  BY <1>2, <1>7, <1>8 DEF r, j

(* Where macsec_tag_append is with the frame in hand. *)
InPhase ==
    \/ state_reg = "ST_CAPTURE" /\ Capturing
    \/ state_reg = "ST_WAITTAG" /\ Waiting
    \/ state_reg = "ST_OUTPUT_PAYLOAD" /\ Releasing
    \/ state_reg = "ST_OUTPUT_AUTH" /\ Trailing

LEMMA CaptureStep ==
    ASSUME Side, Flow, NEW in \in Inputs, InputEdge(in), NEW f, f = this_frame,
           NEW k, k = this_number, Moves(f, k), NEW ps \in BOOLEAN, ps => from_cipher # <<>>,
           Capture(enc_payload(ps)),
           ps /\ s_payload_tready /\ enc_payload(TRUE).last => sent_bytes' = 0,
           ps /\ s_payload_tready /\ ~enc_payload(TRUE).last => sent_bytes' = sent_bytes + 8,
           ~(ps /\ s_payload_tready) => sent_bytes' = sent_bytes
    PROVE  /\ InPhase' /\ out_state_reg' = "OUT_IDLE"
           /\ ps /\ s_payload_tready /\ enc_payload(TRUE).last => state_reg' = "ST_WAITTAG"
           /\ ~(ps /\ s_payload_tready /\ enc_payload(TRUE).last) => state_reg' = "ST_CAPTURE"
<1>1. state_reg = "ST_CAPTURE" /\ Capturing
  BY DEF Capture, Flow, TagAppend
<1>2. m_axis = NoWord /\ sent_bytes = 8 * Len(frame_fifo)
      /\ \A i \in 1..Len(frame_fifo) :
            frame_fifo[i] = [frame |-> k, pos |-> i, keep |-> 8, last |-> FALSE]
  BY <1>1 DEF Capturing
<1>3. out_state_reg' = "OUT_IDLE" /\ sent' = sent /\ this_number' = k
  <2>1. Idles  BY <1>2, NothingLeaves
  <2>2. QED  BY <2>1 DEF Idles, this_number
<1>4. CASE ~(enc_payload(ps) # NoBeat /\ s_payload_tready)
  <2>1. UNCHANGED <<frame_fifo, state_reg, m_axis>>  BY <1>4 DEF Capture
  <2>2. ~(ps /\ s_payload_tready)
    <3>1. ASSUME ps, s_payload_tready PROVE FALSE
      <4>1. enc_payload(ps) = enc_payload(TRUE)  BY <3>1, Zenon
      <4>2. enc_payload(TRUE).frame # NoBeat.frame  BY <3>1, ShownBeat DEF NoBeat
      <4>3. QED  BY <1>4, <3>1, <4>1, <4>2
    <3>2. QED  BY <3>1
  <2>3. sent_bytes' = sent_bytes  BY <2>2
  <2>4. Capturing'  BY <1>2, <1>3, <2>1, <2>3 DEF Capturing
  <2>5. QED  BY <1>1, <1>3, <2>1, <2>2, <2>4 DEF InPhase
<1>5. CASE enc_payload(ps) # NoBeat /\ s_payload_tready
  <2>1. ps  BY <1>5 DEF enc_payload
  <2> DEFINE b == enc_payload(TRUE)
             q == frame_fifo
             l == f.bytes - 8 * Len(q) <= 8
  <2>2. enc_payload(ps) = b  BY <2>1, Zenon
  <2>3. /\ frame_fifo' = Append(q, b)
        /\ state_reg' = IF b.last THEN "ST_WAITTAG" ELSE "ST_CAPTURE"
        /\ m_axis' = IF b.last THEN NoWord ELSE m_axis
    BY <1>5, <2>2 DEF Capture
  <2>4. /\ from_cipher[1] = f /\ f \in AcceptedFrames /\ f.frame = k
        /\ k \in 1..Len(accepted)
    <3>1. /\ captured_frames = Len(sent) + Count(state_reg # "ST_CAPTURE")
          /\ \A i \in 1..Len(from_cipher) : from_cipher[i] = accepted[captured_frames + i]
      BY DEF Flow, TagAppend, TagsHeld, PayloadsInOrder
    <3>2. Count(state_reg # "ST_CAPTURE") = 0  BY <1>1 DEF Count
    <3>3. /\ Len(sent) \in Nat /\ k = Len(sent) + 1 /\ captured_frames \in Nat
          /\ captured_frames + Len(from_cipher) = encrypted_frames
          /\ encrypted_frames <= Len(accepted)
      BY InHand
    <3>4. from_cipher \in Seq(AcceptedFrames) /\ accepted \in Seq(AcceptedFrames)
      BY DEF Side, QueueTypes
    <3>5. Len(from_cipher) \in Nat /\ Len(from_cipher) >= 1 /\ Len(accepted) \in Nat
      BY <2>1, <3>4, EmptySeq
    <3>6. captured_frames = Len(sent)  BY <3>1, <3>2, <3>3
    <3>7. 1 \in 1..Len(from_cipher) /\ captured_frames + 1 = k /\ k \in 1..Len(accepted)
      BY <3>3, <3>5, <3>6
    <3>8. from_cipher[1] = accepted[k]  BY <3>1, <3>7
    <3>9. f \in AcceptedFrames /\ f.frame = k  BY <3>7, InHand
    <3>10. QED  BY <3>7, <3>8, <3>9 DEF this_frame
  <2>5. /\ b \in CaptureBeats /\ 8 * Len(q) < f.bytes
        /\ b = [frame |-> f.frame, pos |-> (8 * Len(q)) \div 8 + 1,
                keep |-> AtMost(f.bytes - 8 * Len(q), 8), last |-> l]
        /\ b.last = l
    <3>1. from_cipher # <<>>  BY <2>1
    <3>2. /\ b \in CaptureBeats /\ sent_bytes < from_cipher[1].bytes
          /\ b = [frame |-> from_cipher[1].frame, pos |-> sent_bytes \div 8 + 1,
                  keep |-> AtMost(from_cipher[1].bytes - sent_bytes, 8),
                  last |-> from_cipher[1].bytes - sent_bytes <= 8]
          /\ b.last = (from_cipher[1].bytes - sent_bytes <= 8)
      BY <3>1, ShownBeat
    <3> HIDE DEF b
    <3>3. QED  BY <1>2, <2>4, <3>2, Zenon
  <2>6. q \in Seq(CaptureBeats) /\ Len(q) \in Nat  BY DEF Side, QueueTypes, CaptureBeats
  <2>7. \A i \in 1..Len(q) : q[i] = [frame |-> f.frame, pos |-> i, keep |-> 8, last |-> FALSE]
    BY <1>2, <2>4
  <2>8. /\ l => Holds(Append(q, b), f, 0)
        /\ ~l => /\ Len(Append(q, b)) = Len(q) + 1
                 /\ \A i \in 1..Len(Append(q, b)) : Append(q, b)[i] =
                       [frame |-> f.frame, pos |-> i, keep |-> 8, last |-> FALSE]
    <3> HIDE DEF b, l, q
    <3>1. l = (f.bytes - 8 * Len(q) <= 8)  BY DEF l
    <3>2. QED  BY <2>4, <2>5, <2>6, <2>7, <3>1, CaptureBeat
  <2> HIDE DEF b, l
  <2>9. CASE b.last
    <3>1. state_reg' = "ST_WAITTAG" /\ m_axis' = NoWord  BY <2>3, <2>9
    <3>2. Holds(frame_fifo', f, 0)  BY <2>3, <2>5, <2>8, <2>9
    <3>3. this_frame' = f
      <4>1. accepted'[k] = accepted[k]  BY <2>4, AcceptedKept
      <4>2. QED  BY <1>3, <4>1 DEF this_frame
    <3>4. Waiting'  BY <3>1, <3>2, <3>3 DEF Waiting, HoldsFrom, Holds
    <3>5. QED  BY <1>3, <1>5, <2>1, <2>9, <3>1, <3>4 DEF InPhase, b
  <2>10. CASE ~b.last
    <3>1. state_reg' = "ST_CAPTURE" /\ m_axis' = NoWord  BY <1>2, <2>3, <2>10
    <3>2. ~l  BY <2>5, <2>10
    <3>3. Len(frame_fifo') = Len(q) + 1
          /\ \A i \in 1..Len(frame_fifo') :
               frame_fifo'[i] = [frame |-> k, pos |-> i, keep |-> 8, last |-> FALSE]
      BY <2>3, <2>4, <2>8, <3>2
    <3>4. sent_bytes' = sent_bytes + 8  BY <1>5, <2>1, <2>10 DEF b
    <3>5. sent_bytes' = 8 * Len(frame_fifo')  BY <1>2, <2>6, <3>3, <3>4
    <3>6. Capturing'  BY <1>3, <3>1, <3>3, <3>5 DEF Capturing
    <3>7. QED  BY <1>3, <2>10, <3>1, <3>6 DEF InPhase, b
  <2>11. QED  BY <2>9, <2>10
<1>6. QED  BY <1>4, <1>5

(* A whole frame waits for its tag. *)
LEMMA WaitStep ==
    ASSUME Side, Flow, NEW in \in Inputs, InputEdge(in), NEW f, f = this_frame,
           NEW k, k = this_number, Moves(f, k), WaitTag
    PROVE  /\ InPhase' /\ out_state_reg' = "OUT_IDLE"
           /\ tag_used => state_reg' = "ST_OUTPUT_PAYLOAD"
           /\ ~tag_used => state_reg' = "ST_WAITTAG"
<1>1. state_reg = "ST_WAITTAG" /\ m_axis = NoWord /\ HoldsFrom(0)
  BY DEF WaitTag, Flow, TagAppend, Waiting
<1>2. Idles /\ ~FrameEnds(f, k)  BY <1>1, NothingLeaves
<1>3. out_state_reg' = "OUT_IDLE"  BY <1>2 DEF Idles
<1>4. k \in 1..Len(accepted)  BY <1>1, InHand
<1>5. this_frame' = f /\ f \in AcceptedFrames  BY <1>2, <1>4, KeptFrame
<1>6. frame_fifo' = frame_fifo  BY <1>1 DEF WaitTag
<1>7. HoldsFrom(0)'  BY <1>1, <1>5, <1>6 DEF HoldsFrom
<1>8. CASE ~tag_pending_valid_reg
  <2>1. m_axis' = m_axis /\ state_reg' = state_reg  BY <1>1, <1>8 DEF WaitTag
  <2>2. QED  BY <1>1, <1>3, <1>7, <1>8, <2>1 DEF InPhase, Waiting, tag_used
<1>9. CASE tag_pending_valid_reg
  <2>1. m_axis' = NoWord /\ out_fifo_last_reg' = FALSE
        /\ state_reg' = IF frame_fifo # <<>> THEN "ST_OUTPUT_PAYLOAD" ELSE "ST_OUTPUT_AUTH"
    BY <1>1, <1>9 DEF WaitTag
  <2>2. frame_fifo # <<>>
    <3>1. frame_fifo \in Seq(CaptureBeats)  BY DEF Side, QueueTypes, CaptureBeats
    <3>2. Holds(frame_fifo, f, 0)  BY <1>1 DEF HoldsFrom, Holds
    <3>3. 0 \in Nat /\ 0 < BeatsOf(f)  BY <1>5, BeatsOfFrame
    <3>4. QED  BY <1>5, <3>1, <3>2, <3>3, NextBeat
  <2>3. QED  BY <1>1, <1>3, <1>7, <1>9, <2>1, <2>2 DEF InPhase, Releasing, tag_used
<1>10. QED  BY <1>8, <1>9

(* The next beat of the frame moves into the output register. *)
LEMMA NextWord ==
    ASSUME NEW f \in AcceptedFrames, NEW k \in Nat, NEW w \in Nat, w < BeatsOf(f),
           NEW q \in Seq(CaptureBeats), Holds(q, f, w)
    PROVE  /\ q # <<>> /\ Holds(Tail(q), f, w + 1)
           /\ PayloadWord(Head(q), Meta(f, k)) = Encrypted(f, k)[w + 1]
           /\ Encrypted(f, k)[w + 1] # NoWord
           /\ Head(q).last = (w + 1 = BeatsOf(f))
           /\ Head(q).last =>
                (IF Head(q).last THEN KEEP_WIDTH - Head(q).keep ELSE 0) = 8 - LastKeep(f)
<1>1. q # <<>> /\ Head(q) = Beat(f, w + 1) /\ Holds(Tail(q), f, w + 1)  BY NextBeat
<1>2. BeatsOf(f) \in Nat  BY BeatsOfFrame
<1>3. w + 1 \in 1..BeatsOf(f) /\ w + 1 \in Nat  BY <1>2
<1>4. Encrypted(f, k)[w + 1] = PayloadWord(Beat(f, w + 1), Meta(f, k))
      /\ Encrypted(f, k)[w + 1] # NoWord
  BY <1>3, PayloadWords
<1>5. Beat(f, w + 1).keep = (IF w + 1 = BeatsOf(f) THEN LastKeep(f) ELSE 8)
      /\ Beat(f, w + 1).last = (w + 1 = BeatsOf(f))
  BY <1>3, BeatType
<1>6. Head(q).last =>
        (IF Head(q).last THEN KEEP_WIDTH - Head(q).keep ELSE 0) = 8 - LastKeep(f)
  <2>1. SUFFICES ASSUME Head(q).last
                 PROVE  KEEP_WIDTH - Head(q).keep = 8 - LastKeep(f)
    BY Zenon
  <2>2. w + 1 = BeatsOf(f)  BY <1>1, <1>5, <2>1
  <2>3. Head(q).keep = LastKeep(f)  BY <1>1, <1>5, <2>2
  <2>4. QED  BY <2>3 DEF KEEP_WIDTH
<1>7. QED  BY <1>1, <1>4, <1>5, <1>6

(* The payload of the frame in hand is released. *)
LEMMA PayloadStep ==
    ASSUME Side, Flow, NEW in \in Inputs, InputEdge(in), NEW f, f = this_frame,
           NEW k, k = this_number, Moves(f, k), NEW ready,
           out_state_reg = "OUT_ENC" => ready = TRUE, out_state_reg # "OUT_ENC" => ready = FALSE,
           OutputPayload(ready)
    PROVE  /\ InPhase' /\ (out_state_reg' # "OUT_IDLE" => m_axis' # NoWord)
           /\ ~FrameEnds(f, k) /\ state_reg' \in {"ST_OUTPUT_PAYLOAD", "ST_OUTPUT_AUTH"}
<1> DEFINE n == BeatsOf(f)
           w == words_taken
           q == frame_fifo
<1>1. state_reg = "ST_OUTPUT_PAYLOAD" /\ Releasing /\ current = Meta(f, k)
  BY DEF OutputPayload, Flow, TagAppend, TagsHeld, busy
<1>2. k \in 1..Len(accepted)  BY <1>1, InHand
<1>3. f \in AcceptedFrames /\ k \in Nat  BY <1>2, InHand
<1>4. /\ w \in Nat
      /\ ~WordTaken(f, k) /\ ~FrameEnds(f, k) => ready = FALSE /\ w = 0 /\ words_taken' = 0
      /\ WordTaken(f, k) => ready = TRUE /\ words_taken' = w + 1
      /\ FrameEnds(f, k) => ready = TRUE
  BY WordsStep
<1>5. n \in Nat \ {0} /\ LastKeep(f) \in 1..8  BY <1>3, BeatsOfFrame
<1>6. q \in Seq(CaptureBeats)  BY DEF Side, QueueTypes, CaptureBeats
<1>7. ~FrameEnds(f, k) =>
        this_number' = k /\ this_frame' = f /\ this_words' = Encrypted(f, k)
  BY <1>2, KeptFrame
<1>8. this_words = Encrypted(f, k)  BY DEF this_words
<1> HIDE DEF w, n
<1>9. CASE m_axis = NoWord /\ ~out_fifo_last_reg /\ HoldsFrom(0)
  <2>1. Idles /\ ~FrameEnds(f, k) /\ ~WordTaken(f, k)  BY <1>9, NothingLeaves
  <2>2. ready = FALSE /\ w = 0 /\ words_taken' = 0 /\ out_state_reg' = "OUT_IDLE"
    BY <1>4, <2>1 DEF Idles
  <2>3. Holds(q, f, 0)  BY <1>9 DEF HoldsFrom, Holds
  <2>4. /\ q # <<>> /\ Holds(Tail(q), f, 0 + 1)
        /\ PayloadWord(Head(q), Meta(f, k)) = Encrypted(f, k)[0 + 1]
        /\ Head(q).last = (0 + 1 = n)
        /\ Head(q).last =>
             (IF Head(q).last THEN KEEP_WIDTH - Head(q).keep ELSE 0) = 8 - LastKeep(f)
    <3>1. 0 \in Nat /\ 0 < BeatsOf(f)  BY <1>5 DEF n
    <3>2. QED  BY <1>3, <1>6, <2>3, <3>1, NextWord DEF n
  <2>5. out_moves(ready) /\ ~out_hs(ready)  BY <1>9 DEF out_moves, out_hs
  <2>6. /\ frame_fifo' = Tail(q) /\ state_reg' = state_reg
        /\ m_axis' = PayloadWord(Head(q), current) /\ out_fifo_last_reg' = Head(q).last
        /\ out_auth_fill_reg' = IF Head(q).last THEN KEEP_WIDTH - Head(q).keep ELSE 0
    BY <2>4, <2>5 DEF OutputPayload
  <2>7. HoldsFrom(0 + 1)'  BY <1>7, <2>1, <2>4, <2>6 DEF HoldsFrom, Holds
  <2>8. m_axis' = this_words'[words_taken' + 1]  BY <1>1, <1>7, <2>1, <2>2, <2>4, <2>6
  <2>9. words_taken' < BeatsOf(this_frame')  BY <1>5, <1>7, <2>1, <2>2 DEF n
  <2>10. out_fifo_last_reg' <=> words_taken' + 1 = BeatsOf(this_frame')
    BY <1>7, <2>1, <2>2, <2>4, <2>6 DEF n
  <2>11. out_fifo_last_reg' => out_auth_fill_reg' = 8 - LastKeep(this_frame')
    BY <1>7, <2>1, <2>4, <2>6
  <2>12. Releasing'  BY <2>2, <2>7, <2>8, <2>9, <2>10, <2>11 DEF Releasing
  <2>13. QED  BY <1>1, <2>1, <2>2, <2>6, <2>12 DEF InPhase
<1>10. CASE /\ w < n /\ m_axis = this_words[w + 1] /\ HoldsFrom(w + 1)
            /\ out_fifo_last_reg <=> w + 1 = n
            /\ out_fifo_last_reg => out_auth_fill_reg = 8 - LastKeep(f)
  <2>1. m_axis # NoWord
    <3>1. w + 1 \in 1..BeatsOf(f)  BY <1>4, <1>5, <1>10 DEF n
    <3>2. QED  BY <1>3, <1>8, <1>10, <3>1, PayloadWords
  <2>2. ~FrameEnds(f, k)
    <3>1. w # n + 2  BY <1>4, <1>5, <1>10
    <3>2. QED  BY <3>1 DEF FrameEnds, w, n
  <2>3. Holds(q, f, w + 1) /\ w + 1 \in Nat
    <3>1. w + 1 \in Nat  BY <1>4
    <3>2. QED  BY <1>10, <3>1 DEF HoldsFrom, Holds
  <2>4. CASE ~WordTaken(f, k)
    <3>1. ready = FALSE /\ w = 0 /\ words_taken' = 0  BY <1>4, <2>2, <2>4
    <3>2. ~out_moves(ready) /\ ~out_hs(ready)  BY <2>1, <3>1 DEF out_moves, out_hs
    <3>3. frame_fifo' = q /\ UNCHANGED <<state_reg, out_fifo_last_reg, out_auth_fill_reg, m_axis>>
      BY <3>2 DEF OutputPayload
    <3>4. HoldsFrom(0 + 1)'  BY <1>7, <2>2, <2>3, <3>1, <3>3 DEF HoldsFrom, Holds
    <3>5. /\ words_taken' < BeatsOf(this_frame')
          /\ m_axis' = this_words'[words_taken' + 1]
      BY <1>7, <1>8, <1>10, <2>2, <3>1, <3>3 DEF n
    <3>6. /\ out_fifo_last_reg' <=> words_taken' + 1 = BeatsOf(this_frame')
          /\ out_fifo_last_reg' => out_auth_fill_reg' = 8 - LastKeep(this_frame')
      BY <1>7, <1>10, <2>2, <3>1, <3>3 DEF n
    <3>7. Releasing'  BY <3>1, <3>4, <3>5, <3>6 DEF Releasing
    <3>8. QED  BY <1>1, <2>1, <2>2, <3>3, <3>7 DEF InPhase
  <2>5. CASE WordTaken(f, k) /\ w + 1 # n
    <3>1. ready = TRUE /\ words_taken' = w + 1  BY <1>4, <2>5
    <3>2. out_moves(ready) /\ ~out_fifo_last_reg  BY <1>10, <2>5, <3>1 DEF out_moves
    <3>3. w + 1 < n  BY <1>4, <1>5, <1>10, <2>5
    <3>4. /\ q # <<>> /\ Holds(Tail(q), f, (w + 1) + 1)
          /\ PayloadWord(Head(q), Meta(f, k)) = Encrypted(f, k)[(w + 1) + 1]
          /\ Encrypted(f, k)[(w + 1) + 1] # NoWord
          /\ Head(q).last = ((w + 1) + 1 = n)
          /\ Head(q).last =>
               (IF Head(q).last THEN KEEP_WIDTH - Head(q).keep ELSE 0) = 8 - LastKeep(f)
      BY <1>3, <1>6, <2>3, <3>3, NextWord DEF n
    <3>5. /\ frame_fifo' = Tail(q) /\ state_reg' = state_reg
          /\ m_axis' = PayloadWord(Head(q), current) /\ out_fifo_last_reg' = Head(q).last
          /\ out_auth_fill_reg' = IF Head(q).last THEN KEEP_WIDTH - Head(q).keep ELSE 0
      BY <3>2, <3>4 DEF OutputPayload
    <3>6. HoldsFrom(words_taken + 1)'
      BY <1>7, <2>2, <3>1, <3>4, <3>5 DEF HoldsFrom, Holds
    <3>7. m_axis' = this_words'[words_taken' + 1]  BY <1>1, <1>7, <2>2, <3>1, <3>4, <3>5
    <3>8. words_taken' < BeatsOf(this_frame')  BY <1>7, <2>2, <3>1, <3>3 DEF n
    <3>9. /\ out_fifo_last_reg' <=> words_taken' + 1 = BeatsOf(this_frame')
          /\ out_fifo_last_reg' => out_auth_fill_reg' = 8 - LastKeep(this_frame')
      BY <1>7, <2>2, <3>1, <3>4, <3>5 DEF n
    <3>10. Releasing'  BY <3>1, <3>6, <3>7, <3>8, <3>9 DEF Releasing
    <3>11. QED  BY <1>1, <2>2, <3>4, <3>5, <3>10 DEF InPhase
  <2>6. CASE WordTaken(f, k) /\ w + 1 = n
    <3>1. ready = TRUE /\ words_taken' = n /\ out_state_reg' = "OUT_ENC"
      BY <1>4, <2>6 DEF WordTaken
    <3>2. out_hs(ready) /\ out_fifo_last_reg  BY <1>10, <2>1, <2>6, <3>1 DEF out_hs
    <3>3. q = <<>>  BY <1>3, <1>6, <2>3, <2>6, NextBeat DEF n
    <3>4. /\ frame_fifo' = q /\ state_reg' = "ST_OUTPUT_AUTH"
          /\ auth_index_reg' = out_auth_fill_reg
          /\ m_axis' = AuthWord(out_auth_fill_reg, current)
      BY <3>2, <3>3 DEF OutputPayload, out_moves, out_hs
    <3>5. out_auth_fill_reg = (8 - LastKeep(f)) + 8 * 0  BY <1>5, <1>10, <2>6
    <3>6. Encrypted(f, k)[n + 1 + 0] = AuthWord((8 - LastKeep(f)) + 8 * 0, Meta(f, k))
          /\ Encrypted(f, k)[n + 1 + 0] # NoWord
      <4>1. 0 \in 0..2  OBVIOUS
      <4>2. QED  BY <1>3, <4>1, TrailerWords DEF n
    <3>7. n + 1 + 0 = n + 1 /\ n - n = 0 /\ n \in n..(n + 2)  BY <1>5
    <3>8. m_axis' = this_words'[words_taken' + 1] /\ m_axis' # NoWord
      BY <1>1, <1>7, <2>2, <3>1, <3>4, <3>5, <3>6, <3>7
    <3>9. words_taken' \in BeatsOf(this_frame')..(BeatsOf(this_frame') + 2)
      BY <1>7, <2>2, <3>1, <3>7 DEF n
    <3>10. auth_index_reg' = (8 - LastKeep(this_frame'))
                             + 8 * (words_taken' - BeatsOf(this_frame'))
      BY <1>7, <2>2, <3>1, <3>4, <3>5, <3>7 DEF n
    <3>11. Trailing'  BY <3>1, <3>3, <3>4, <3>8, <3>9, <3>10 DEF Trailing
    <3>12. QED  BY <2>2, <3>4, <3>8, <3>11 DEF InPhase
  <2>7. QED  BY <2>4, <2>5, <2>6
<1>11. QED  BY <1>1, <1>9, <1>10 DEF Releasing, w, n

(* The trailer of the frame in hand is released, and the frame ends. *)
LEMMA TrailerStep ==
    ASSUME Side, Flow, NEW in \in Inputs, InputEdge(in), NEW f, f = this_frame,
           NEW k, k = this_number, Moves(f, k), NEW ready,
           out_state_reg = "OUT_ENC" => ready = TRUE, out_state_reg # "OUT_ENC" => ready = FALSE,
           OutputAuth(ready), sent_bytes' = sent_bytes
    PROVE  /\ InPhase' /\ (out_state_reg' # "OUT_IDLE" => m_axis' # NoWord)
           /\ FrameEnds(f, k) => state_reg' = "ST_CAPTURE"
           /\ ~FrameEnds(f, k) => state_reg' = "ST_OUTPUT_AUTH"
<1> DEFINE n == BeatsOf(f)
           w == words_taken
           l == LastKeep(f)
           j == w - n
<1>1. state_reg = "ST_OUTPUT_AUTH" /\ Trailing /\ current = Meta(f, k) /\ sent_bytes = 0
  BY DEF OutputAuth, Flow, TagAppend, TagsHeld, busy
<1>2. k \in 1..Len(accepted)  BY <1>1, InHand
<1>3. f \in AcceptedFrames /\ k \in Nat  BY <1>2, InHand
<1>4. /\ w \in Nat
      /\ ~WordTaken(f, k) /\ ~FrameEnds(f, k) => ready = FALSE /\ w = 0 /\ words_taken' = 0
      /\ WordTaken(f, k) => ready = TRUE /\ words_taken' = w + 1
      /\ FrameEnds(f, k) => ready = TRUE
  BY WordsStep
<1>5. n \in Nat \ {0} /\ l \in 1..8  BY <1>3, BeatsOfFrame
<1>6. /\ frame_fifo = <<>> /\ out_state_reg = "OUT_ENC" /\ w \in n..(n + 2)
      /\ m_axis = Encrypted(f, k)[w + 1] /\ auth_index_reg = (8 - l) + 8 * j
  BY <1>1 DEF Trailing, this_words
<1>7. WordTaken(f, k) \/ FrameEnds(f, k)
  BY <1>6 DEF Moves, Idles, Starts, HeaderEnds
<1>8. ready = TRUE  BY <1>4, <1>7
<1>9. WordTaken(f, k) => w < n + 2 /\ out_state_reg' = "OUT_ENC"  BY DEF WordTaken
<1>10. FrameEnds(f, k) => w = n + 2 /\ out_state_reg' = "OUT_IDLE"  BY DEF FrameEnds
<1> HIDE DEF n, w, l
<1>11. j \in 0..2 /\ w + 1 = n + 1 + j /\ (j = 2 <=> w = n + 2)
  BY <1>4, <1>5, <1>6
<1> HIDE DEF j
<1>12. m_axis # NoWord /\ (24 - auth_index_reg <= 8 <=> j = 2)
  <2>1. LET y    == Encrypted(f, k)[BeatsOf(f) + 1 + j]
            from == (8 - LastKeep(f)) + 8 * j
        IN  y # NoWord /\ (24 - from <= 8 <=> j = 2)
    BY <1>3, <1>11, TrailerWords
  <2>2. QED  BY <1>6, <1>11, <2>1 DEF n, l
<1>13. out_hs(ready) /\ out_moves(ready)  BY <1>8, <1>12 DEF out_hs, out_moves
<1>14. frame_fifo' = <<>>  BY <1>6 DEF OutputAuth
<1>15. CASE j = 2
  <2>1. FrameEnds(f, k)
    <3>1. w = n + 2 /\ ~(w < n + 2)  BY <1>4, <1>5, <1>11, <1>15
    <3>2. QED  BY <1>7, <1>9, <3>1
  <2>2. state_reg' = "ST_CAPTURE" /\ m_axis' = NoWord
    <3>1. AUTH_BYTES - auth_index_reg <= KEEP_WIDTH
      BY <1>12, <1>15 DEF AUTH_BYTES, KEEP_WIDTH
    <3>2. QED  BY <1>13, <3>1 DEF OutputAuth
  <2>3. Capturing'
    <3>1. Len(frame_fifo') = 0  BY <1>14
    <3>2. sent_bytes' = 8 * Len(frame_fifo')  BY <1>1, <3>1
    <3>3. QED  BY <2>2, <3>1, <3>2 DEF Capturing
  <2>4. QED  BY <1>10, <2>1, <2>2, <2>3 DEF InPhase
<1>16. CASE j # 2
  <2>1. WordTaken(f, k) /\ ~FrameEnds(f, k)  BY <1>7, <1>10, <1>11, <1>16
  <2>2. /\ words_taken' = w + 1 /\ out_state_reg' = "OUT_ENC"
        /\ this_number' = k /\ this_frame' = f /\ this_words' = Encrypted(f, k)
    BY <1>2, <1>4, <1>9, <2>1, KeptFrame
  <2>3. /\ state_reg' = "ST_OUTPUT_AUTH" /\ auth_index_reg' = auth_index_reg + 8
        /\ m_axis' = AuthWord(auth_index_reg + 8, current)
    <3>1. ~(AUTH_BYTES - auth_index_reg <= KEEP_WIDTH)
      BY <1>12, <1>16 DEF AUTH_BYTES, KEEP_WIDTH
    <3>2. QED  BY <1>1, <1>12, <1>13, <3>1 DEF OutputAuth, KEEP_WIDTH
  <2>4. /\ j + 1 \in 0..2 /\ (w + 1) + 1 = n + 1 + (j + 1) /\ (w + 1) - n = j + 1
        /\ w + 1 \in n..(n + 2) /\ auth_index_reg + 8 = (8 - l) + 8 * (j + 1)
    BY <1>4, <1>5, <1>6, <1>11, <1>16
  <2>5. LET y    == Encrypted(f, k)[BeatsOf(f) + 1 + (j + 1)]
            from == (8 - LastKeep(f)) + 8 * (j + 1)
        IN  y # NoWord /\ y = AuthWord(from, Meta(f, k))
    BY <1>3, <2>4, TrailerWords
  <2>6. m_axis' = this_words'[words_taken' + 1] /\ m_axis' # NoWord
    BY <1>1, <2>2, <2>3, <2>4, <2>5 DEF n, l
  <2>7. words_taken' \in BeatsOf(this_frame')..(BeatsOf(this_frame') + 2)
        /\ auth_index_reg' = (8 - LastKeep(this_frame'))
                             + 8 * (words_taken' - BeatsOf(this_frame'))
    BY <2>2, <2>3, <2>4 DEF n, l
  <2>8. Trailing'  BY <1>14, <2>2, <2>6, <2>7 DEF Trailing
  <2>9. QED  BY <2>1, <2>3, <2>6, <2>8 DEF InPhase
<1>17. QED  BY <1>15, <1>16

LEMMA TagAppendStep ==
    ASSUME Side, Flow, NEW in \in Inputs, NEW ps \in BOOLEAN, NEW ts \in BOOLEAN,
           MacEdge(in, ps, ts, TRUE), NEW f, f = this_frame, NEW k, k = this_number, Moves(f, k)
    PROVE  TagAppend' /\ (out_state_reg' # "OUT_IDLE" => busy' /\ m_axis' # NoWord)
<1> DEFINE N == Len(sent)
           take == ps /\ s_payload_tready
           last == take /\ enc_payload(TRUE).last
<1>1. /\ ps => from_cipher # <<>>
      /\ ts => tags # <<>>
      /\ InputEdge(in) /\ PendingEdge(enc_tag(ts)) /\ ReturnEdge(ps, ts)
      /\ \/ Capture(enc_payload(ps)) \/ WaitTag
         \/ OutputPayload(enc_frame_tready(TRUE)) \/ OutputAuth(enc_frame_tready(TRUE))
  BY DEF MacEdge, TagAppendEdge
<1>2. /\ encrypted_frames' = encrypted_frames
      /\ ts /\ s_tag_ready => tagged_frames' = tagged_frames + 1
      /\ ~(ts /\ s_tag_ready) => tagged_frames' = tagged_frames
  <2>1. TRUE \in BOOLEAN  OBVIOUS
  <2>2. QED  BY <2>1, SideMac
<1>3. /\ last => captured_frames' = captured_frames + 1 /\ sent_bytes' = 0
      /\ ~last => captured_frames' = captured_frames
      /\ take /\ ~last => sent_bytes' = sent_bytes + 8
      /\ ~take => sent_bytes' = sent_bytes
  BY <1>1, <1>2, PayloadsStep
<1>4. /\ N \in Nat /\ k = N + 1 /\ captured_frames \in Nat
      /\ ~FrameEnds(f, k) => sent' = sent
      /\ FrameEnds(f, k) => Len(sent') = k
  BY InHand, StartedStep
<1>5. /\ state_reg = "ST_CAPTURE" => captured_frames = N
      /\ state_reg # "ST_CAPTURE" => captured_frames = N + 1 /\ sent_bytes = 0
                                     /\ k \in 1..Len(accepted)
  <2>1. captured_frames = N + Count(state_reg # "ST_CAPTURE")
        /\ (state_reg # "ST_CAPTURE" => sent_bytes = 0)
    BY DEF Flow, TagAppend, TagsHeld
  <2>2. ASSUME state_reg = "ST_CAPTURE" PROVE captured_frames = N
    <3>1. captured_frames = N + 0  BY <2>1, <2>2, Zenon DEF Count
    <3> HIDE DEF N
    <3>2. QED  BY <1>4, <3>1
  <2>3. QED  BY <2>1, <2>2, InHand
<1>6. state_reg # "ST_CAPTURE" =>
        ~take /\ ~last /\ captured_frames' = N + 1 /\ sent_bytes' = 0
  BY <1>3, <1>5 DEF s_payload_tready
<1>7. state_reg # "ST_CAPTURE" /\ ~FrameEnds(f, k) => this_frame' = f /\ this_number' = k
  BY <1>1, <1>5, KeptFrame
<1>8. ASSUME Len(sent') + Count(busy') = N + Count(busy) + Count(tag_used),
             captured_frames' = Len(sent') + Count(state_reg' # "ST_CAPTURE"),
             busy' => current' = Meta(this_frame', this_number'),
             state_reg' # "ST_CAPTURE" => sent_bytes' = 0, InPhase'
      PROVE  TagAppend'
  <2>1. TagsHeld'  BY <1>1, <1>2, <1>8, TagsHeldStep
  <2>2. QED  BY <1>8, <2>1 DEF TagAppend, InPhase
<1> HIDE DEF N
<1>9. CASE Capture(enc_payload(ps))
  <2> DEFINE e == enc_payload(TRUE).last
  <2>1. state_reg = "ST_CAPTURE"  BY <1>9 DEF Capture
  <2>2. /\ InPhase' /\ out_state_reg' = "OUT_IDLE"
        /\ last => state_reg' = "ST_WAITTAG"
        /\ ~last => state_reg' = "ST_CAPTURE"
    BY <1>1, <1>3, <1>9, CaptureStep
  <2>3. ~busy /\ ~tag_used /\ ~busy'  BY <2>1, <2>2 DEF busy, tag_used
  <2>4. sent' = sent
    <3>1. m_axis = NoWord  BY <2>1 DEF Flow, TagAppend, Capturing
    <3>2. QED  BY <1>4, <3>1, NothingLeaves
  <2>5. Count(busy) = 0 /\ Count(busy') = 0 /\ Count(tag_used) = 0  BY <2>3 DEF Count
  <2>6. Len(sent') + Count(busy') = N + Count(busy) + Count(tag_used)
    <3>1. Len(sent') = N  BY <2>4 DEF N
    <3>2. QED  BY <1>4, <2>5, <3>1
  <2>7. captured_frames' = Len(sent') + Count(state_reg' # "ST_CAPTURE")
    <3>0. Len(sent') = N  BY <2>4 DEF N
    <3>1. CASE last
      <4>1. Count(state_reg' # "ST_CAPTURE") = 1  BY <2>2, <3>1 DEF Count
      <4>2. captured_frames' = N + 1  BY <1>3, <1>5, <2>1, <3>1
      <4>3. QED  BY <3>0, <4>1, <4>2
    <3>2. CASE ~last
      <4>1. Count(state_reg' # "ST_CAPTURE") = 0  BY <2>2, <3>2 DEF Count
      <4>2. captured_frames' = N + 0
        <5>1. captured_frames' = N  BY <1>3, <1>5, <2>1, <3>2
        <5>2. QED  BY <1>4, <5>1
      <4>3. QED  BY <3>0, <4>1, <4>2
    <3>3. QED  BY <3>1, <3>2
  <2>8. state_reg' # "ST_CAPTURE" => sent_bytes' = 0  BY <1>3, <2>2
  <2>9. QED  BY <1>8, <2>2, <2>3, <2>6, <2>7, <2>8
<1>10. CASE WaitTag
  <2>1. state_reg = "ST_WAITTAG" /\ m_axis = NoWord  BY <1>10 DEF WaitTag, Flow, TagAppend, Waiting
  <2>2. /\ InPhase' /\ out_state_reg' = "OUT_IDLE"
        /\ tag_used => state_reg' = "ST_OUTPUT_PAYLOAD"
        /\ ~tag_used => state_reg' = "ST_WAITTAG"
    BY <1>1, <1>10, WaitStep
  <2>3. ~FrameEnds(f, k)  BY <2>1, NothingLeaves
  <2>4. Len(sent') = N /\ this_frame' = f /\ this_number' = k
    BY <1>4, <1>7, <2>1, <2>3 DEF N
  <2>5. ~busy /\ (busy' <=> tag_used) /\ state_reg' # "ST_CAPTURE"
    BY <2>1, <2>2 DEF busy
  <2>6. Count(busy) = 0 /\ Count(busy') = Count(tag_used) /\ Count(tag_used) \in Nat
        /\ Count(state_reg' # "ST_CAPTURE") = 1
    BY <2>5 DEF Count
  <2>7. Len(sent') + Count(busy') = N + Count(busy) + Count(tag_used)
    BY <1>4, <2>4, <2>6
  <2>8. captured_frames' = Len(sent') + Count(state_reg' # "ST_CAPTURE")
    BY <1>6, <2>1, <2>4, <2>6
  <2>9. busy' => current' = Meta(f, k)
    <3>1. SUFFICES ASSUME tag_used PROVE current' = Meta(f, k)
      BY <2>5
    <3>2. current' = pending  BY <1>10, <3>1 DEF WaitTag, tag_used
    <3>3. /\ pending = Meta(accepted[tagged_frames], tagged_frames)
          /\ tagged_frames = Len(sent) + Count(busy) + Count(tag_pending_valid_reg)
      BY <3>1 DEF tag_used, Flow, TagAppend, TagsHeld
    <3>4. Count(tag_pending_valid_reg) = 1  BY <3>1 DEF tag_used, Count
    <3>5. tagged_frames = k  BY <1>4, <2>6, <3>3, <3>4 DEF N
    <3>6. QED  BY <3>2, <3>3, <3>5 DEF this_frame
  <2>10. QED  BY <1>6, <1>8, <2>1, <2>2, <2>4, <2>7, <2>8, <2>9
<1>11. SUFFICES ASSUME NEW ready, OutputPayload(ready) \/ OutputAuth(ready),
                       out_state_reg = "OUT_ENC" => ready = TRUE,
                       out_state_reg # "OUT_ENC" => ready = FALSE
                PROVE  TagAppend' /\ (out_state_reg' # "OUT_IDLE" => busy' /\ m_axis' # NoWord)
  <2>1. /\ out_state_reg = "OUT_ENC" => enc_frame_tready(TRUE) = TRUE
        /\ out_state_reg # "OUT_ENC" => enc_frame_tready(TRUE) = FALSE
    BY Zenon DEF enc_frame_tready
  <2>2. SUFFICES ASSUME OutputPayload(enc_frame_tready(TRUE)) \/ OutputAuth(enc_frame_tready(TRUE))
                 PROVE TagAppend' /\ (out_state_reg' # "OUT_IDLE" => busy' /\ m_axis' # NoWord)
    BY <1>1, <1>9, <1>10, Zenon
  <2>3. QED  BY <1>11, <2>1, <2>2, Zenon
<1>12. busy /\ ~tag_used /\ current = Meta(f, k) /\ current' = current
       /\ state_reg # "ST_CAPTURE"
  BY <1>11 DEF OutputPayload, OutputAuth, busy, tag_used, Flow, TagAppend, TagsHeld
<1>13. Count(busy) = 1 /\ Count(tag_used) = 0  BY <1>12 DEF Count
<1>14. ASSUME ~FrameEnds(f, k), state_reg' \in {"ST_OUTPUT_PAYLOAD", "ST_OUTPUT_AUTH"}, InPhase'
       PROVE  TagAppend' /\ busy'
  <2>1. Len(sent') = N /\ this_frame' = f /\ this_number' = k
    BY <1>4, <1>7, <1>12, <1>14 DEF N
  <2>2. busy' /\ state_reg' # "ST_CAPTURE"  BY <1>14 DEF busy
  <2>3. Count(busy') = 1 /\ Count(state_reg' # "ST_CAPTURE") = 1  BY <2>2 DEF Count
  <2>4. Len(sent') + Count(busy') = N + Count(busy) + Count(tag_used)
    BY <1>4, <1>13, <2>1, <2>3
  <2>5. captured_frames' = Len(sent') + Count(state_reg' # "ST_CAPTURE")
    BY <1>6, <1>12, <2>1, <2>3
  <2>6. QED  BY <1>6, <1>8, <1>12, <1>14, <2>1, <2>2, <2>4, <2>5
<1>15. CASE OutputPayload(ready)
  <2>1. /\ InPhase' /\ (out_state_reg' # "OUT_IDLE" => m_axis' # NoWord)
        /\ ~FrameEnds(f, k) /\ state_reg' \in {"ST_OUTPUT_PAYLOAD", "ST_OUTPUT_AUTH"}
    BY <1>1, <1>11, <1>15, PayloadStep
  <2>2. QED  BY <1>14, <2>1
<1>16. CASE OutputAuth(ready)
  <2>1. /\ InPhase' /\ (out_state_reg' # "OUT_IDLE" => m_axis' # NoWord)
        /\ FrameEnds(f, k) => state_reg' = "ST_CAPTURE"
        /\ ~FrameEnds(f, k) => state_reg' = "ST_OUTPUT_AUTH"
    <3>1. sent_bytes' = sent_bytes  BY <1>5, <1>6, <1>12
    <3>2. QED  BY <1>1, <1>11, <1>16, <3>1, TrailerStep
  <2>2. CASE ~FrameEnds(f, k)  BY <1>14, <2>1, <2>2
  <2>3. CASE FrameEnds(f, k)
    <3>1. state_reg' = "ST_CAPTURE" /\ ~busy' /\ out_state_reg' = "OUT_IDLE"
      BY <2>1, <2>3 DEF busy, FrameEnds
    <3>2. Count(busy') = 0 /\ Count(state_reg' # "ST_CAPTURE") = 0  BY <3>1 DEF Count
    <3>3. Len(sent') = N + 1  BY <1>4, <2>3
    <3>4. Len(sent') + Count(busy') = N + Count(busy) + Count(tag_used)
      BY <1>4, <1>13, <3>2, <3>3
    <3>5. captured_frames' = Len(sent') + Count(state_reg' # "ST_CAPTURE")
      <4>1. captured_frames' = (N + 1) + 0  BY <1>4, <1>6, <1>12
      <4>2. QED  BY <3>2, <3>3, <4>1
    <3>6. QED  BY <1>8, <2>1, <3>1, <3>4, <3>5
  <2>4. QED  BY <2>2, <2>3
<1>17. QED  BY <1>11, <1>15, <1>16

(* What has left is a prefix of the line of sealed frames. *)
LEMMA OutputStep ==
    ASSUME Side, Flow, NEW in \in Inputs, InputEdge(in), NEW f, f = this_frame,
           NEW k, k = this_number, Moves(f, k),
           out_state_reg' # "OUT_IDLE" => busy' /\ m_axis' # NoWord
    PROVE  Output'
<1> DEFINE N == Len(sent)
           M == Len(sent')
<1>1. /\ N \in Nat /\ k = N + 1 /\ N <= Len(accepted) /\ Len(accepted) \in Nat
      /\ sent = [j \in 1..N |-> Sealed(accepted[j], j)]
  BY InHand DEF Side, QueueTypes, Flow, Output
<1>2. \A i \in 1..Len(accepted) : accepted'[i] = accepted[i]  BY AcceptedKept
<1>3. FrameEnds(f, k) => k \in 1..Len(accepted)
  <2>1. FrameEnds(f, k) => state_reg # "ST_CAPTURE"
    BY DEF FrameEnds, Flow, Output, busy
  <2>2. QED  BY <2>1, InHand
<1>4. /\ M \in Nat /\ M <= Len(accepted)
      /\ sent' = [j \in 1..M |-> Sealed(accepted[j], j)]
  <2>1. CASE FrameEnds(f, k)
    <3>1. sent' = Append(sent, Sealed(f, k))  BY <2>1 DEF FrameEnds
    <3>2. M = k /\ sent' = [j \in 1..k |-> Sealed(accepted[j], j)]  BY <3>1, SentNext
    <3> HIDE DEF M
    <3>3. k \in Nat /\ k <= Len(accepted)  BY <1>1, <1>3, <2>1
    <3>4. QED  BY <3>2, <3>3
  <2>2. CASE ~FrameEnds(f, k)
    <3>1. sent' = sent  BY <2>2, StartedStep
    <3>2. QED  BY <1>1, <3>1
  <2>3. QED  BY <2>1, <2>2
<1>5. sent' = [j \in 1..M |-> Sealed(accepted'[j], j)]
  <2> HIDE DEF M
  <2>1. \A j \in 1..M : accepted'[j] = accepted[j]  BY <1>1, <1>2, <1>4
  <2>2. QED  BY <1>4, <2>1
<1>6. ASSUME NEW m \in Nat, sending' = Upto(f, k, m), out_state_reg' # "OUT_IDLE"
      PROVE  /\ Len(sending') = m
             /\ sending' = [i \in 1..Len(sending') |-> Sealed(this_frame', this_number')[i]]
  <2>1. Len(sending') = m  BY <1>6, UptoNext
  <2>2. k \in 1..Len(accepted) /\ ~FrameEnds(f, k)
    <3>1. ~FrameEnds(f, k) /\ ~Idles  BY <1>6 DEF FrameEnds, Idles
    <3>2. m_axis # NoWord
      <4>1. Starts(f, k) => m_axis # NoWord  BY DEF Starts
      <4>2. out_state_reg # "OUT_IDLE" => m_axis # NoWord  BY DEF Flow, Output
      <4>3. QED  BY <3>1, <4>1, <4>2 DEF Moves, HeaderEnds, WordTaken
    <3>3. QED  BY <3>1, <3>2, WordInHand
  <2>3. this_frame' = f /\ this_number' = k  BY <2>2, KeptFrame
  <2>4. QED  BY <1>6, <2>1, <2>3 DEF Upto
<1>7. sending' = <<>> => sending' = [i \in 1..Len(sending') |-> Sealed(this_frame', this_number')[i]]
                         /\ Len(sending') \in Nat
  <2>1. SUFFICES ASSUME NEW s, s = <<>>, NEW F
                 PROVE  s = [i \in 1..Len(s) |-> F[i]] /\ Len(s) \in Nat
    OBVIOUS
  <2>2. Len(s) = 0  BY <2>1
  <2>3. [i \in 1..0 |-> F[i]] = <<>>  OBVIOUS
  <2>4. QED  BY <2>1, <2>2, <2>3
<1>8. words_taken \in Nat
  <2>1. CASE out_state_reg = "OUT_ENC"
    <3>1. Len(sending) \in Nat /\ Len(sending) >= 2 /\ words_taken = Len(sending) - 2
      BY <2>1 DEF Flow, Output, words_taken
    <3>2. QED  BY <3>1
  <2>2. CASE out_state_reg # "OUT_ENC"  BY <2>2 DEF words_taken
  <2>3. QED  BY <2>1, <2>2
<1>9. /\ out_state_reg' = "OUT_IDLE" => sending' = <<>>
      /\ out_state_reg' = "OUT_HEADER" => Len(sending') = 1
      /\ out_state_reg' = "OUT_ENC" => Len(sending') >= 2
      /\ Len(sending') \in Nat
      /\ sending' = [i \in 1..Len(sending') |-> Sealed(this_frame', this_number')[i]]
  <2>1. CASE Idles \/ FrameEnds(f, k)
    <3>1. out_state_reg' = "OUT_IDLE" /\ sending' = <<>>  BY <2>1 DEF Idles, FrameEnds
    <3>2. QED  BY <1>7, <3>1
  <2>2. CASE Starts(f, k)
    <3>1. out_state_reg' = "OUT_HEADER" /\ sending' = Upto(f, k, 1) /\ 1 \in Nat
      BY <2>2 DEF Starts
    <3>2. QED  BY <1>6, <3>1
  <2>3. CASE HeaderEnds(f, k)
    <3>1. out_state_reg' = "OUT_ENC" /\ sending' = Upto(f, k, 2) /\ 2 \in Nat /\ 2 >= 2
      BY <2>3 DEF HeaderEnds
    <3>2. QED  BY <1>6, <3>1
  <2>4. CASE WordTaken(f, k)
    <3>1. out_state_reg' = "OUT_ENC" /\ sending' = Upto(f, k, words_taken + 3)
      BY <2>4 DEF WordTaken
    <3>2. words_taken + 3 \in Nat /\ words_taken + 3 >= 2  BY <1>8
    <3>3. QED  BY <1>6, <3>1, <3>2
  <2>5. QED  BY <2>1, <2>2, <2>3, <2>4 DEF Moves
<1>10. QED  BY <1>4, <1>5, <1>9 DEF Output

(***************************************************************************)
(* The whole invariant                                                     *)
(***************************************************************************)

LEMMA FlowMac ==
    ASSUME Side, Flow, ~RUNTS, NEW in \in Inputs, NEW ps \in BOOLEAN, NEW ts \in BOOLEAN,
           MacEdge(in, ps, ts, TRUE)
    PROVE  Flow' /\ Moves(this_frame, this_number)
<1> SUFFICES ASSUME NEW f, f = this_frame, NEW k, k = this_number
             PROVE  Flow' /\ Moves(f, k)
  OBVIOUS
<1>1. /\ ps => from_cipher # <<>>
      /\ InputEdge(in) /\ QueuesEdge(in, ts, TRUE) /\ ReturnEdge(ps, ts) /\ OutputEdge(TRUE)
  BY DEF MacEdge
<1>2. encrypted_frames' = encrypted_frames
  <2>1. TRUE \in BOOLEAN  OBVIOUS
  <2>2. QED  BY <2>1, SideMac
<1>3. Moves(f, k)  BY <1>1, OutputMoves DEF Moves
<1>4. Numbered'  BY <1>1, NumberedStep
<1>5. PayloadsInOrder'  BY <1>1, <1>2, PayloadsStep
<1>6. HeadersInOrder'  BY <1>1, <1>3, <1>4, HeadersStep
<1>7. TuserInOrder'  BY <1>1, <1>3, <1>4, TuserStep
<1>8. TagAppend' /\ (out_state_reg' # "OUT_IDLE" => busy' /\ m_axis' # NoWord)
  BY <1>3, TagAppendStep
<1>9. Output'  BY <1>1, <1>3, <1>8, OutputStep
<1>10. Compactor'  BY <1>1, <1>3, CompactorStep
<1>11. QED  BY <1>3, <1>4, <1>5, <1>6, <1>7, <1>8, <1>9, <1>10 DEF Flow

(* The cipher only moves a frame from one queue to the next. *)
LEMMA FlowEncrypt ==
    ASSUME Side, Flow, Encrypt
    PROVE  Flow'
<1> DEFINE e == encrypted_frames
           c == captured_frames
           l == Len(from_cipher)
           x == Head(to_cipher)
<1>1. UNCHANGED <<tagAppendVars, inVars, queueVars, sent_bytes, outVars>>  BY DEF Encrypt
<1>2. encrypted_frames' = e + 1 /\ tagged_frames' = tagged_frames  BY SideEncrypt
<1>3. /\ from_cipher' = Append(from_cipher, x) /\ to_cipher # <<>>
      /\ from_cipher \in Seq(AcceptedFrames) /\ to_cipher \in Seq(AcceptedFrames)
      /\ \A i \in 1..Len(to_cipher) : to_cipher[i] = accepted[e + i]
      /\ \A i \in 1..l : from_cipher[i] = accepted[c + i]
  BY DEF Encrypt, Side, QueueTypes, CipherInOrder, Flow, PayloadsInOrder
<1>4. /\ e \in Nat /\ c \in Nat /\ l \in Nat /\ c + l = e
  BY <1>3, Counts, InHand
<1>5. x \in AcceptedFrames /\ x = accepted[e + 1]
  <2>1. 1 \in 1..Len(to_cipher) /\ x = to_cipher[1] /\ x \in AcceptedFrames
    BY <1>3, EmptySeq, HeadTailProperties
  <2>2. QED  BY <1>3, <2>1
<1>6. captured_frames' = (e + 1) - Len(from_cipher')  BY <1>2, Zenon DEF captured_frames
<1> HIDE DEF e, c, x
<1>7. /\ Len(from_cipher') = l + 1 /\ from_cipher'[l + 1] = x
      /\ \A i \in 1..l : from_cipher'[i] = from_cipher[i]
  BY <1>3, <1>5, AppendProperties
<1>8. captured_frames' = c  BY <1>4, <1>6, <1>7
<1>9. PayloadsInOrder'
  <2>1. ASSUME NEW i \in 1..(l + 1) PROVE from_cipher'[i] = accepted[c + i]
    <3>1. CASE i = l + 1
      <4>1. c + i = e + 1  BY <1>4, <3>1
      <4>2. QED  BY <1>5, <1>7, <3>1, <4>1
    <3>2. CASE i # l + 1
      <4>1. i \in 1..l  BY <1>4, <3>2
      <4>2. QED  BY <1>3, <1>7, <4>1
    <3>3. QED  BY <3>1, <3>2
  <2>2. accepted' = accepted  BY <1>1 DEF inVars
  <2>3. Len(from_cipher') <= encrypted_frames'  BY <1>2, <1>4, <1>7
  <2>4. QED  BY <1>7, <1>8, <2>1, <2>2, <2>3 DEF PayloadsInOrder
<1>10. Numbered'  BY <1>1 DEF inVars, Flow, Numbered
<1>11. HeadersInOrder'
  BY <1>1 DEF inVars, queueVars, outVars, Flow, HeadersInOrder, started_frames
<1>12. TuserInOrder'
  BY <1>1 DEF inVars, queueVars, outVars, Flow, TuserInOrder, started_frames
<1>13. /\ this_frame' = this_frame /\ this_number' = this_number /\ this_words' = this_words
       /\ words_taken' = words_taken /\ (busy' <=> busy)
  BY <1>1 DEF inVars, tagAppendVars, outVars, this_frame, this_number, this_words, words_taken,
              busy
<1>14. TagAppend'
  <2>1. TagsHeld'
    <3>1. busy' = busy  BY <1>1 DEF tagAppendVars, busy
    <3>2. /\ sent' = sent /\ state_reg' = state_reg /\ pending' = pending /\ current' = current
          /\ tag_pending_valid_reg' = tag_pending_valid_reg /\ sent_bytes' = sent_bytes
          /\ accepted' = accepted
      BY <1>1 DEF inVars, tagAppendVars, outVars
    <3>3. TagsHeld  BY DEF Flow, TagAppend
    <3>4. QED  BY <1>2, <1>8, <1>13, <3>1, <3>2, <3>3 DEF TagsHeld, c
  <2>2. InPhase  BY DEF Flow, TagAppend, InPhase
  <2>3. InPhase'
    BY <1>1, <1>13, <2>2
    DEF InPhase, Capturing, Waiting, Releasing, Trailing, HoldsFrom, tagAppendVars, outVars
  <2>4. QED  BY <2>1, <2>3 DEF TagAppend, InPhase
<1>15. Output'
  BY <1>1, <1>13 DEF inVars, tagAppendVars, outVars, Flow, Output
<1>16. Compactor'  BY <1>1 DEF outVars, Flow, Compactor
<1>17. QED  BY <1>9, <1>10, <1>11, <1>12, <1>14, <1>15, <1>16 DEF Flow

LEMMA FlowInit == Init => Flow
<1> SUFFICES ASSUME Init PROVE Flow
  OBVIOUS
<1>1. /\ in_frame = 1 /\ accepted = <<>> /\ in_frame_active_reg = FALSE
      /\ to_cipher = <<>> /\ from_cipher = <<>> /\ tags = <<>> /\ sent_bytes = 0
      /\ header_fifo = <<>> /\ tuser_fifo = <<>> /\ header_pop_d1_reg = FALSE
      /\ out_state_reg = "OUT_IDLE" /\ out_frame_active_reg = FALSE
      /\ count_reg = 0 /\ last_pending_reg = FALSE /\ sent = <<>> /\ sending = <<>>
  BY DEF Init
<1>2. state_reg = "ST_CAPTURE" /\ frame_fifo = <<>> /\ tag_pending_valid_reg = FALSE
      /\ m_axis = NoWord
  BY DEF Init, TagAppendInit
<1>3. /\ Len(accepted) = 0 /\ Len(to_cipher) = 0 /\ Len(from_cipher) = 0 /\ Len(tags) = 0
      /\ Len(header_fifo) = 0 /\ Len(tuser_fifo) = 0 /\ Len(sent) = 0 /\ Len(sending) = 0
      /\ Len(frame_fifo) = 0
  BY <1>1, <1>2
<1>4. /\ Count(out_state_reg # "OUT_IDLE") = 0 /\ Count(header_pop_d1_reg) = 0
      /\ Count(state_reg # "ST_CAPTURE") = 0 /\ Count(busy) = 0
      /\ Count(tag_pending_valid_reg) = 0 /\ ~busy
  BY <1>1, <1>2 DEF Count, busy
<1>5. encrypted_frames = 0 /\ tagged_frames = 0 /\ captured_frames = 0 /\ started_frames = 0
  <2>1. encrypted_frames = 0  BY <1>3 DEF encrypted_frames
  <2>2. QED  BY <1>3, <1>4, <2>1 DEF tagged_frames, captured_frames, started_frames
<1>6. Numbered  BY <1>1, <1>3 DEF Numbered
<1>7. PayloadsInOrder  BY <1>3, <1>5 DEF PayloadsInOrder
<1>8. HeadersInOrder  BY <1>1, <1>3, <1>4, <1>5 DEF HeadersInOrder
<1>9. TuserInOrder  BY <1>1, <1>3, <1>5 DEF TuserInOrder
<1>10. TagAppend
  <2>1. TagsHeld  BY <1>1, <1>2, <1>3, <1>4, <1>5 DEF TagsHeld
  <2>2. Capturing  BY <1>1, <1>2, <1>3 DEF Capturing
  <2>3. QED  BY <1>2, <2>1, <2>2 DEF TagAppend
<1>11. Output
  <2>1. \A F : <<>> = [i \in 1..0 |-> F[i]]  OBVIOUS
  <2>2. sending = [i \in 1..Len(sending) |-> Sealed(this_frame, this_number)[i]]
    BY <1>1, <1>3, <2>1
  <2>3. sent = [j \in 1..Len(sent) |-> Sealed(accepted[j], j)]
    <3> DEFINE F == [j \in Nat |-> Sealed(accepted[j], j)]
    <3>1. <<>> = [i \in 1..0 |-> F[i]]
      <4> HIDE DEF F
      <4>1. QED  BY <2>1
    <3>2. [i \in 1..0 |-> F[i]] = [j \in 1..0 |-> Sealed(accepted[j], j)]
      <4>1. \A j \in 1..0 : j \in Nat  OBVIOUS
      <4>2. \A j \in 1..0 : F[j] = Sealed(accepted[j], j)  BY <4>1
      <4> HIDE DEF F
      <4>3. QED  BY <4>2
    <3>3. QED  BY <1>1, <1>3, <3>1, <3>2
  <2>4. QED  BY <1>1, <1>3, <2>2, <2>3 DEF Output
<1>12. Compactor  BY <1>1 DEF Compactor
<1>13. QED  BY <1>6, <1>7, <1>8, <1>9, <1>10, <1>11, <1>12 DEF Flow

LEMMA FlowUnchanged ==
    ASSUME Flow, UNCHANGED vars
    PROVE  Flow'
<1>1. UNCHANGED <<tagAppendVars, inVars, queueVars, cipherVars, outVars>>  BY DEF vars
<1>2. /\ encrypted_frames' = encrypted_frames /\ tagged_frames' = tagged_frames
      /\ captured_frames' = captured_frames /\ started_frames' = started_frames
  BY <1>1
  DEF inVars, cipherVars, outVars, encrypted_frames, tagged_frames, captured_frames,
      started_frames
<1>3. /\ this_frame' = this_frame /\ this_number' = this_number /\ this_words' = this_words
      /\ words_taken' = words_taken /\ busy' = busy
  BY <1>1 DEF inVars, tagAppendVars, outVars, this_frame, this_number, this_words, words_taken,
              busy
<1>4. Numbered' /\ PayloadsInOrder' /\ HeadersInOrder' /\ TuserInOrder'
  BY <1>1, <1>2
  DEF inVars, queueVars, cipherVars, outVars, Flow, Numbered, PayloadsInOrder, HeadersInOrder,
      TuserInOrder
<1>5. TagsHeld'
  <2>1. /\ sent' = sent /\ state_reg' = state_reg /\ pending' = pending /\ current' = current
        /\ tag_pending_valid_reg' = tag_pending_valid_reg /\ sent_bytes' = sent_bytes
        /\ accepted' = accepted
    BY <1>1 DEF inVars, tagAppendVars, outVars, cipherVars
  <2>2. TagsHeld  BY DEF Flow, TagAppend
  <2>3. QED  BY <1>2, <1>3, <2>1, <2>2 DEF TagsHeld
<1>6. InPhase'
  <2>1. InPhase  BY DEF Flow, TagAppend, InPhase
  <2>2. QED
    BY <1>1, <1>3, <2>1
    DEF InPhase, Capturing, Waiting, Releasing, Trailing, HoldsFrom, tagAppendVars, outVars,
        cipherVars
<1>7. Output' /\ Compactor'
  BY <1>1, <1>3 DEF inVars, tagAppendVars, outVars, Flow, Output, Compactor
<1>8. QED  BY <1>4, <1>5, <1>6, <1>7 DEF Flow, TagAppend, InPhase

LEMMA InvariantStep == IInv /\ [Next]_vars => IInv'
<1> SUFFICES ASSUME IInv, [Next]_vars PROVE IInv'
  OBVIOUS
<1>1. Side /\ Side'  BY SideStep DEF IInv
<1>2. SUFFICES ASSUME ~BACKPRESSURE, ~RUNTS PROVE Flow'
  BY <1>1 DEF IInv
<1>3. Flow  BY <1>2 DEF IInv
<1>4. ASSUME NEW in \in Inputs, NEW ps \in BOOLEAN, NEW ts \in BOOLEAN, NEW r \in Ready,
             MacEdge(in, ps, ts, r)
      PROVE  Flow'
  <2>1. r = TRUE  BY <1>2 DEF Ready
  <2>2. MacEdge(in, ps, ts, TRUE)  BY <1>4, <2>1
  <2>3. QED  BY <1>1, <1>2, <1>3, <2>2, FlowMac
<1>5. CASE Encrypt  BY <1>1, <1>3, <1>5, FlowEncrypt
<1>6. CASE UNCHANGED vars  BY <1>3, <1>6, FlowUnchanged
<1>7. QED  BY <1>4, <1>5, <1>6 DEF Next

(* The inductive invariant holds throughout; where the sink is always      *)
(* ready and no frame is a header only, every part of every frame is where *)
(* the line of accepted frames says it is.                                 *)
THEOREM WrapperInvariant == Spec => []IInv
<1>1. Init => IInv  BY SideInit, FlowInit DEF IInv
<1>2. IInv /\ [Next]_vars => IInv'  BY InvariantStep
<1>3. QED  BY <1>1, <1>2, PTL DEF Spec

(* The sideband of a frame, and with it the transmit tag the host's        *)
(* completion is matched by, leaves with the frame it came with.           *)
THEOREM SidebandsStay ==
    ASSUME ~BACKPRESSURE, ~RUNTS
    PROVE  Spec => []TuserFollowsFrame
<1>1. IInv => TuserFollowsFrame
  <2>1. SUFFICES ASSUME Side, Flow, NEW k \in 1..Len(sent), NEW i \in 1..Len(sent[k])
                 PROVE  sent[k][i].tuser = accepted[k].frame
    BY DEF IInv, TuserFollowsFrame
  <2>2. sent[k] = Sealed(accepted[k], k)
    <3>1. sent = [m \in 1..Len(sent) |-> Sealed(accepted[m], m)]
      BY <2>1 DEF Flow, Output
    <3>2. QED  BY <3>1
  <2>3. accepted[k] \in AcceptedFrames
    <3>1. accepted \in Seq(AcceptedFrames)  BY <2>1 DEF Side, QueueTypes
    <3>2. k \in 1..Len(accepted)
      <4>1. Len(sent) \in Nat /\ Len(sent) <= Len(accepted)  BY <2>1, InHand
      <4>2. Len(accepted) \in Nat  BY <3>1
      <4>3. QED  BY <4>1, <4>2
    <3>3. QED  BY <3>1, <3>2, ElementOfSeq
  <2> DEFINE f == accepted[k]
             n == BeatsOf(f)
  <2>4. n \in Nat  BY <2>3, BeatsOfFrame
  <2>5. Sealed(f, k) = Upto(f, k, n + 5) /\ Len(Upto(f, k, n + 5)) = n + 5
    <3>1. n + 5 \in Nat  BY <2>4
    <3>2. QED  BY <2>3, <3>1, SealedBeats, UptoNext
  <2>6. i \in 1..(n + 5)  BY <2>2, <2>5
  <2>7. Sealed(f, k)[i].tuser = f.frame  BY <2>6 DEF Sealed
  <2>8. QED  BY <2>2, <2>7
<1>2. QED  BY <1>1, WrapperInvariant, PTL

(* The steps of the wrapper are those of the line: the end of a frame      *)
(* enters, the next sealed frame leaves, both at once, or neither shows.   *)
(* That every frame leaves is liveness and left to the run.                *)
THEOREM WrapperStepsAreLine ==
    ASSUME ~BACKPRESSURE, ~RUNTS
    PROVE  Spec => /\ Line!LineInit
                   /\ [][Line!Accept \/ Line!Send \/ Line!AcceptAndSend]_<<accepted, sent>>
<1>1. Init => Line!LineInit  BY DEF Init, Line!LineInit
<1>2. IInv /\ [Next]_vars => [Line!Accept \/ Line!Send \/ Line!AcceptAndSend]_<<accepted, sent>>
  <2> SUFFICES ASSUME IInv, [Next]_vars
               PROVE  [Line!Accept \/ Line!Send \/ Line!AcceptAndSend]_<<accepted, sent>>
    OBVIOUS
  <2>1. Side /\ Flow  BY DEF IInv
  <2>2. ASSUME NEW in \in Inputs, NEW ps \in BOOLEAN, NEW ts \in BOOLEAN, NEW r \in Ready,
               MacEdge(in, ps, ts, r)
        PROVE  [Line!Accept \/ Line!Send \/ Line!AcceptAndSend]_<<accepted, sent>>
    <3> DEFINE f == this_frame
               k == this_number
    <3>1. r = TRUE  BY DEF Ready
    <3>2. MacEdge(in, ps, ts, TRUE)  BY <2>2, <3>1
    <3>3. Moves(f, k)  BY <2>1, <3>2, FlowMac
    <3>4. InputEdge(in)  BY <3>2 DEF MacEdge
    <3>5. (\E x \in AcceptedFrames : accepted' = Append(accepted, x)) \/ accepted' = accepted
      BY <2>1, <3>4, InputStep
    <3>6. CASE FrameEnds(f, k)
      <4>1. state_reg # "ST_CAPTURE"  BY <2>1, <3>6 DEF FrameEnds, Flow, Output, busy
      <4>2. k = Len(sent) + 1 /\ k \in 1..Len(accepted) /\ Len(sent) \in Nat
        BY <2>1, <4>1, InHand
      <4>3. Len(accepted) \in Nat  BY <2>1 DEF Side, QueueTypes
      <4>4. Len(sent) < Len(accepted)  BY <4>2, <4>3
      <4>5. sent' = Append(sent, Sealed(accepted[Len(sent) + 1], Len(sent) + 1))
        BY <3>6, <4>2 DEF FrameEnds, this_frame
      <4>6. QED  BY <3>5, <4>4, <4>5 DEF Line!Send, Line!AcceptAndSend
    <3>7. CASE ~FrameEnds(f, k)
      <4>1. sent' = sent  BY <3>3, <3>7 DEF Moves, Idles, Starts, HeaderEnds, WordTaken
      <4>2. QED  BY <3>5, <4>1 DEF Line!Accept
    <3>8. QED  BY <3>6, <3>7
  <2>3. CASE Encrypt  BY <2>3 DEF Encrypt, inVars, outVars
  <2>4. CASE UNCHANGED vars  BY <2>4 DEF vars, inVars, outVars
  <2>5. QED  BY <2>2, <2>3, <2>4 DEF Next
<1>3. QED  BY <1>1, <1>2, WrapperInvariant, PTL DEF Spec

(* With a sink that is always ready every frame leaves word by word as it  *)
(* has to: what the run with back-pressure refutes holds without it.       *)
THEOREM FramesLeaveWhole ==
    ASSUME ~BACKPRESSURE, ~RUNTS
    PROVE  Spec => []SentWhole
<1>1. IInv => SentWhole
  <2> SUFFICES ASSUME Side, Flow PROVE SentWhole
    BY DEF IInv
  <2>1. /\ Len(sent) \in Nat /\ Len(sent) <= Len(accepted) /\ Len(sending) \in Nat
        /\ sent = [j \in 1..Len(sent) |-> Sealed(accepted[j], j)]
        /\ sending = Upto(this_frame, this_number, Len(sending))
        /\ Len(accepted) \in Nat /\ this_number = Len(sent) + 1
    BY InHand DEF Flow, Output, Upto, Side, QueueTypes
  <2>2. \A k \in 1..Len(sent) : Beats(sent[k]) = Beats(Sealed(accepted[k], k))  BY <2>1
  <2>3. ASSUME sending # <<>>
        PROVE  /\ Len(sent) < Len(accepted)
               /\ LET whole == Sealed(accepted[Len(sent) + 1], Len(sent) + 1)
                  IN  /\ Len(sending) <= Len(whole)
                      /\ Beats(sending) = Beats(SubSeq(whole, 1, Len(sending)))
    <3> DEFINE f == this_frame
               k == this_number
               n == BeatsOf(f)
               m == Len(sending)
               whole == Sealed(f, k)
    <3>1. out_state_reg # "OUT_IDLE"  BY <2>3 DEF Flow, Output
    <3>2. m_axis # NoWord  BY <3>1 DEF Flow, Output
    <3>3. k \in 1..Len(accepted) /\ f \in AcceptedFrames /\ words_taken \in 0..(n + 2)
      BY <3>2, WordInHand
    <3>4. n \in Nat /\ f = accepted[Len(sent) + 1] /\ k = Len(sent) + 1
      BY <2>1, <3>3, BeatsOfFrame DEF this_frame
    <3>5. whole = Upto(f, k, n + 5) /\ Len(whole) = n + 5
      <4>1. n + 5 \in Nat  BY <3>4
      <4>2. Len(Upto(f, k, n + 5)) = n + 5  BY <4>1, UptoNext
      <4>3. Upto(f, k, n + 5) = Sealed(f, k)  BY <3>3, SealedBeats
      <4>4. QED  BY <4>2, <4>3
    <3>6. m \in Nat /\ m <= n + 5
      <4>1. CASE out_state_reg = "OUT_HEADER"
        <5>1. m = 1  BY <4>1 DEF Flow, Output
        <5> HIDE DEF n, m
        <5>2. QED  BY <3>4, <5>1
      <4>2. CASE out_state_reg = "OUT_ENC"
        <5>1. words_taken = m - 2  BY <4>2 DEF words_taken
        <5>2. m \in Nat  BY <2>1
        <5> HIDE DEF n, m
        <5>3. QED  BY <3>3, <3>4, <5>1, <5>2
      <4>3. QED  BY <3>1, <4>1, <4>2 DEF Side, TypeOK
    <3>7. SubSeq(whole, 1, m) = [i \in 1..m |-> whole[i]]  BY <3>6, PrefixIsSubSeq
    <3>8. SubSeq(whole, 1, m) = sending  BY <2>1, <3>7 DEF Upto
    <3>9. Len(sent) < Len(accepted)  BY <2>1, <3>3, <3>4
    <3>10. QED  BY <3>4, <3>5, <3>6, <3>8, <3>9
  <2>4. QED  BY <2>1, <2>2, <2>3 DEF SentWhole
<1>2. QED  BY <1>1, WrapperInvariant, PTL

(* Once nothing is under way as many frames have come out as have gone in: *)
(* what the run with frames of a header only refutes holds without them.   *)
THEOREM FramesAreAccountedFor ==
    ASSUME ~BACKPRESSURE, ~RUNTS
    PROVE  Spec => []FramesAccountedFor
<1>1. IInv => FramesAccountedFor
  <2> SUFFICES ASSUME Side, Flow, to_cipher = <<>>, from_cipher = <<>>, state_reg = "ST_CAPTURE"
               PROVE  in_frame - 1 = Len(sent)
    BY DEF IInv, FramesAccountedFor
  <2>1. Len(to_cipher) = 0 /\ Len(from_cipher) = 0  OBVIOUS
  <2>2. /\ encrypted_frames = Len(accepted) - Len(to_cipher)
        /\ captured_frames = encrypted_frames - Len(from_cipher)
    BY DEF encrypted_frames, captured_frames
  <2>3. Len(sent) \in Nat /\ Len(accepted) \in Nat  BY InHand DEF Side, QueueTypes
  <2>4. captured_frames = Len(sent) + 0  BY DEF Flow, TagAppend, TagsHeld, Count
  <2>5. in_frame = Len(accepted) + 1  BY DEF Flow, Numbered
  <2>6. Len(sent) = Len(accepted)
    <3>1. encrypted_frames = Len(accepted)  BY <2>1, <2>2, <2>3
    <3>2. QED  BY <2>1, <2>2, <2>3, <2>4, <3>1
  <2>7. QED  BY <2>3, <2>5, <2>6
<1>2. QED  BY <1>1, WrapperInvariant, PTL
=============================================================================
