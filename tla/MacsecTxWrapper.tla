--------------------------- MODULE MacsecTxWrapper ---------------------------
(***************************************************************************)
(* macsec_tx_wrapper: takes a frame apart into header, EtherType, sideband *)
(* (tuser) and payload, sends the payload through the cipher in another    *)
(* clock domain, and puts the parts together again                         *)
(* (src/macsec/macsec_tx_wrapper.v).  Each part waits in a queue of its    *)
(* own; nothing but order says which parts belong together.                *)
(*                                                                         *)
(* MacEdge is one rising edge of mac_clk: every register of that domain.   *)
(* Encrypt is the cipher finishing a frame in the hls_clk domain.  The     *)
(* payload's way there and back (split FIFO, compactor, both bridges) is   *)
(* a queue of frames before and one after the cipher; when a beat or a tag *)
(* comes out of it is left open.                                           *)
(***************************************************************************)
EXTENDS MacsecTagAppend

CONSTANTS
    HEADER_FIFO_DEPTH,   \* headers and EtherTypes that can wait
    TUSER_FIFO_DEPTH,    \* sidebands that can wait
    PN_LIMIT,            \* packet numbers wrap here (2^32)
    BACKPRESSURE,        \* whether m_axis_tready may be low
    RUNTS,               \* whether frames of a header only occur
    LAST_KEEPS,          \* byte counts a frame's last beat may have
    MAX_BEATS,           \* bound: beats of a frame
    MAX_FRAMES           \* bound: frames of a behaviour

ASSUME WrapperAssumption ==
    /\ HEADER_FIFO_DEPTH \in Nat \ {0} /\ TUSER_FIFO_DEPTH \in Nat \ {0}
    /\ PN_LIMIT \in Nat \ {0} /\ BACKPRESSURE \in BOOLEAN /\ RUNTS \in BOOLEAN
    /\ LAST_KEEPS \subseteq 1..8 /\ MAX_BEATS \in Nat /\ MAX_FRAMES \in Nat

VARIABLES
    in_header_count_reg,  \* header bytes of the incoming frame collected
    in_payload,           \* its payload bytes pushed towards the bridge
    in_frame_tuser_reg, in_frame_active_reg,
    in_frame,             \* history: number of the incoming frame
    header_fifo, header_pop_d1_reg,
    ethertype_fifo, ethertype_pop_d1_reg,
    tuser_fifo,
    pn_sideband_reg,
    to_cipher,            \* whole payloads before the cipher
    tx_pn,                \* the cipher's packet number
    from_cipher,          \* encrypted payloads behind it
    sent_bytes,           \* bytes of the first of them already delivered
    tags,                 \* tags behind it
    out_state_reg, out_header_reg,
    out_frame_tuser_reg, out_frame_active_reg,
    count_reg, last_pending_reg,   \* fill of the output compactor
    accepted,             \* history: the frames with a payload, in order
    sent, sending         \* history: what the output compactor accepted

inVars     == <<in_header_count_reg, in_payload, in_frame_tuser_reg, in_frame_active_reg,
                in_frame, accepted>>
queueVars  == <<header_fifo, header_pop_d1_reg, ethertype_fifo, ethertype_pop_d1_reg,
                tuser_fifo, pn_sideband_reg>>
cipherVars == <<to_cipher, tx_pn, from_cipher, sent_bytes, tags>>
outVars    == <<out_state_reg, out_header_reg, out_frame_tuser_reg, out_frame_active_reg,
                count_reg, last_pending_reg, sent, sending>>
vars       == <<tagAppendVars, inVars, queueVars, cipherVars, outVars>>

-----------------------------------------------------------------------------
HEADER_BYTES == 14
BUFFER_BYTES == 64
PN_INIT      == 1

(* Every frame has its own header, EtherType and sideband: each is named   *)
(* by the frame's number.  The error bit of the sideband, which is taken   *)
(* from the frame's last beat, is left out.                                *)
NoFrame == 0

AtMost(n, bound) == IF n > bound THEN bound ELSE n

Init ==
    /\ TagAppendInit
    /\ in_header_count_reg = 0 /\ in_payload = 0
    /\ in_frame_tuser_reg = NoFrame /\ in_frame_active_reg = FALSE
    /\ in_frame = 1
    /\ header_fifo = <<>> /\ header_pop_d1_reg = FALSE
    /\ ethertype_fifo = <<>> /\ ethertype_pop_d1_reg = FALSE
    /\ tuser_fifo = <<>>
    /\ pn_sideband_reg = PN_INIT % PN_LIMIT
    /\ to_cipher = <<>> /\ tx_pn = PN_INIT % PN_LIMIT
    /\ from_cipher = <<>> /\ sent_bytes = 0 /\ tags = <<>>
    /\ out_state_reg = "OUT_IDLE" /\ out_header_reg = NoFrame
    /\ out_frame_tuser_reg = NoFrame /\ out_frame_active_reg = FALSE
    /\ count_reg = 0 /\ last_pending_reg = FALSE
    /\ accepted = <<>> /\ sent = <<>> /\ sending = <<>>

-----------------------------------------------------------------------------
(* The input: 14 bytes of header, then payload.                            *)

NoInput == [keep |-> 0, last |-> FALSE]

header_next(in) == AtMost(in_header_count_reg + in.keep, HEADER_BYTES)
payload_in(in)  == (in_header_count_reg + in.keep) - header_next(in)

(* The beats a frame may go on with: full ones, then the last. *)
Inputs ==
    {NoInput} \cup
    {in \in [keep : LAST_KEEPS \cup {8}, last : BOOLEAN] :
        /\ in_frame <= MAX_FRAMES
        /\ IF in.last THEN in.keep \in LAST_KEEPS /\ header_next(in) = HEADER_BYTES
                            /\ (RUNTS \/ payload_in(in) > 0)
           ELSE in.keep = 8 /\ in_payload + in_header_count_reg + 8 < 8 * MAX_BEATS}

(* A beat is accepted while there is room for its frame's parts.  Whether  *)
(* the payload FIFO has room (split_pre_tready) is left open, as is        *)
(* whether a beat is offered at all.                                       *)
s_axis_ready_int ==
    /\ Len(tuser_fifo) < TUSER_FIFO_DEPTH
    /\ Len(header_fifo) < HEADER_FIFO_DEPTH
    /\ Len(ethertype_fifo) < HEADER_FIFO_DEPTH

in_axis_hs(in)          == in # NoInput /\ s_axis_ready_int
s_axis_frame_end_hs(in) == in_axis_hs(in) /\ in.last /\ payload_in(in) > 0

InputEdge(in) ==
    IF in_axis_hs(in)
    THEN /\ in_header_count_reg' = IF in.last THEN 0 ELSE header_next(in)
         /\ in_payload' = IF in.last THEN 0 ELSE in_payload + payload_in(in)
         /\ in_frame_tuser_reg' = IF in_frame_active_reg THEN in_frame_tuser_reg ELSE in_frame
         /\ in_frame_active_reg' = ~in.last
         /\ in_frame' = IF in.last THEN in_frame + 1 ELSE in_frame
         /\ accepted' = IF s_axis_frame_end_hs(in)
                        THEN Append(accepted, [frame |-> in_frame, bytes |-> in_payload + payload_in(in)])
                        ELSE accepted
    ELSE UNCHANGED inVars

-----------------------------------------------------------------------------
(* Mutant of Encrypt: the cipher's counter is wider than the sideband's. *)
EncryptNoWrap ==
    /\ to_cipher # <<>>
    /\ to_cipher' = Tail(to_cipher)
    /\ from_cipher' = Append(from_cipher, Head(to_cipher))
    /\ tags' = Append(tags, [frame |-> Head(to_cipher).frame, pn |-> tx_pn])
    /\ tx_pn' = tx_pn + 1
    /\ UNCHANGED <<tagAppendVars, inVars, queueVars, sent_bytes, outVars>>

(* The cipher's clock domain: a frame is encrypted once it is whole, under *)
(* the packet number of that moment; its payload and tag set out together. *)
Encrypt ==
    /\ to_cipher # <<>>
    /\ to_cipher' = Tail(to_cipher)
    /\ from_cipher' = Append(from_cipher, Head(to_cipher))
    /\ tags' = Append(tags, [frame |-> Head(to_cipher).frame, pn |-> tx_pn])
    /\ tx_pn' = (tx_pn + 1) % PN_LIMIT
    /\ UNCHANGED <<tagAppendVars, inVars, queueVars, sent_bytes, outVars>>

(* The payload beat and the tag the return bridge shows, if it does. *)
enc_payload(shown) ==
    IF ~shown THEN NoBeat
    ELSE LET left == Head(from_cipher).bytes - sent_bytes
         IN  [frame |-> Head(from_cipher).frame, pos |-> sent_bytes \div 8 + 1,
              keep |-> AtMost(left, 8), last |-> left <= 8]

(* The tag is offered to macsec_tag_append with what the other queues hold *)
(* at that moment, and not at all while no EtherType waits.                *)
enc_tag_valid_int(shown) == shown /\ ethertype_fifo # <<>>
enc_tag(shown) ==
    IF ~enc_tag_valid_int(shown) THEN NoMeta
    ELSE [frame |-> Head(tags).frame, iv_pn |-> Head(tags).pn,
          pn |-> pn_sideband_reg, ethertype |-> Head(ethertype_fifo)]

(* Mutant of tag_meta_hs: counted while macsec_tag_append is not ready. *)
tag_meta_always(shown) == enc_tag_valid_int(shown)
tag_meta_hs(shown) == enc_tag_valid_int(shown) /\ s_tag_ready

(* The return bridge lets go of a beat or a tag when it sees ready, which  *)
(* for the tag does not depend on the EtherType.                           *)
ReturnEdge(payload_shown, tag_shown) ==
    /\ IF payload_shown /\ s_payload_tready
         THEN IF enc_payload(TRUE).last
              THEN sent_bytes' = 0 /\ from_cipher' = Tail(from_cipher)
              ELSE sent_bytes' = sent_bytes + 8 /\ UNCHANGED from_cipher
         ELSE UNCHANGED <<sent_bytes, from_cipher>>
    /\ tags' = IF tag_shown /\ s_tag_ready THEN Tail(tags) ELSE tags

-----------------------------------------------------------------------------
(* The output: header in two beats, then what macsec_tag_append releases,  *)
(* into a compactor that joins them to full beats.                         *)

out_tvalid_int ==
    CASE out_state_reg = "OUT_IDLE"   -> header_fifo # <<>> /\ tuser_fifo # <<>> /\ m_axis # NoWord
      [] out_state_reg = "OUT_HEADER" -> TRUE
      [] OTHER                        -> m_axis # NoWord

HeaderBeat(half, frame) == [half |-> half, header |-> frame, word |-> NoWord]
EncBeat(word)           == [half |-> 0, header |-> NoFrame, word |-> word]

out_beat_int ==
    CASE out_state_reg = "OUT_IDLE"   -> HeaderBeat(1, Head(header_fifo))
      [] out_state_reg = "OUT_HEADER" -> HeaderBeat(2, out_header_reg)
      [] OTHER                        -> EncBeat(m_axis)
out_bytes_int ==
    CASE out_state_reg = "OUT_IDLE"   -> 8
      [] out_state_reg = "OUT_HEADER" -> HEADER_BYTES - 8
      [] OTHER                        -> m_axis.keep + m_axis.auth
out_tlast_int == out_state_reg = "OUT_ENC" /\ m_axis.last

(* Mutant of out_tuser_int: always the sideband that waits. *)
out_tuser_head == IF tuser_fifo = <<>> THEN NoFrame ELSE Head(tuser_fifo)
out_tuser_int ==
    IF out_frame_active_reg THEN out_frame_tuser_reg
    ELSE IF tuser_fifo = <<>> THEN NoFrame ELSE Head(tuser_fifo)

(* The compactor: count_reg bytes wait; last_pending_reg after a frame's   *)
(* last beat until they have left.                                         *)
compact_valid == count_reg >= 8 \/ (last_pending_reg /\ count_reg # 0)

(* Mutant of compact_last: a last full beat does not end the frame. *)
compact_last_strict == compact_valid /\ last_pending_reg /\ count_reg < 8
compact_last == compact_valid /\ last_pending_reg /\ count_reg <= 8
popped(m_ready) == IF compact_valid /\ m_ready THEN AtMost(count_reg, 8) ELSE 0
out_tready_int(m_ready) ==
    /\ ~last_pending_reg
    /\ out_tvalid_int => out_bytes_int <= (BUFFER_BYTES - count_reg) + popped(m_ready)

(* The output FSM moves with the compactor's ready, but the beat is taken  *)
(* from macsec_tag_append with the ready of the sink behind the compactor. *)
out_axis_hs(m_ready)      == out_tvalid_int /\ out_tready_int(m_ready)
out_start_hs(m_ready)     == out_state_reg = "OUT_IDLE" /\ out_axis_hs(m_ready)

enc_frame_tready(m_ready) == out_state_reg = "OUT_ENC" /\ m_ready
tuser_pop(m_ready)        == out_axis_hs(m_ready) /\ ~out_frame_active_reg /\ tuser_fifo # <<>>

OutputEdge(m_ready) ==
    /\ out_state_reg' =
         IF ~out_axis_hs(m_ready) THEN out_state_reg
         ELSE CASE out_state_reg = "OUT_IDLE"   -> "OUT_HEADER"
                [] out_state_reg = "OUT_HEADER" -> "OUT_ENC"
                [] OTHER                        -> IF m_axis.last THEN "OUT_IDLE" ELSE "OUT_ENC"
    /\ out_header_reg' = IF out_start_hs(m_ready) THEN Head(header_fifo) ELSE out_header_reg
    /\ IF out_axis_hs(m_ready)
         THEN /\ out_frame_tuser_reg' = out_tuser_int
              /\ out_frame_active_reg' = ~out_tlast_int
              /\ count_reg' = (count_reg - popped(m_ready)) + out_bytes_int
              /\ LET s == Append(sending, [beat |-> out_beat_int, tuser |-> out_tuser_int])
                 IN  /\ sending' = IF out_tlast_int THEN <<>> ELSE s
                     /\ sent' = IF out_tlast_int THEN Append(sent, s) ELSE sent
         ELSE /\ count_reg' = count_reg - popped(m_ready)
              /\ UNCHANGED <<out_frame_tuser_reg, out_frame_active_reg, sending, sent>>
    /\ last_pending_reg' = \/ out_axis_hs(m_ready) /\ out_tlast_int
                           \/ last_pending_reg /\ ~(compact_last /\ m_ready)

-----------------------------------------------------------------------------
(* The queues beside the cipher.  A push and a pop in one cycle need a     *)
(* word to pop; a pop alone of an empty queue does nothing.  No queue is   *)
(* full when it is pushed to: s_axis_ready_int is low then, so that the    *)
(* code's test for it in the third case has no effect.                     *)
QueueEdge(queue, depth, push, word, pop) ==
    CASE push /\ ~pop /\ Len(queue) < depth -> Append(queue, word)
      [] ~push /\ pop /\ queue # <<>>       -> Tail(queue)
      [] push /\ pop /\ queue # <<>>        -> Append(Tail(queue), word)
      [] OTHER                              -> queue

(* Header and EtherType are popped one cycle after they were used. *)
QueuesEdge(in, tag_shown, m_ready) ==
    /\ header_fifo' = QueueEdge(header_fifo, HEADER_FIFO_DEPTH, s_axis_frame_end_hs(in),
                                in_frame, header_pop_d1_reg)
    /\ header_pop_d1_reg' = out_start_hs(m_ready)
    /\ ethertype_fifo' = QueueEdge(ethertype_fifo, HEADER_FIFO_DEPTH, s_axis_frame_end_hs(in),
                                   in_frame, ethertype_pop_d1_reg)
    /\ ethertype_pop_d1_reg' = tag_meta_hs(tag_shown)
    /\ tuser_fifo' = QueueEdge(tuser_fifo, TUSER_FIFO_DEPTH, in_axis_hs(in) /\ in.last,
                               in_frame_tuser_reg', tuser_pop(m_ready))
    /\ pn_sideband_reg' = IF tag_meta_hs(tag_shown)
                          THEN (pn_sideband_reg + 1) % PN_LIMIT ELSE pn_sideband_reg

MacEdge(in, payload_shown, tag_shown, m_ready) ==
    /\ payload_shown => from_cipher # <<>>
    /\ tag_shown => tags # <<>>
    /\ InputEdge(in)
    /\ QueuesEdge(in, tag_shown, m_ready)
    /\ TagAppendEdge(enc_payload(payload_shown), enc_tag(tag_shown), enc_frame_tready(m_ready))
    /\ ReturnEdge(payload_shown, tag_shown)
    /\ OutputEdge(m_ready)
    /\ to_cipher' = IF s_axis_frame_end_hs(in)
                    THEN Append(to_cipher, accepted'[Len(accepted')]) ELSE to_cipher
    /\ UNCHANGED tx_pn

Ready == IF BACKPRESSURE THEN BOOLEAN ELSE {TRUE}

Next ==
    \/ \E in \in Inputs, ps, ts \in BOOLEAN, r \in Ready : MacEdge(in, ps, ts, r)
    \/ Encrypt

Spec == Init /\ [][Next]_vars

(* Both clocks run, and what is on its way back is shown again and again.  *)
LiveSpec ==
    /\ Spec
    /\ WF_vars(Encrypt)
    /\ WF_vars(\E in \in Inputs, ps, ts \in BOOLEAN : MacEdge(in, ps, ts, TRUE))
    /\ SF_vars(\E in \in Inputs, ts \in BOOLEAN : s_payload_tready /\ MacEdge(in, TRUE, ts, TRUE))
    /\ SF_vars(\E in \in Inputs, ps \in BOOLEAN : s_tag_ready /\ MacEdge(in, ps, TRUE, TRUE))

-----------------------------------------------------------------------------
FrameIds == 0..MAX_FRAMES
Metas    == [frame : FrameIds, iv_pn : 0..(PN_LIMIT - 1), pn : 0..(PN_LIMIT - 1), ethertype : FrameIds]

TypeOK ==
    /\ in_header_count_reg \in 0..HEADER_BYTES /\ in_payload \in Nat
    /\ in_frame \in 1..(MAX_FRAMES + 1) /\ in_frame_tuser_reg \in FrameIds
    /\ header_fifo \in Seq(FrameIds) /\ Len(header_fifo) <= HEADER_FIFO_DEPTH
    /\ ethertype_fifo \in Seq(FrameIds) /\ Len(ethertype_fifo) <= HEADER_FIFO_DEPTH
    /\ tuser_fifo \in Seq(FrameIds) /\ Len(tuser_fifo) <= TUSER_FIFO_DEPTH
    /\ pn_sideband_reg \in 0..(PN_LIMIT - 1) /\ tx_pn \in 0..(PN_LIMIT - 1)
    /\ out_state_reg \in {"OUT_IDLE", "OUT_HEADER", "OUT_ENC"}
    /\ count_reg \in 0..BUFFER_BYTES
    /\ pending \in Metas /\ current \in Metas
    /\ Len(frame_fifo) <= CAPTURE_DEPTH

(* The frame f as it has to leave, k-th of all: its own header, its        *)
(* payload, and a trailer with its own EtherType and tag and with the      *)
(* packet number the tag was computed with; its own sideband throughout.   *)
PacketNumber(k) == ((PN_INIT + k) - 1) % PN_LIMIT
BeatsOf(f)      == (f.bytes + 7) \div 8
LastKeep(f)     == f.bytes - 8 * (BeatsOf(f) - 1)
Meta(f, k) == [frame |-> f.frame, iv_pn |-> PacketNumber(k), pn |-> PacketNumber(k),
               ethertype |-> f.frame]
Encrypted(f, k) == FrameWords(f.frame, BeatsOf(f), LastKeep(f), Meta(f, k))
Sealed(f, k) ==
    [i \in 1..(BeatsOf(f) + 5) |->
        [beat  |-> IF i <= 2 THEN HeaderBeat(i, f.frame) ELSE EncBeat(Encrypted(f, k)[i - 2]),
         tuser |-> f.frame]]

(* What leaves the wrapper is a line of sealed frames: none lost, repeated *)
(* or overtaken, and every whole frame that was taken leaves.              *)
AcceptedFrames == [frame : 1..MAX_FRAMES, bytes : 1..(8 * MAX_BEATS)]
Line == INSTANCE SealedLine WITH Frames <- AcceptedFrames
LineOfSealedFrames == Line!LineSpec

(* The same of the frame on its way out, word by word; without the         *)
(* sideband, which is a property of its own.                               *)
Beats(s) == [i \in 1..Len(s) |-> s[i].beat]
SentWhole ==
    /\ Len(sent) <= Len(accepted)
    /\ \A k \in 1..Len(sent) : Beats(sent[k]) = Beats(Sealed(accepted[k], k))
    /\ sending # <<>> =>
          /\ Len(sent) < Len(accepted)
          /\ LET whole == Sealed(accepted[Len(sent) + 1], Len(sent) + 1)
             IN  Len(sending) <= Len(whole) /\ Beats(sending) = Beats(SubSeq(whole, 1, Len(sending)))

(* The sideband of a frame, which carries its transmit tag, leaves with    *)
(* the frame it came with.                                                 *)
TuserFollowsFrame ==
    \A k \in 1..Len(sent) : \A i \in 1..Len(sent[k]) : sent[k][i].tuser = accepted[k].frame

(* Three queues and two counters in two clock domains meet: whenever a tag *)
(* may be taken, an EtherType waits, it is that of the tag's frame, and    *)
(* the packet number sent along is the one in the tag's IV.  In particular *)
(* no tag is lost to an empty EtherType queue.                             *)
TagMeetsItsFrame ==
    tags # <<>> /\ s_tag_ready =>
        /\ ethertype_fifo # <<>>
        /\ Head(ethertype_fifo) = Head(tags).frame
        /\ pn_sideband_reg = Head(tags).pn

(* The regression test: once nothing is under way, as many frames have     *)
(* come out as have gone in.                                               *)
FramesAccountedFor ==
    /\ ~in_frame_active_reg /\ to_cipher = <<>> /\ from_cipher = <<>> /\ tags = <<>>
    /\ state_reg = "ST_CAPTURE" /\ ~tag_pending_valid_reg /\ out_state_reg = "OUT_IDLE"
    => in_frame - 1 = Len(sent)

-----------------------------------------------------------------------------
(* The inductive invariant behind the safety properties, in parts.  Each   *)
(* part of a frame waits in a queue of its own; every queue holds a window *)
(* of the frames accepted, named by the number of frames that left it.     *)
Count(b) == IF b THEN 1 ELSE 0

encrypted_frames == Len(accepted) - Len(to_cipher)
tagged_frames    == encrypted_frames - Len(tags)          \* tag taken
captured_frames  == encrypted_frames - Len(from_cipher)   \* payload taken
started_frames   == Len(sent) + Count(out_state_reg # "OUT_IDLE")

Words == [frame : Nat, pos : Nat, keep : 0..8, from : Nat, auth : 0..8,
          meta : Metas, last : BOOLEAN]

QueueTypes ==
    /\ in_payload + in_header_count_reg <= 8 * MAX_BEATS
    /\ in_frame_active_reg \in BOOLEAN /\ tag_pending_valid_reg \in BOOLEAN
    /\ header_pop_d1_reg \in BOOLEAN /\ ethertype_pop_d1_reg \in BOOLEAN
    /\ out_frame_active_reg \in BOOLEAN /\ last_pending_reg \in BOOLEAN
    /\ accepted \in Seq(AcceptedFrames)
    /\ to_cipher \in Seq(AcceptedFrames) /\ from_cipher \in Seq(AcceptedFrames)
    /\ tags \in Seq([frame : 1..MAX_FRAMES, pn : 0..(PN_LIMIT - 1)])
    /\ frame_fifo \in Seq([frame : Nat, pos : Nat, keep : 1..8, last : BOOLEAN])
    /\ sent_bytes \in Nat /\ (sent_bytes # 0 => from_cipher # <<>>)
    /\ from_cipher # <<>> => sent_bytes < from_cipher[1].bytes
    /\ auth_index_reg \in 0..23 /\ out_auth_fill_reg \in 0..7 /\ out_fifo_last_reg \in BOOLEAN
    /\ m_axis \in Words

CipherInOrder ==
    /\ Len(to_cipher) <= Len(accepted)
    /\ \A i \in 1..Len(to_cipher) : to_cipher[i] = accepted[encrypted_frames + i]
    /\ tx_pn = PacketNumber(encrypted_frames + 1)

TagsInOrder ==
    /\ Len(tags) <= encrypted_frames
    /\ \A i \in 1..Len(tags) :
          tags[i] = [frame |-> accepted[tagged_frames + i].frame,
                     pn    |-> PacketNumber(tagged_frames + i)]
    /\ pn_sideband_reg = PacketNumber(tagged_frames + 1)

(* An EtherType is popped in the cycle after its tag was taken, in which   *)
(* macsec_tag_append holds that tag and takes no other.                    *)
EthertypesInOrder ==
    /\ ethertype_pop_d1_reg => tag_pending_valid_reg /\ tagged_frames > 0
    /\ LET gone == tagged_frames - Count(ethertype_pop_d1_reg)
       IN  /\ Len(ethertype_fifo) = Len(accepted) - gone
           /\ \A i \in 1..Len(ethertype_fifo) : ethertype_fifo[i] = accepted[gone + i].frame

Side == TypeOK /\ QueueTypes /\ CipherInOrder /\ TagsInOrder /\ EthertypesInOrder

(* What holds in addition when no frame is a header only and the sink is   *)
(* always ready.                                                           *)
Numbered ==
    /\ in_frame = Len(accepted) + 1
    /\ \A k \in 1..Len(accepted) : accepted[k].frame = k
    /\ in_frame_active_reg => in_frame_tuser_reg = in_frame

PayloadsInOrder ==
    /\ Len(from_cipher) <= encrypted_frames
    /\ \A i \in 1..Len(from_cipher) : from_cipher[i] = accepted[captured_frames + i]

HeadersInOrder ==
    /\ header_pop_d1_reg => out_state_reg = "OUT_HEADER"
    /\ out_state_reg = "OUT_HEADER" => out_header_reg = Len(sent) + 1
    /\ LET gone == started_frames - Count(header_pop_d1_reg)
       IN  /\ Len(header_fifo) = Len(accepted) - gone
           /\ \A i \in 1..Len(header_fifo) : header_fifo[i] = gone + i

TuserInOrder ==
    /\ out_frame_active_reg <=> out_state_reg # "OUT_IDLE"
    /\ out_frame_active_reg => out_frame_tuser_reg = Len(sent) + 1
    /\ Len(tuser_fifo) = Len(accepted) - started_frames
    /\ \A i \in 1..Len(tuser_fifo) : tuser_fifo[i] = started_frames + i

(* The frame that is captured or released, and the words already taken.    *)
this_number == Len(sent) + 1
this_frame  == accepted[this_number]
this_words  == Encrypted(this_frame, this_number)
words_taken == IF out_state_reg = "OUT_ENC" THEN Len(sending) - 2 ELSE 0

(* Beats j+1, j+2, ... of the frame wait in the capture FIFO. *)
Beat(f, i) == [frame |-> f.frame, pos |-> i, keep |-> IF i = BeatsOf(f) THEN LastKeep(f) ELSE 8,
               last |-> i = BeatsOf(f)]
HoldsFrom(j) ==
    /\ Len(frame_fifo) = BeatsOf(this_frame) - j
    /\ \A i \in 1..Len(frame_fifo) : frame_fifo[i] = Beat(this_frame, j + i)

busy == state_reg \in {"ST_OUTPUT_PAYLOAD", "ST_OUTPUT_AUTH"}

(* The frame captured and the tags taken are those of the frame in hand,   *)
(* or of the next.                                                         *)
TagsHeld ==
    /\ captured_frames = Len(sent) + Count(state_reg # "ST_CAPTURE")
    /\ tagged_frames = Len(sent) + Count(busy) + Count(tag_pending_valid_reg)
    /\ tag_pending_valid_reg => pending = Meta(accepted[tagged_frames], tagged_frames)
    /\ busy => current = Meta(this_frame, this_number)
    /\ state_reg # "ST_CAPTURE" => sent_bytes = 0

Capturing ==
    /\ m_axis = NoWord /\ sent_bytes = 8 * Len(frame_fifo)
    /\ \A i \in 1..Len(frame_fifo) :
          frame_fifo[i] = [frame |-> this_number, pos |-> i, keep |-> 8, last |-> FALSE]

Waiting == m_axis = NoWord /\ HoldsFrom(0)

Releasing ==
    \/ m_axis = NoWord /\ ~out_fifo_last_reg /\ HoldsFrom(0)
    \/ /\ words_taken < BeatsOf(this_frame)
       /\ m_axis = this_words[words_taken + 1]
       /\ HoldsFrom(words_taken + 1)
       /\ out_fifo_last_reg <=> words_taken + 1 = BeatsOf(this_frame)
       /\ out_fifo_last_reg => out_auth_fill_reg = 8 - LastKeep(this_frame)

Trailing ==
    /\ frame_fifo = <<>> /\ out_state_reg = "OUT_ENC"
    /\ words_taken \in BeatsOf(this_frame)..(BeatsOf(this_frame) + 2)
    /\ m_axis = this_words[words_taken + 1]
    /\ auth_index_reg = (8 - LastKeep(this_frame)) + 8 * (words_taken - BeatsOf(this_frame))

TagAppend ==
    /\ TagsHeld
    /\ \/ state_reg = "ST_CAPTURE" /\ Capturing
       \/ state_reg = "ST_WAITTAG" /\ Waiting
       \/ state_reg = "ST_OUTPUT_PAYLOAD" /\ Releasing
       \/ state_reg = "ST_OUTPUT_AUTH" /\ Trailing

Output ==
    /\ out_state_reg # "OUT_IDLE" => busy /\ m_axis # NoWord
    /\ out_state_reg = "OUT_IDLE" => sending = <<>>
    /\ out_state_reg = "OUT_HEADER" => Len(sending) = 1
    /\ out_state_reg = "OUT_ENC" => Len(sending) >= 2
    /\ Len(sending) \in Nat /\ Len(sent) \in Nat
    /\ sending = [i \in 1..Len(sending) |-> Sealed(this_frame, this_number)[i]]
    /\ sent = [k \in 1..Len(sent) |-> Sealed(accepted[k], k)]

(* The compactor never has to refuse a beat of a frame that has begun.     *)
Compactor ==
    /\ count_reg <= 15
    /\ last_pending_reg => out_state_reg = "OUT_IDLE" /\ count_reg > 0

Flow == Numbered /\ PayloadsInOrder /\ HeadersInOrder /\ TuserInOrder /\ TagAppend
        /\ Output /\ Compactor

IInv == Side /\ (~BACKPRESSURE /\ ~RUNTS => Flow)
=============================================================================
