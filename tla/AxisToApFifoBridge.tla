------------------------- MODULE AxisToApFifoBridge -------------------------
(***************************************************************************)
(* The bridge that packs a payload stream of 64-bit beats into 128-bit     *)
(* blocks and hands blocks, the frame's length and an end marker to the    *)
(* cipher through three separate clock-crossing FIFOs                      *)
(* (src/macsec/axis_to_ap_fifo_bridge.v).                                  *)
(*                                                                         *)
(* One MacEdge is one rising edge of mac_clk: all registers of the domain  *)
(* change together.  One HlsEdge is one rising edge of hls_clk, seen from  *)
(* the bridge: the cipher pops some of the FIFOs.  The clocks are          *)
(* unrelated (SAME_CLK = 0), so the edges interleave freely.               *)
(***************************************************************************)
EXTENDS Integers, Sequences, CdcFifo

CONSTANTS
    PLAIN_CAP,         \* blocks the plaintext FIFO holds (MACSEC_CDC_FIFO_DEPTH)
    LEN_CAP,           \* words the length FIFO and the end FIFO hold
    META_QUEUE_DEPTH,  \* frames the metadata queue in front of them holds
    LAST_KEEPS,        \* byte counts a frame's last beat may have
    MAX_BEATS,         \* bound: beats of a frame
    MAX_FRAMES         \* bound: frames of a behaviour

ASSUME DepthAssumption ==
    /\ PLAIN_CAP \in Nat \ {0} /\ LEN_CAP \in Nat
    /\ LEN_CAP >= PLAIN_CAP
    /\ META_QUEUE_DEPTH \in Nat /\ META_QUEUE_DEPTH >= 2

ASSUME BoundAssumption ==
    /\ LAST_KEEPS \subseteq 1..8
    /\ MAX_BEATS \in Nat /\ MAX_FRAMES \in Nat

VARIABLES
    state,               \* the packing FSM
    block_data,          \* the two halves of the block being packed
    block_valid,         \* block_data waits for room in the plaintext FIFO
    first_beat_pending,  \* only the lower half of block_data is this frame's
    flush_in_progress,   \* second and later cycles of ST_FRAME_END
    frame_byte_count,
    frame_meta_valid,    \* one-cycle pulse with frame_meta_length_bits
    frame_meta_length_bits,
    meta_enq_pending,    \* the single slot in front of the metadata queue
    meta_enq_len,
    meta,                \* meta_len_mem between the read and write pointers
    length_fifo_wr_en,   \* registered write of length_store, and meta_deq_reg
    length_store,
    plaintext, length, end_fifo,  \* the three FIFOs
    owed,                \* blocks of its current frame the cipher still reads
    ended                \* history: the frames whose last beat was packed

fsmVars  == <<state, block_data, block_valid, first_beat_pending,
              flush_in_progress, frame_byte_count, frame_meta_valid,
              frame_meta_length_bits, ended>>
metaVars == <<meta_enq_pending, meta_enq_len, meta, length_fifo_wr_en, length_store>>
fifoVars == <<plaintext, length, end_fifo>>
vars     == <<fsmVars, metaVars, fifoVars, owed>>

-----------------------------------------------------------------------------
(* Lengths are in bits; a block is 128 of them.                            *)
BlocksOf(bits) == (bits + 127) \div 128

(* A beat is named by its frame and its position in it. *)
Beat(f, i) == <<f, i>>
NoBeat     == <<0, 0>>

(* Blocks in all frames up to the k-th that ended. *)
BlocksUpTo(k) == IF k = 0 THEN 0 ELSE ended[k].blocks

Init ==
    /\ state = "ST_IDLE"
    /\ block_data = <<NoBeat, NoBeat>>
    /\ block_valid = FALSE
    /\ first_beat_pending = FALSE
    /\ flush_in_progress = FALSE
    /\ frame_byte_count = 0
    /\ frame_meta_valid = FALSE
    /\ frame_meta_length_bits = 0
    /\ meta_enq_pending = FALSE
    /\ meta_enq_len = 0
    /\ meta = <<>>
    /\ length_fifo_wr_en = FALSE
    /\ length_store = 0
    /\ plaintext = EmptyFifo
    /\ length = EmptyFifo
    /\ end_fifo = EmptyFifo
    /\ owed = 0
    /\ ended = <<>>

-----------------------------------------------------------------------------
(* The packing FSM.                                                        *)

s_axis_tready ==
    /\ state \in {"ST_IDLE", "ST_FIRST_BEAT", "ST_HOLD"}
    /\ ~Full(plaintext, PLAIN_CAP)
    /\ ~block_valid
    /\ Len(meta) < META_QUEUE_DEPTH

(* The beat offered next.  The compactor in front of the bridge emits full *)
(* beats, except for a shorter but never empty last one, so the tkeep = 0  *)
(* branches of the FSM are unreachable and left out.                       *)
next_beat == IF state = "ST_IDLE" THEN 1 ELSE (frame_byte_count \div 8) + 1
this_beat == Beat(Len(ended) + 1, next_beat)
Offered(keep, last) ==
    /\ IF last THEN keep \in LAST_KEEPS ELSE keep = 8 /\ next_beat < MAX_BEATS
    /\ state = "ST_IDLE" => Len(ended) < MAX_FRAMES

(* block_valid when the case branch of the cycle does not set it. *)
block_valid_kept == block_valid /\ Full(plaintext, PLAIN_CAP)

(* The cycles that take no beat: nothing is offered or tready is low. *)
NoBeatTaken ==
    /\ state \in {"ST_IDLE", "ST_FIRST_BEAT", "ST_HOLD"}
    /\ block_valid' = block_valid_kept
    /\ flush_in_progress' = (state # "ST_HOLD" /\ flush_in_progress)
    /\ frame_meta_valid' = FALSE
    /\ UNCHANGED <<state, block_data, first_beat_pending, frame_byte_count,
                   frame_meta_length_bits, ended>>

(* Mutant of IdleBeat: the byte count goes on from the frame before. *)
IdleBeatNoReset(keep, last) ==
    /\ state = "ST_IDLE" /\ s_axis_tready /\ Offered(keep, last)
    /\ frame_byte_count' = frame_byte_count + keep
    /\ block_data' = <<this_beat, block_data[2]>>
    /\ block_valid' = FALSE
    /\ first_beat_pending' = TRUE
    /\ state' = IF last THEN "ST_FRAME_END" ELSE "ST_HOLD"
    /\ frame_meta_valid' = FALSE
    /\ UNCHANGED <<flush_in_progress, frame_meta_length_bits, ended>>

(* A frame's first beat starts its byte count and fills the lower half. *)
IdleBeat(keep, last) ==
    /\ state = "ST_IDLE" /\ s_axis_tready /\ Offered(keep, last)
    /\ frame_byte_count' = keep
    /\ block_data' = <<this_beat, block_data[2]>>
    /\ block_valid' = FALSE
    /\ first_beat_pending' = TRUE
    /\ state' = IF last THEN "ST_FRAME_END" ELSE "ST_HOLD"
    /\ frame_meta_valid' = FALSE
    /\ UNCHANGED <<flush_in_progress, frame_meta_length_bits, ended>>

(* An odd beat fills the lower half. *)
FirstBeat(keep, last) ==
    /\ state = "ST_FIRST_BEAT" /\ s_axis_tready /\ Offered(keep, last)
    /\ frame_byte_count' = frame_byte_count + keep
    /\ block_data' = <<this_beat, block_data[2]>>
    /\ first_beat_pending' = TRUE
    /\ block_valid' = block_valid_kept
    /\ state' = IF last THEN "ST_FRAME_END" ELSE "ST_HOLD"
    /\ frame_meta_valid' = FALSE
    /\ UNCHANGED <<flush_in_progress, frame_meta_length_bits, ended>>

(* An even beat completes the block. *)
HoldBeat(keep, last) ==
    /\ state = "ST_HOLD" /\ s_axis_tready /\ Offered(keep, last)
    /\ frame_byte_count' = frame_byte_count + keep
    /\ block_data' = <<block_data[1], this_beat>>
    /\ block_valid' = TRUE
    /\ first_beat_pending' = FALSE
    /\ state' = IF last THEN "ST_FRAME_END" ELSE "ST_FIRST_BEAT"
    /\ flush_in_progress' = FALSE
    /\ frame_meta_valid' = FALSE
    /\ UNCHANGED <<frame_meta_length_bits, ended>>

(* The history's record of the frame that ends in this cycle. *)
EndFrame == ended' = Append(ended,
    [bits   |-> frame_byte_count * 8,
     blocks |-> Len(plaintext.mem) + (IF block_valid \/ first_beat_pending THEN 1 ELSE 0)])

(* Mutants of FrameEndFlush: the half block of an odd frame is not flushed; *)
(* only an odd frame's length is announced.                                *)
FrameEndNoFlush ==
    /\ state = "ST_FRAME_END" /\ ~flush_in_progress
    /\ flush_in_progress' = TRUE
    /\ frame_meta_valid' = (frame_byte_count # 0)
    /\ frame_meta_length_bits' = frame_byte_count * 8
    /\ block_valid' = block_valid_kept
    /\ first_beat_pending' = FALSE
    /\ EndFrame
    /\ UNCHANGED <<state, block_data, frame_byte_count>>
FrameEndNoLength ==
    /\ state = "ST_FRAME_END" /\ ~flush_in_progress
    /\ flush_in_progress' = TRUE
    /\ frame_meta_valid' = first_beat_pending
    /\ frame_meta_length_bits' = frame_byte_count * 8
    /\ block_valid' = (first_beat_pending \/ block_valid_kept)
    /\ first_beat_pending' = FALSE
    /\ EndFrame
    /\ UNCHANGED <<state, block_data, frame_byte_count>>

(* First cycle of ST_FRAME_END: announce the length, flush a half block,   *)
(* whose upper half still holds the beat of an earlier block.              *)
FrameEndFlush ==
    /\ state = "ST_FRAME_END" /\ ~flush_in_progress
    /\ flush_in_progress' = TRUE
    /\ frame_meta_valid' = (frame_byte_count # 0)
    /\ frame_meta_length_bits' = frame_byte_count * 8
    /\ block_valid' = (first_beat_pending \/ block_valid_kept)
    /\ first_beat_pending' = FALSE
    /\ EndFrame
    /\ UNCHANGED <<state, block_data, frame_byte_count>>

(* Mutant of FrameEndWait: the pulse lasts while the block waits. *)
FrameEndWaitPulse ==
    /\ state = "ST_FRAME_END" /\ flush_in_progress
    /\ IF block_valid
         THEN UNCHANGED <<state, flush_in_progress>>
         ELSE state' = "ST_IDLE" /\ flush_in_progress' = FALSE
    /\ block_valid' = block_valid_kept
    /\ frame_meta_valid' = (frame_meta_valid /\ block_valid)
    /\ UNCHANGED <<block_data, first_beat_pending, frame_byte_count,
                   frame_meta_length_bits, ended>>

(* Later cycles: back to ST_IDLE once the block has left. *)
FrameEndWait ==
    /\ state = "ST_FRAME_END" /\ flush_in_progress
    /\ IF block_valid
         THEN UNCHANGED <<state, flush_in_progress>>
         ELSE state' = "ST_IDLE" /\ flush_in_progress' = FALSE
    /\ block_valid' = block_valid_kept
    /\ frame_meta_valid' = FALSE
    /\ UNCHANGED <<block_data, first_beat_pending, frame_byte_count,
                   frame_meta_length_bits, ended>>

FsmEdge ==
    \/ NoBeatTaken
    \/ \E keep \in 1..8, last \in BOOLEAN :
          IdleBeat(keep, last) \/ FirstBeat(keep, last) \/ HoldBeat(keep, last)
    \/ FrameEndFlush
    \/ FrameEndWait

-----------------------------------------------------------------------------
(* The metadata path: pulse -> one slot -> queue -> registered FIFO write. *)

meta_can_enq == meta_enq_pending /\ Len(meta) < META_QUEUE_DEPTH
meta_can_deq == meta # <<>> /\ ~Full(length, LEN_CAP) /\ ~Full(end_fifo, LEN_CAP)

(* Mutant of MetaEdge: the slot is not freed when its length is queued. *)
MetaEdgeKeepSlot ==
    /\ meta_enq_pending' = (meta_enq_pending \/ frame_meta_valid)
    /\ meta_enq_len' = IF frame_meta_valid THEN frame_meta_length_bits ELSE meta_enq_len
    /\ LET rest == IF meta_can_deq THEN Tail(meta) ELSE meta
       IN  meta' = IF meta_can_enq THEN Append(rest, meta_enq_len) ELSE rest
    /\ length_fifo_wr_en' = meta_can_deq
    /\ length_store' = IF meta_can_deq THEN Head(meta) ELSE length_store

MetaEdge ==
    /\ meta_enq_pending' = ((meta_enq_pending \/ frame_meta_valid) /\ ~meta_can_enq)
    /\ meta_enq_len' = IF frame_meta_valid THEN frame_meta_length_bits ELSE meta_enq_len
    /\ LET rest == IF meta_can_deq THEN Tail(meta) ELSE meta
       IN  meta' = IF meta_can_enq THEN Append(rest, meta_enq_len) ELSE rest
    /\ length_fifo_wr_en' = meta_can_deq
    /\ length_store' = IF meta_can_deq THEN Head(meta) ELSE length_store

(* One edge of mac_clk.  A block, a length or an end marker offered to a   *)
(* full FIFO would be lost.                                                *)
MacEdge ==
    /\ FsmEdge
    /\ MetaEdge
    /\ plaintext' = WrEdge(plaintext, PLAIN_CAP, block_valid, block_data)
    /\ length' = WrEdge(length, LEN_CAP, length_fifo_wr_en, length_store)
    /\ end_fifo' = WrEdge(end_fifo, LEN_CAP, length_fifo_wr_en, TRUE)
    /\ UNCHANGED owed

-----------------------------------------------------------------------------
(* The cipher, as the bridge may rely on it: it pops a length together     *)
(* with its end marker only when it owes no block of an earlier frame, and *)
(* pops exactly the blocks that length announces.  A block may be popped   *)
(* in the same cycle as the length.                                        *)
HlsEdge(pop_length, pop_block) ==
    /\ pop_length => owed = 0 /\ NonEmpty(length) /\ NonEmpty(end_fifo)
    /\ LET due == owed + IF pop_length THEN BlocksOf(FifoHead(length)) ELSE 0
       IN  /\ pop_block => due > 0 /\ NonEmpty(plaintext)
           /\ owed' = IF pop_block THEN due - 1 ELSE due
    /\ plaintext' = RdEdge(plaintext, pop_block)
    /\ length' = RdEdge(length, pop_length)
    /\ end_fifo' = RdEdge(end_fifo, pop_length)
    /\ UNCHANGED <<fsmVars, metaVars>>

Next == MacEdge \/ \E pl, pb \in BOOLEAN : HlsEdge(pl, pb)

Spec == Init /\ [][Next]_vars

(* Both clocks run; the source always has the next beat of a frame it has  *)
(* begun; the cipher starts a frame and takes a block whenever it can.     *)
TakesBeat == MacEdge /\ frame_byte_count' # frame_byte_count
Fairness ==
    /\ WF_vars(MacEdge)
    /\ SF_vars(TakesBeat)
    /\ WF_vars(\E pl, pb \in BOOLEAN : HlsEdge(pl, pb))
    /\ SF_vars(\E pb \in BOOLEAN : HlsEdge(TRUE, pb))
    /\ SF_vars(\E pl \in BOOLEAN : HlsEdge(pl, TRUE))

LiveSpec == Spec /\ Fairness

-----------------------------------------------------------------------------
States == {"ST_IDLE", "ST_FIRST_BEAT", "ST_HOLD", "ST_FRAME_END"}
Beats  == Nat \X Nat
Block  == Beats \X Beats
EndedFrame == [bits: Nat, blocks: Nat]

TypeOK ==
    /\ state \in States
    /\ block_data \in Block
    /\ block_valid \in BOOLEAN /\ first_beat_pending \in BOOLEAN
    /\ flush_in_progress \in BOOLEAN
    /\ frame_byte_count \in Nat
    /\ frame_meta_valid \in BOOLEAN /\ frame_meta_length_bits \in Nat
    /\ meta_enq_pending \in BOOLEAN /\ meta_enq_len \in Nat
    /\ meta \in Seq(Nat) /\ Len(meta) <= META_QUEUE_DEPTH
    /\ length_fifo_wr_en \in BOOLEAN /\ length_store \in Nat
    /\ FifoOK(plaintext, Block)
    /\ FifoOK(length, Nat)
    /\ FifoOK(end_fifo, BOOLEAN)
    /\ owed \in Nat
    /\ ended \in Seq(EndedFrame)

(* The registered write of a length and its end marker is decided one      *)
(* cycle before it happens, from a full flag that does not count the write *)
(* under way; it must nevertheless never meet a full FIFO, which would     *)
(* drop the length and shift every later frame.                            *)
NoLengthDropped ==
    length_fifo_wr_en => ~Full(length, LEN_CAP) /\ ~Full(end_fifo, LEN_CAP)

(* The single slot between the FSM and the metadata queue is never         *)
(* overwritten: no second length is announced while one waits there.       *)
MetaSlotFree == frame_meta_valid => ~meta_enq_pending

Count(b) == IF b THEN 1 ELSE 0

(* Every frame's length enters the length FIFO once and in order, an end   *)
(* marker with it, and one that is not there yet is on its way.            *)
LengthsInOrder ==
    /\ \A k \in 1..Len(length.mem) : k <= Len(ended) /\ length.mem[k] = ended[k].bits
    /\ Len(ended) = Len(length.mem) + Count(length_fifo_wr_en) + Len(meta)
                     + Count(meta_enq_pending) + Count(frame_meta_valid)
    /\ Len(end_fifo.mem) = Len(length.mem) /\ end_fifo.rd = length.rd

(* Three FIFOs, one frame: the blocks the cipher has popped and still owes *)
(* are exactly those of the frames whose length it popped, so it never     *)
(* encrypts a block of one frame under the length of another.              *)
CipherAligned == plaintext.rd + owed = BlocksUpTo(length.rd)

(* A beat is half a block: odd beats go to the lower half. *)
BeatsOf(bits) == (bits + 63) \div 64
Half(i)       == IF i % 2 = 1 THEN 1 ELSE 2

(* The frame's length announces exactly the blocks the FSM packed for it,  *)
(* and they hold its beats in order (a half-filled last block keeps an old *)
(* beat in its upper half, beyond the announced length).                   *)
FramesPacked ==
    \A k \in 1..Len(ended) :
        /\ BlocksUpTo(k) - BlocksUpTo(k - 1) = BlocksOf(ended[k].bits)
        /\ \A i \in 1..BeatsOf(ended[k].bits) :
              LET b == BlocksUpTo(k - 1) + (i + 1) \div 2
              IN  b <= Len(plaintext.mem) => plaintext.mem[b][Half(i)] = Beat(k, i)

(* A frame whose first beat was taken is packed to its end: neither the    *)
(* metadata queue nor the FIFOs, full of earlier frames, stop it for good. *)
FrameCompletes == state \in {"ST_FIRST_BEAT", "ST_HOLD"} ~> state = "ST_IDLE"

-----------------------------------------------------------------------------
(* The inductive invariant behind the safety properties, in parts.         *)

(* The length FIFO and the end FIFO move in lockstep. *)
Lockstep ==
    /\ Len(end_fifo.mem) = Len(length.mem)
    /\ end_fifo.rd = length.rd /\ end_fifo.rs1 = length.rs1
    /\ end_fifo.rs2 = length.rs2

(* The lengths in flight are those of the newest frames, oldest first.     *)
InFlight ==
    LET n == Len(length.mem) + Count(length_fifo_wr_en)
    IN  /\ length_fifo_wr_en => length_store = ended[Len(length.mem) + 1].bits
        /\ \A i \in 1..Len(meta) : meta[i] = ended[n + i].bits
        /\ meta_enq_pending => meta_enq_len = ended[n + Len(meta) + 1].bits
        /\ frame_meta_valid => frame_meta_length_bits = ended[Len(ended)].bits

(* Every ended frame has at least one block, as many as its length says.   *)
Cumulative ==
    /\ \A i, j \in 0..Len(ended) : i <= j => BlocksUpTo(j) - BlocksUpTo(i) >= j - i
    /\ \A k \in 1..Len(ended) :
          BlocksUpTo(k) - BlocksUpTo(k - 1) = BlocksOf(ended[k].bits)

(* Blocks of the current frame packed so far, the waiting one included. *)
Done == (Len(plaintext.mem) + Count(block_valid)) - BlocksUpTo(Len(ended))

(* Per state, the bytes taken are those of the blocks packed.              *)
Packing ==
    /\ state = "ST_IDLE" =>
          ~block_valid /\ ~first_beat_pending /\ ~flush_in_progress /\ Done = 0
    /\ state = "ST_FIRST_BEAT" =>
          /\ ~first_beat_pending /\ ~flush_in_progress
          /\ Done > 0 /\ frame_byte_count = 16 * Done
    /\ state = "ST_HOLD" =>
          /\ first_beat_pending /\ ~block_valid /\ ~flush_in_progress
          /\ Done >= 0 /\ frame_byte_count = 16 * Done + 8
    /\ state = "ST_FRAME_END" /\ ~flush_in_progress =>
          /\ ~(block_valid /\ first_beat_pending)
          /\ Done >= 0 /\ frame_byte_count > 0
          /\ frame_byte_count <= 16 * (Done + Count(first_beat_pending))
          /\ frame_byte_count > 16 * ((Done + Count(first_beat_pending)) - 1)
    /\ state = "ST_FRAME_END" /\ flush_in_progress => ~first_beat_pending /\ Done = 0

(* Both read pointers pass the synchronisers together, so at every stage   *)
(* the write side sees a block freed only with its frame's length.         *)
Snapshots ==
    /\ plaintext.rs1 <= BlocksUpTo(length.rs1)
    /\ plaintext.rs2 <= BlocksUpTo(length.rs2)
    /\ Len(plaintext.mem) - plaintext.rs2 <= PLAIN_CAP

(* A frame takes the FSM so long that its length has left the slot before  *)
(* the next is announced, and the queue holds one length at most.          *)
MetaTiming ==
    /\ frame_meta_valid => state = "ST_FRAME_END" /\ flush_in_progress /\ ~meta_enq_pending
    /\ state \in {"ST_FIRST_BEAT", "ST_HOLD"} \/ (state = "ST_FRAME_END" /\ ~flush_in_progress)
         => ~meta_enq_pending
    /\ Len(meta) <= 1
    /\ meta # <<>> => ~meta_enq_pending /\ ~length_fifo_wr_en

(* Where beat i of frame k belongs, and what is there: a block of the      *)
(* plaintext FIFO or, beyond its newest, the block being packed.           *)
Stored(b, h)  == IF b <= Len(plaintext.mem) THEN plaintext.mem[b][h] ELSE block_data[h]
InPlace(k, i) == Stored(BlocksUpTo(k - 1) + (i + 1) \div 2, Half(i)) = Beat(k, i)

(* Every beat taken is in its place, those of the current frame included.  *)
Packed ==
    /\ \A k \in 1..Len(ended) : \A i \in 1..BeatsOf(ended[k].bits) : InPlace(k, i)
    /\ state # "ST_IDLE" /\ ~flush_in_progress =>
          \A i \in 1..((frame_byte_count + 7) \div 8) : InPlace(Len(ended) + 1, i)

IInv ==
    /\ TypeOK /\ Lockstep /\ LengthsInOrder /\ InFlight /\ Cumulative /\ Packing
    /\ CipherAligned /\ Snapshots /\ MetaTiming /\ NoLengthDropped /\ Packed
=============================================================================
