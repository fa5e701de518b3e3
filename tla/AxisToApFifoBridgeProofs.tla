---------------------- MODULE AxisToApFifoBridgeProofs ----------------------
(***************************************************************************)
(* Proofs about the plaintext bridge, for every depth of its FIFOs, every  *)
(* number of frames and every frame length.                                *)
(***************************************************************************)
EXTENDS AxisToApFifoBridge, SequenceTheorems, TLAPS

(* What one edge of the write clock does to a FIFO.                        *)
Written(Word, f, full, en, d, g) ==
    /\ FifoOK(g, Word)
    /\ g.rd = f.rd /\ g.rs1 = f.rd /\ g.rs2 = f.rs1
    /\ en /\ ~full => Len(g.mem) = Len(f.mem) + 1 /\ g.mem[Len(f.mem) + 1] = d
    /\ ~(en /\ ~full) => Len(g.mem) = Len(f.mem)
    /\ \A i \in 1..Len(f.mem) : g.mem[i] = f.mem[i]

LEMMA WrEdgeFacts ==
    ASSUME NEW Word, NEW f, FifoOK(f, Word), NEW cap \in Nat,
           NEW en \in BOOLEAN, NEW d \in Word
    PROVE  Written(Word, f, Full(f, cap), en, d, WrEdge(f, cap, en, d))
<1> DEFINE g == WrEdge(f, cap, en, d)
<1>1. CASE en /\ ~Full(f, cap)
  <2>1. g.mem = Append(f.mem, d)  BY <1>1 DEF WrEdge
  <2>2. QED  BY <1>1, <2>1 DEF Written, WrEdge, FifoOK
<1>2. CASE ~(en /\ ~Full(f, cap))
  BY <1>2 DEF Written, WrEdge, FifoOK
<1>3. QED  BY <1>1, <1>2

(* What one edge of the read clock does to a FIFO. *)
LEMMA RdEdgeFacts ==
    ASSUME NEW Word, NEW f, FifoOK(f, Word), NEW en \in BOOLEAN, NEW g, g = RdEdge(f, en)
    PROVE  /\ FifoOK(g, Word)
           /\ g.mem = f.mem /\ g.rs1 = f.rs1 /\ g.rs2 = f.rs2
           /\ g.rd = IF en /\ NonEmpty(f) THEN f.rd + 1 ELSE f.rd
           /\ f.rd <= Len(f.mem) /\ (NonEmpty(f) => f.rd + 1 <= Len(f.mem))
  BY DEF RdEdge, FifoOK, NonEmpty

(* The fields of a FIFO are numbers in the order the pointers travel.      *)
LEMMA FifoFields ==
    ASSUME NEW Word, NEW f, FifoOK(f, Word)
    PROVE  /\ f.mem \in Seq(Word) /\ Len(f.mem) \in Nat
           /\ f.rd \in Nat /\ f.rs1 \in Nat /\ f.rs2 \in Nat
           /\ f.rs2 <= f.rs1 /\ f.rs1 <= f.rd /\ f.rd <= Len(f.mem)
  BY DEF FifoOK

(* The numbers the arguments below compute with.                           *)
LEMMA Numbers ==
    ASSUME TypeOK
    PROVE  /\ Len(plaintext.mem) \in Nat /\ plaintext.rd \in Nat
           /\ plaintext.rs1 \in Nat /\ plaintext.rs2 \in Nat
           /\ Len(length.mem) \in Nat /\ length.rd \in Nat
           /\ length.rs1 \in Nat /\ length.rs2 \in Nat
           /\ length.rs2 <= length.rs1 /\ length.rs1 <= length.rd
           /\ length.rd <= Len(length.mem)
           /\ plaintext.rs2 <= plaintext.rs1 /\ plaintext.rs1 <= plaintext.rd
           /\ plaintext.rd <= Len(plaintext.mem)
           /\ Len(ended) \in Nat /\ Len(meta) \in Nat /\ owed \in Nat
           /\ PLAIN_CAP \in Nat \ {0} /\ LEN_CAP \in Nat /\ LEN_CAP >= PLAIN_CAP
           /\ META_QUEUE_DEPTH \in Nat /\ META_QUEUE_DEPTH >= 2
<1>1. FifoOK(plaintext, Block) /\ FifoOK(length, Nat)
  BY DEF TypeOK
<1>2. ended \in Seq(EndedFrame) /\ meta \in Seq(Nat) /\ owed \in Nat
  BY DEF TypeOK
<1>3. /\ Len(plaintext.mem) \in Nat /\ plaintext.rd \in Nat
      /\ plaintext.rs1 \in Nat /\ plaintext.rs2 \in Nat
      /\ plaintext.rs2 <= plaintext.rs1 /\ plaintext.rs1 <= plaintext.rd
      /\ plaintext.rd <= Len(plaintext.mem)
  BY <1>1, FifoFields
<1>4. /\ Len(length.mem) \in Nat /\ length.rd \in Nat
      /\ length.rs1 \in Nat /\ length.rs2 \in Nat
      /\ length.rs2 <= length.rs1 /\ length.rs1 <= length.rd
      /\ length.rd <= Len(length.mem)
  BY <1>1, FifoFields
<1>5. Len(ended) \in Nat /\ Len(meta) \in Nat
  BY <1>2
<1>6. QED
  BY <1>2, <1>3, <1>4, <1>5, DepthAssumption

(* BlocksUpTo is a number of blocks.                                       *)
LEMMA BlocksUpToNat ==
    ASSUME TypeOK, NEW k \in 0..Len(ended)
    PROVE  BlocksUpTo(k) \in Nat
<1>1. ended \in Seq(EndedFrame)  BY DEF TypeOK
<1>2. CASE k = 0  BY <1>2 DEF BlocksUpTo
<1>3. CASE k # 0
  <2>1. k \in 1..Len(ended)  BY <1>1, <1>3
  <2>2. ended[k] \in EndedFrame  BY <1>1, <2>1
  <2>3. QED  BY <1>3, <2>2 DEF BlocksUpTo, EndedFrame
<1>4. QED  BY <1>2, <1>3

(* The newest frames are those whose lengths are still on their way.       *)
LEMMA NewestFrames ==
    ASSUME TypeOK, LengthsInOrder
    PROVE  /\ Count(length_fifo_wr_en) \in {0, 1} /\ Count(meta_enq_pending) \in {0, 1}
           /\ Count(frame_meta_valid) \in {0, 1} /\ Count(block_valid) \in {0, 1}
           /\ Len(length.mem) <= Len(ended) /\ length.rs2 <= Len(ended)
           /\ length.rs1 <= Len(ended) /\ length.rd <= Len(ended)
           /\ Len(ended) = Len(length.mem) + Count(length_fifo_wr_en) + Len(meta)
                            + Count(meta_enq_pending) + Count(frame_meta_valid)
<1>1. Len(ended) = Len(length.mem) + Count(length_fifo_wr_en) + Len(meta)
                     + Count(meta_enq_pending) + Count(frame_meta_valid)
  BY DEF LengthsInOrder
<1>2. /\ Count(length_fifo_wr_en) \in {0, 1} /\ Count(meta_enq_pending) \in {0, 1}
      /\ Count(frame_meta_valid) \in {0, 1} /\ Count(block_valid) \in {0, 1}
  BY DEF Count
<1>3. /\ Len(length.mem) \in Nat /\ Len(ended) \in Nat /\ Len(meta) \in Nat
      /\ length.rd \in Nat /\ length.rs1 \in Nat /\ length.rs2 \in Nat
      /\ length.rs2 <= length.rs1 /\ length.rs1 <= length.rd
      /\ length.rd <= Len(length.mem)
  BY Numbers
<1>4. Len(length.mem) <= Len(ended)
  <2> DEFINE a == Count(length_fifo_wr_en)
             b == Count(meta_enq_pending)
             c == Count(frame_meta_valid)
  <2>1. a \in Nat /\ b \in Nat /\ c \in Nat  BY <1>2
  <2>2. Len(ended) = Len(length.mem) + a + Len(meta) + b + c  BY <1>1
  <2> HIDE DEF a, b, c
  <2>3. QED  BY <1>3, <2>1, <2>2
<1>5. QED  BY <1>1, <1>2, <1>3, <1>4

(* Done is a number of blocks.                                             *)
LEMMA DoneNat ==
    ASSUME TypeOK, Packing
    PROVE  Done \in Nat
<1>1. Done \in Int
  <2>1. Len(plaintext.mem) \in Nat /\ Len(ended) \in Nat  BY Numbers
  <2>2. BlocksUpTo(Len(ended)) \in Nat  BY <2>1, BlocksUpToNat
  <2> DEFINE p == Len(plaintext.mem)
             b == BlocksUpTo(Len(ended))
             c == Count(block_valid)
  <2>3. p \in Int /\ b \in Int /\ c \in Int  BY <2>1, <2>2 DEF Count
  <2>4. Done = (p + c) - b  BY DEF Done
  <2> HIDE DEF p, b, c
  <2>5. QED  BY <2>3, <2>4
<1>2. state \in States /\ flush_in_progress \in BOOLEAN  BY DEF TypeOK
<1>3. QED  BY <1>1, <1>2 DEF Packing, States

(* Frames whose length the write side has not seen leave the length FIFO:  *)
(* each has a block that is still counted in the plaintext FIFO.           *)
LEMMA Outstanding ==
    ASSUME IInv
    PROVE  Len(ended) - length.rs2 <= PLAIN_CAP + Count(block_valid)
<1> DEFINE F == Len(ended)
           P == Len(plaintext.mem)
           r == length.rs2
<1>1. TypeOK /\ LengthsInOrder /\ Cumulative /\ Packing /\ Snapshots
  BY DEF IInv
<1>2. F \in Nat /\ P \in Nat /\ r \in 0..F /\ F \in 0..F /\ plaintext.rs2 \in Nat
      /\ PLAIN_CAP \in Nat /\ Count(block_valid) \in {0, 1}
  BY <1>1, Numbers, NewestFrames
<1>3. BlocksUpTo(F) \in Nat /\ BlocksUpTo(r) \in Nat
  BY <1>1, <1>2, BlocksUpToNat
<1>4. BlocksUpTo(F) - BlocksUpTo(r) >= F - r
  BY <1>1, <1>2 DEF Cumulative
<1>5. (P + Count(block_valid)) - BlocksUpTo(F) >= 0
  BY <1>1, DoneNat DEF Done
<1>6. plaintext.rs2 <= BlocksUpTo(r) /\ P - plaintext.rs2 <= PLAIN_CAP
  BY <1>1 DEF Snapshots
<1>7. QED
  BY <1>2, <1>3, <1>4, <1>5, <1>6

-----------------------------------------------------------------------------
(* The initial state.                                                      *)

LEMMA EmptyOK ==
    ASSUME NEW Word
    PROVE  FifoOK(EmptyFifo, Word) /\ EmptyFifo.mem = <<>> /\ EmptyFifo.rd = 0
           /\ EmptyFifo.rs1 = 0 /\ EmptyFifo.rs2 = 0
  BY DEF FifoOK, EmptyFifo

LEMMA InitInv == Init => IInv
<1> SUFFICES ASSUME Init PROVE IInv
  OBVIOUS
<1>1. TypeOK
  <2>1. FifoOK(plaintext, Block) /\ FifoOK(length, Nat) /\ FifoOK(end_fifo, BOOLEAN)
    BY EmptyOK DEF Init
  <2>2. block_data \in Block
    BY DEF Init, NoBeat, Beats, Block
  <2>3. meta \in Seq(Nat) /\ Len(meta) <= META_QUEUE_DEPTH /\ ended \in Seq(EndedFrame)
    BY DepthAssumption DEF Init
  <2>4. QED  BY <2>1, <2>2, <2>3 DEF TypeOK, Init, States
<1>2. /\ plaintext.mem = <<>> /\ plaintext.rd = 0 /\ plaintext.rs1 = 0 /\ plaintext.rs2 = 0
      /\ length.mem = <<>> /\ length.rd = 0 /\ length.rs1 = 0 /\ length.rs2 = 0
      /\ end_fifo.mem = <<>> /\ end_fifo.rd = 0 /\ end_fifo.rs1 = 0 /\ end_fifo.rs2 = 0
  BY EmptyOK DEF Init
<1>3. Lockstep  BY <1>2 DEF Lockstep
<1>4. LengthsInOrder  BY <1>2 DEF LengthsInOrder, Init, Count
<1>5. InFlight  BY <1>2 DEF InFlight, Init, Count
<1>6. Cumulative  BY DEF Cumulative, Init, BlocksUpTo
<1>7. Packing  BY <1>2 DEF Packing, Done, Init, Count, BlocksUpTo
<1>8. CipherAligned  BY <1>2 DEF CipherAligned, Init, BlocksUpTo
<1>9. Snapshots  BY <1>2, DepthAssumption DEF Snapshots, BlocksUpTo
<1>10. MetaTiming /\ NoLengthDropped  BY DEF MetaTiming, NoLengthDropped, Init
<1>11. Packed  BY DEF Packed, Init
<1>12. QED
  BY <1>1, <1>3, <1>4, <1>5, <1>6, <1>7, <1>8, <1>9, <1>10, <1>11 DEF IInv

-----------------------------------------------------------------------------
(* A step of the cipher.                                                   *)

LEMMA HlsFifos ==
    ASSUME TypeOK, NEW pl \in BOOLEAN, NEW pb \in BOOLEAN, HlsEdge(pl, pb)
    PROVE  /\ FifoOK(plaintext', Block) /\ FifoOK(length', Nat)
           /\ FifoOK(end_fifo', BOOLEAN)
           /\ plaintext'.mem = plaintext.mem /\ length'.mem = length.mem
           /\ end_fifo'.mem = end_fifo.mem
           /\ plaintext'.rs1 = plaintext.rs1 /\ plaintext'.rs2 = plaintext.rs2
           /\ length'.rs1 = length.rs1 /\ length'.rs2 = length.rs2
           /\ end_fifo'.rs1 = end_fifo.rs1 /\ end_fifo'.rs2 = end_fifo.rs2
           /\ plaintext'.rd = plaintext.rd + Count(pb)
           /\ length'.rd = length.rd + Count(pl)
           /\ end_fifo'.rd = end_fifo.rd + Count(pl)
           /\ pl => length.rd + 1 <= Len(length.mem)
<1>1. FifoOK(plaintext, Block) /\ FifoOK(length, Nat) /\ FifoOK(end_fifo, BOOLEAN)
  BY DEF TypeOK
<1>2. /\ plaintext' = RdEdge(plaintext, pb) /\ length' = RdEdge(length, pl)
      /\ end_fifo' = RdEdge(end_fifo, pl)
      /\ (pl => NonEmpty(length) /\ NonEmpty(end_fifo)) /\ (pb => NonEmpty(plaintext))
  BY DEF HlsEdge
<1>3. /\ plaintext.rd \in Nat /\ length.rd \in Nat /\ end_fifo.rd \in Nat
  BY <1>1, FifoFields
<1>4. /\ FifoOK(plaintext', Block) /\ plaintext'.mem = plaintext.mem
      /\ plaintext'.rs1 = plaintext.rs1 /\ plaintext'.rs2 = plaintext.rs2
      /\ plaintext'.rd = plaintext.rd + Count(pb)
  BY <1>1, <1>2, <1>3, RdEdgeFacts DEF Count
<1>5. /\ FifoOK(length', Nat) /\ length'.mem = length.mem
      /\ length'.rs1 = length.rs1 /\ length'.rs2 = length.rs2
      /\ length'.rd = length.rd + Count(pl)
      /\ pl => length.rd + 1 <= Len(length.mem)
  BY <1>1, <1>2, <1>3, RdEdgeFacts DEF Count
<1>6. /\ FifoOK(end_fifo', BOOLEAN) /\ end_fifo'.mem = end_fifo.mem
      /\ end_fifo'.rs1 = end_fifo.rs1 /\ end_fifo'.rs2 = end_fifo.rs2
      /\ end_fifo'.rd = end_fifo.rd + Count(pl)
  BY <1>1, <1>2, <1>3, RdEdgeFacts DEF Count
<1>7. QED  BY <1>4, <1>5, <1>6

(* A popped length is that of the next frame.                              *)
LEMMA HlsBlocks ==
    ASSUME TypeOK, LengthsInOrder, Cumulative, CipherAligned,
           NEW pl \in BOOLEAN, NEW pb \in BOOLEAN, HlsEdge(pl, pb)
    PROVE  /\ owed' \in Nat
           /\ plaintext'.rd + owed' = BlocksUpTo(length'.rd)
<1> DEFINE r == length.rd
           due == owed + (IF pl THEN BlocksOf(FifoHead(length)) ELSE 0)
<1>1. /\ r \in Nat /\ owed \in Nat /\ plaintext.rd \in Nat /\ r <= Len(length.mem)
      /\ Len(length.mem) \in Nat /\ Len(ended) \in Nat /\ Len(length.mem) <= Len(ended)
  BY Numbers, NewestFrames
<1>2. BlocksUpTo(r) \in Nat /\ plaintext.rd + owed = BlocksUpTo(r)
  BY <1>1, BlocksUpToNat DEF CipherAligned
<1>3. due \in Nat /\ plaintext.rd + due = BlocksUpTo(r + Count(pl))
  <2>1. CASE pl
    <3>1. r + 1 \in 1..Len(length.mem) /\ r + 1 \in 0..Len(ended) /\ r + 1 \in 1..Len(ended)
      <4>1. pl => length.rd + 1 <= Len(length.mem)  BY HlsFifos
      <4>2. r + 1 <= Len(length.mem)  BY <2>1, <4>1
      <4>3. QED  BY <1>1, <4>2
    <3>2. length.mem[r + 1] = ended[r + 1].bits
      BY <3>1 DEF LengthsInOrder
    <3>3. BlocksUpTo(r + 1) - BlocksUpTo((r + 1) - 1) = BlocksOf(ended[r + 1].bits)
      BY <3>1 DEF Cumulative
    <3>4. (r + 1) - 1 = r  BY <1>1
    <3>5. BlocksUpTo(r + 1) \in Nat  BY <3>1, BlocksUpToNat
    <3>6. BlocksUpTo(r + 1) - BlocksUpTo(r) >= 1
      <4>1. r \in 0..Len(ended) /\ r <= r + 1 /\ (r + 1) - r = 1  BY <1>1
      <4>2. QED  BY <3>1, <4>1 DEF Cumulative
    <3>7. owed = 0  BY <2>1 DEF HlsEdge
    <3>8. due = BlocksUpTo(r + 1) - BlocksUpTo(r)
      BY <2>1, <3>2, <3>3, <3>4, <3>5, <3>7, <1>2 DEF FifoHead
    <3>9. Count(pl) = 1  BY <2>1 DEF Count
    <3>10. QED  BY <1>1, <1>2, <3>5, <3>6, <3>7, <3>8, <3>9
  <2>2. CASE ~pl
    <3>1. due = owed /\ r + Count(pl) = r  BY <1>1, <2>2 DEF Count
    <3>2. QED  BY <1>1, <1>2, <3>1
  <2>3. QED  BY <2>1, <2>2
<1>4. (pb => due > 0) /\ owed' = IF pb THEN due - 1 ELSE due
  BY DEF HlsEdge
<1>5. plaintext'.rd = plaintext.rd + Count(pb) /\ length'.rd = r + Count(pl)
  BY HlsFifos
<1> HIDE DEF due
<1>6. owed' \in Nat /\ plaintext'.rd + owed' = plaintext.rd + due
  BY <1>1, <1>3, <1>4, <1>5 DEF Count
<1>7. QED  BY <1>3, <1>5, <1>6

LEMMA HlsInv ==
    ASSUME IInv, NEW pl \in BOOLEAN, NEW pb \in BOOLEAN, HlsEdge(pl, pb)
    PROVE  IInv'
<1>1. /\ TypeOK /\ Lockstep /\ LengthsInOrder /\ InFlight /\ Cumulative /\ Packing
      /\ CipherAligned /\ Snapshots /\ MetaTiming /\ NoLengthDropped /\ Packed
  BY DEF IInv
<1>2. UNCHANGED <<fsmVars, metaVars>>
  BY DEF HlsEdge
<1>3. ended' = ended  BY <1>2 DEF fsmVars
<1>4. \A k : BlocksUpTo(k)' = BlocksUpTo(k)
  BY <1>3 DEF BlocksUpTo
<1>5. /\ FifoOK(plaintext', Block) /\ FifoOK(length', Nat)
      /\ FifoOK(end_fifo', BOOLEAN)
      /\ plaintext'.mem = plaintext.mem /\ length'.mem = length.mem
      /\ end_fifo'.mem = end_fifo.mem
      /\ plaintext'.rs1 = plaintext.rs1 /\ plaintext'.rs2 = plaintext.rs2
      /\ length'.rs1 = length.rs1 /\ length'.rs2 = length.rs2
      /\ end_fifo'.rs1 = end_fifo.rs1 /\ end_fifo'.rs2 = end_fifo.rs2
      /\ length'.rd = length.rd + Count(pl)
      /\ end_fifo'.rd = end_fifo.rd + Count(pl)
  BY <1>1, HlsFifos
<1>6. owed' \in Nat /\ plaintext'.rd + owed' = BlocksUpTo(length'.rd)
  BY <1>1, HlsBlocks
<1>7. TypeOK'
  BY <1>1, <1>2, <1>5, <1>6 DEF TypeOK, fsmVars, metaVars
<1>8. Lockstep'  BY <1>1, <1>5 DEF Lockstep
<1>9. LengthsInOrder'
  BY <1>1, <1>2, <1>5 DEF LengthsInOrder, fsmVars, metaVars
<1>10. InFlight'  BY <1>1, <1>2, <1>5 DEF InFlight, fsmVars, metaVars
<1>11. Cumulative'  BY <1>1, <1>3, <1>4 DEF Cumulative
<1>12. Packing'
  <2>1. Done' = Done  BY <1>2, <1>4, <1>5 DEF Done, fsmVars
  <2>2. QED  BY <1>1, <1>2, <2>1 DEF Packing, fsmVars
<1>13. CipherAligned'  BY <1>4, <1>6 DEF CipherAligned
<1>14. Snapshots'  BY <1>1, <1>4, <1>5 DEF Snapshots
<1>15. MetaTiming'  BY <1>1, <1>2 DEF MetaTiming, fsmVars, metaVars
<1>16. NoLengthDropped'
  BY <1>1, <1>2, <1>5 DEF NoLengthDropped, Full, metaVars
<1>17. Packed'
  BY <1>1, <1>2, <1>4, <1>5 DEF Packed, InPlace, Stored, Half, Beat, fsmVars
<1>18. QED
  BY <1>7, <1>8, <1>9, <1>10, <1>11, <1>12, <1>13, <1>14, <1>15, <1>16, <1>17 DEF IInv

-----------------------------------------------------------------------------
(* A step of the bridge: what it does to the FIFOs.                        *)

LEMMA MacFifos ==
    ASSUME IInv, MacEdge
    PROVE  /\ FifoOK(plaintext', Block) /\ FifoOK(length', Nat)
           /\ FifoOK(end_fifo', BOOLEAN)
           /\ plaintext'.rd = plaintext.rd /\ plaintext'.rs1 = plaintext.rd
           /\ plaintext'.rs2 = plaintext.rs1
           /\ length'.rd = length.rd /\ length'.rs1 = length.rd /\ length'.rs2 = length.rs1
           /\ end_fifo'.rd = end_fifo.rd /\ end_fifo'.rs1 = end_fifo.rd
           /\ end_fifo'.rs2 = end_fifo.rs1
           /\ Len(plaintext'.mem) + Count(block_valid_kept) = Len(plaintext.mem) + Count(block_valid)
           /\ Len(plaintext'.mem) - plaintext.rs2 <= PLAIN_CAP
           /\ Len(length'.mem) = Len(length.mem) + Count(length_fifo_wr_en)
           /\ Len(end_fifo'.mem) = Len(end_fifo.mem) + Count(length_fifo_wr_en)
           /\ \A i \in 1..Len(length.mem) : length'.mem[i] = length.mem[i]
           /\ length_fifo_wr_en => length'.mem[Len(length.mem) + 1] = length_store
<1>1. TypeOK /\ NoLengthDropped /\ Snapshots
  BY DEF IInv
<1>2. FifoOK(plaintext, Block) /\ FifoOK(length, Nat) /\ FifoOK(end_fifo, BOOLEAN)
      /\ block_valid \in BOOLEAN /\ block_data \in Block
      /\ length_fifo_wr_en \in BOOLEAN /\ length_store \in Nat
  BY <1>1 DEF TypeOK
<1>3. PLAIN_CAP \in Nat /\ LEN_CAP \in Nat
  BY DepthAssumption
<1>4. /\ plaintext' = WrEdge(plaintext, PLAIN_CAP, block_valid, block_data)
      /\ length' = WrEdge(length, LEN_CAP, length_fifo_wr_en, length_store)
      /\ end_fifo' = WrEdge(end_fifo, LEN_CAP, length_fifo_wr_en, TRUE)
  BY DEF MacEdge
<1>5. length_fifo_wr_en => ~Full(length, LEN_CAP) /\ ~Full(end_fifo, LEN_CAP)
  BY <1>1 DEF NoLengthDropped
<1>6. /\ Len(plaintext.mem) \in Nat /\ Len(length.mem) \in Nat /\ Len(end_fifo.mem) \in Nat
      /\ plaintext.rs2 \in Nat
  BY <1>2, FifoFields
<1>7. /\ Written(Block, plaintext, Full(plaintext, PLAIN_CAP), block_valid, block_data, plaintext')
      /\ Written(Nat, length, Full(length, LEN_CAP), length_fifo_wr_en, length_store, length')
      /\ Written(BOOLEAN, end_fifo, Full(end_fifo, LEN_CAP), length_fifo_wr_en, TRUE, end_fifo')
  <2>1. Written(Block, plaintext, Full(plaintext, PLAIN_CAP), block_valid, block_data,
                WrEdge(plaintext, PLAIN_CAP, block_valid, block_data))
    BY <1>2, <1>3, WrEdgeFacts
  <2>2. Written(Nat, length, Full(length, LEN_CAP), length_fifo_wr_en, length_store,
                WrEdge(length, LEN_CAP, length_fifo_wr_en, length_store))
    BY <1>2, <1>3, WrEdgeFacts
  <2>3. Written(BOOLEAN, end_fifo, Full(end_fifo, LEN_CAP), length_fifo_wr_en, TRUE,
                WrEdge(end_fifo, LEN_CAP, length_fifo_wr_en, TRUE))
    BY <1>2, <1>3, WrEdgeFacts
  <2>4. QED  BY <1>4, <2>1, <2>2, <2>3
<1>8. /\ FifoOK(plaintext', Block)
      /\ plaintext'.rd = plaintext.rd /\ plaintext'.rs1 = plaintext.rd
      /\ plaintext'.rs2 = plaintext.rs1
      /\ block_valid /\ ~Full(plaintext, PLAIN_CAP) => Len(plaintext'.mem) = Len(plaintext.mem) + 1
      /\ ~(block_valid /\ ~Full(plaintext, PLAIN_CAP)) => Len(plaintext'.mem) = Len(plaintext.mem)
  BY <1>7 DEF Written
<1>9. Len(plaintext'.mem) + Count(block_valid_kept) = Len(plaintext.mem) + Count(block_valid)
  <2>1. CASE block_valid /\ ~Full(plaintext, PLAIN_CAP)
    BY <1>6, <1>8, <2>1 DEF Count, block_valid_kept
  <2>2. CASE block_valid /\ Full(plaintext, PLAIN_CAP)
    BY <1>6, <1>8, <2>2 DEF Count, block_valid_kept
  <2>3. CASE ~block_valid
    BY <1>6, <1>8, <2>3 DEF Count, block_valid_kept
  <2>4. QED  BY <2>1, <2>2, <2>3
<1>10. Len(plaintext'.mem) - plaintext.rs2 <= PLAIN_CAP
  <2>1. Len(plaintext.mem) - plaintext.rs2 <= PLAIN_CAP  BY <1>1 DEF Snapshots
  <2>2. CASE block_valid /\ ~Full(plaintext, PLAIN_CAP)
    BY <1>3, <1>6, <1>8, <2>2 DEF Full
  <2>3. CASE ~(block_valid /\ ~Full(plaintext, PLAIN_CAP))
    BY <1>8, <2>1, <2>3
  <2>4. QED  BY <2>2, <2>3
<1>11. /\ FifoOK(length', Nat)
       /\ length'.rd = length.rd /\ length'.rs1 = length.rd /\ length'.rs2 = length.rs1
       /\ Len(length'.mem) = Len(length.mem) + Count(length_fifo_wr_en)
       /\ \A i \in 1..Len(length.mem) : length'.mem[i] = length.mem[i]
       /\ length_fifo_wr_en => length'.mem[Len(length.mem) + 1] = length_store
  <2>1. /\ FifoOK(length', Nat)
        /\ length'.rd = length.rd /\ length'.rs1 = length.rd /\ length'.rs2 = length.rs1
        /\ \A i \in 1..Len(length.mem) : length'.mem[i] = length.mem[i]
    BY <1>7 DEF Written
  <2>2. CASE length_fifo_wr_en
    <3>1. ~Full(length, LEN_CAP)  BY <1>5, <2>2
    <3>2. Len(length'.mem) = Len(length.mem) + 1 /\ length'.mem[Len(length.mem) + 1] = length_store
      BY <1>7, <2>2, <3>1 DEF Written
    <3>3. QED  BY <2>1, <2>2, <3>2 DEF Count
  <2>3. CASE ~length_fifo_wr_en
    <3>1. Len(length'.mem) = Len(length.mem)  BY <1>7, <2>3 DEF Written
    <3>2. QED  BY <1>6, <2>1, <2>3, <3>1 DEF Count
  <2>4. QED  BY <2>2, <2>3
<1>12. /\ FifoOK(end_fifo', BOOLEAN)
       /\ end_fifo'.rd = end_fifo.rd /\ end_fifo'.rs1 = end_fifo.rd
       /\ end_fifo'.rs2 = end_fifo.rs1
       /\ Len(end_fifo'.mem) = Len(end_fifo.mem) + Count(length_fifo_wr_en)
  <2>1. /\ FifoOK(end_fifo', BOOLEAN)
        /\ end_fifo'.rd = end_fifo.rd /\ end_fifo'.rs1 = end_fifo.rd /\ end_fifo'.rs2 = end_fifo.rs1
        /\ \A i \in 1..Len(end_fifo.mem) : end_fifo'.mem[i] = end_fifo.mem[i]
    BY <1>7 DEF Written
  <2>2. CASE length_fifo_wr_en
    <3>1. ~Full(end_fifo, LEN_CAP)  BY <1>5, <2>2
    <3>2. Len(end_fifo'.mem) = Len(end_fifo.mem) + 1
      BY <1>7, <2>2, <3>1 DEF Written
    <3>3. QED  BY <2>1, <2>2, <3>2 DEF Count
  <2>3. CASE ~length_fifo_wr_en
    <3>1. Len(end_fifo'.mem) = Len(end_fifo.mem)  BY <1>7, <2>3 DEF Written
    <3>2. QED  BY <1>6, <2>1, <2>3, <3>1 DEF Count
  <2>4. QED  BY <2>2, <2>3
<1>13. QED
  BY <1>8, <1>9, <1>10, <1>11, <1>12

(* A step of the bridge: what it does to the metadata path.  The slot is   *)
(* filled by the pulse alone, and either the queue is empty and takes the  *)
(* slot's length, or it holds one length and may hand it to the FIFOs.     *)
LEMMA MetaStep ==
    ASSUME IInv, MacEdge
    PROVE  /\ meta_enq_pending' \in BOOLEAN /\ (meta_enq_pending' <=> frame_meta_valid)
           /\ meta_enq_len' = IF frame_meta_valid THEN frame_meta_length_bits ELSE meta_enq_len
           /\ length_fifo_wr_en' \in BOOLEAN /\ (length_fifo_wr_en' <=> meta_can_deq)
           /\ length_fifo_wr_en' => meta # <<>> /\ ~Full(length, LEN_CAP) /\ ~Full(end_fifo, LEN_CAP)
           /\ \/ /\ meta = <<>> /\ ~length_fifo_wr_en' /\ length_store' = length_store
                 /\ meta' = IF meta_enq_pending THEN <<meta_enq_len>> ELSE <<>>
              \/ /\ Len(meta) = 1 /\ ~length_fifo_wr_en /\ ~meta_enq_pending
                 /\ length_fifo_wr_en' /\ meta' = <<>> /\ length_store' = meta[1]
              \/ /\ Len(meta) = 1 /\ ~length_fifo_wr_en /\ ~meta_enq_pending
                 /\ ~length_fifo_wr_en' /\ meta' = meta /\ length_store' = length_store
<1>1. TypeOK /\ MetaTiming /\ MetaEdge
  BY DEF IInv, MacEdge
<1>2. /\ meta_enq_pending \in BOOLEAN /\ frame_meta_valid \in BOOLEAN
      /\ meta \in Seq(Nat) /\ Len(meta) \in Nat /\ Len(meta) <= 1
      /\ META_QUEUE_DEPTH \in Nat /\ META_QUEUE_DEPTH >= 2
  BY <1>1, Numbers DEF TypeOK, MetaTiming
<1>3. meta_can_enq <=> meta_enq_pending
  BY <1>2 DEF meta_can_enq
<1>4. /\ meta_enq_pending' = ((meta_enq_pending \/ frame_meta_valid) /\ ~meta_can_enq)
      /\ meta_enq_len' = IF frame_meta_valid THEN frame_meta_length_bits ELSE meta_enq_len
      /\ length_fifo_wr_en' = meta_can_deq
      /\ length_store' = IF meta_can_deq THEN Head(meta) ELSE length_store
  BY <1>1 DEF MetaEdge
<1>5. meta_enq_pending' \in BOOLEAN /\ (meta_enq_pending' <=> frame_meta_valid)
  BY <1>1, <1>2, <1>3, <1>4 DEF MetaTiming
<1>6. length_fifo_wr_en' \in BOOLEAN
  BY <1>4 DEF meta_can_deq
<1>7. length_fifo_wr_en' => meta # <<>> /\ ~Full(length, LEN_CAP) /\ ~Full(end_fifo, LEN_CAP)
  BY <1>4 DEF meta_can_deq
<1>8. CASE meta = <<>>
  <2>1. ~meta_can_deq  BY <1>8 DEF meta_can_deq
  <2>2. meta' = IF meta_enq_pending THEN Append(<<>>, meta_enq_len) ELSE <<>>
    BY <1>1, <1>3, <1>8, <2>1 DEF MetaEdge
  <2>3. Append(<<>>, meta_enq_len) = <<meta_enq_len>>  OBVIOUS
  <2>4. ~length_fifo_wr_en' /\ length_store' = length_store  BY <1>4, <2>1
  <2>5. QED  BY <1>4, <1>5, <1>6, <1>7, <1>8, <2>2, <2>3, <2>4
<1>9. CASE meta # <<>>
  <2>1. Len(meta) = 1
    <3> DEFINE n == Len(meta)
    <3>1. n \in Nat /\ n # 0  BY <1>2, <1>9, EmptySeq
    <3>2. n <= 1  BY <1>2
    <3> HIDE DEF n
    <3>3. n = 1  BY <3>1, <3>2
    <3>4. QED  BY <3>3 DEF n
  <2>2. ~meta_enq_pending /\ ~length_fifo_wr_en  BY <1>1, <1>9 DEF MetaTiming
  <2>3. meta' = IF meta_can_deq THEN Tail(meta) ELSE meta
    BY <1>1, <1>3, <2>2 DEF MetaEdge
  <2>4. Tail(meta) = <<>> /\ Head(meta) = meta[1]
    <3>1. Tail(meta) \in Seq(Nat) /\ Len(Tail(meta)) = 0  BY <1>2, <1>9, <2>1, HeadTailProperties
    <3>2. Tail(meta) # <<>> => Len(Tail(meta)) \in Nat \ {0}  BY <3>1, EmptySeq
    <3>3. Head(meta) = meta[1]  BY <1>2, <1>9
    <3>4. QED  BY <3>1, <3>2, <3>3
  <2>5. QED  BY <1>4, <1>5, <1>6, <1>7, <2>1, <2>2, <2>3, <2>4
<1>10. QED  BY <1>8, <1>9

-----------------------------------------------------------------------------
(* A step of the bridge: what it does to the packing FSM.                  *)

(* The part of TypeOK about the FSM's registers.                           *)
FsmTypeOK ==
    /\ state \in States /\ block_data \in Block
    /\ block_valid \in BOOLEAN /\ first_beat_pending \in BOOLEAN
    /\ flush_in_progress \in BOOLEAN /\ frame_byte_count \in Nat
    /\ frame_meta_valid \in BOOLEAN /\ frame_meta_length_bits \in Nat
    /\ ended \in Seq(EndedFrame)

(* As long as no frame ends, Done changes with the waiting block only.     *)
LEMMA DoneKept ==
    ASSUME IInv, MacEdge, ended' = ended
    PROVE  /\ block_valid' = block_valid_kept => Done' = Done
           /\ ~block_valid /\ ~block_valid' => Done' = Done
           /\ ~block_valid /\ block_valid' => Done' = Done + 1
<1>1. TypeOK  BY DEF IInv
<1>2. /\ Len(plaintext'.mem) + Count(block_valid_kept) = Len(plaintext.mem) + Count(block_valid)
      /\ FifoOK(plaintext', Block)
  BY MacFifos
<1>3. Len(plaintext.mem) \in Nat /\ Len(plaintext'.mem) \in Nat /\ Len(ended) \in Nat
  BY <1>1, <1>2, Numbers, FifoFields
<1>4. BlocksUpTo(Len(ended)) \in Nat  BY <1>1, <1>3, BlocksUpToNat
<1>5. BlocksUpTo(Len(ended))' = BlocksUpTo(Len(ended))  BY DEF BlocksUpTo
<1> DEFINE p == Len(plaintext.mem)
           q == Len(plaintext'.mem)
           b == BlocksUpTo(Len(ended))
<1>6. Done = (p + Count(block_valid)) - b /\ Done' = (q + Count(block_valid')) - b
  BY <1>5 DEF Done, Count
<1>7. p \in Nat /\ q \in Nat /\ b \in Nat /\ q + Count(block_valid_kept) = p + Count(block_valid)
  BY <1>2, <1>3, <1>4
<1> HIDE DEF p, q, b
<1>8. block_valid' = block_valid_kept => Done' = Done
  BY <1>6, <1>7 DEF Count
<1>9. ~block_valid => Count(block_valid) = 0 /\ Count(block_valid_kept) = 0
  BY DEF Count, block_valid_kept
<1>10. ~block_valid /\ ~block_valid' => Done' = Done
  BY <1>6, <1>7, <1>9 DEF Count
<1>11. ~block_valid /\ block_valid' => Done' = Done + 1
  BY <1>6, <1>7, <1>9 DEF Count
<1>12. QED  BY <1>8, <1>10, <1>11

LEMMA NoBeatTakenStep ==
    ASSUME IInv, MacEdge, NoBeatTaken
    PROVE  FsmTypeOK' /\ Packing' /\ ended' = ended /\ frame_meta_valid' = FALSE
<1>1. TypeOK /\ Packing  BY DEF IInv
<1>2. ended' = ended /\ frame_meta_valid' = FALSE /\ block_valid' = block_valid_kept
  BY DEF NoBeatTaken
<1>3. Done' = Done  BY <1>2, DoneKept
<1>4. FsmTypeOK'
  BY <1>1 DEF TypeOK, FsmTypeOK, NoBeatTaken, block_valid_kept
<1>5. Packing'
  BY <1>1, <1>3 DEF Packing, NoBeatTaken, block_valid_kept, TypeOK, States
<1>6. QED  BY <1>2, <1>4, <1>5

(* The beat offered has a name.                                            *)
LEMMA ThisBeat ==
    ASSUME TypeOK
    PROVE  this_beat \in Beats /\ block_data[1] \in Beats /\ block_data[2] \in Beats
<1>1. frame_byte_count \in Nat /\ Len(ended) \in Nat /\ block_data \in Block
  BY Numbers DEF TypeOK
<1>2. next_beat \in Nat  BY <1>1 DEF next_beat
<1>3. QED  BY <1>1, <1>2 DEF this_beat, Beat, Beats, Block

LEMMA IdleBeatStep ==
    ASSUME IInv, MacEdge, NEW keep \in 1..8, NEW last \in BOOLEAN, IdleBeat(keep, last)
    PROVE  FsmTypeOK' /\ Packing' /\ ended' = ended /\ frame_meta_valid' = FALSE
<1>1. TypeOK /\ Packing  BY DEF IInv
<1>2. /\ ended' = ended /\ frame_meta_valid' = FALSE
      /\ ~block_valid' /\ ~block_valid /\ state = "ST_IDLE"
  BY <1>1 DEF IdleBeat, Packing
<1>3. Done' = Done /\ Done = 0 /\ ~flush_in_progress
  BY <1>1, <1>2, DoneKept DEF Packing
<1>4. block_data' \in Block
  BY <1>1, ThisBeat DEF IdleBeat, Block
<1>5. FsmTypeOK'
  <2>1. frame_byte_count \in Nat /\ keep \in Nat /\ ended \in Seq(EndedFrame)
        /\ frame_meta_length_bits \in Nat /\ flush_in_progress \in BOOLEAN
    BY <1>1 DEF TypeOK
  <2>2. frame_byte_count' \in Nat  BY <2>1 DEF IdleBeat
  <2>3. state' \in States  BY DEF IdleBeat, States
  <2>4. /\ first_beat_pending' \in BOOLEAN /\ block_valid' \in BOOLEAN
        /\ flush_in_progress' \in BOOLEAN /\ frame_meta_valid' \in BOOLEAN
        /\ frame_meta_length_bits' \in Nat /\ ended' \in Seq(EndedFrame)
    BY <2>1 DEF IdleBeat, block_valid_kept
  <2>5. QED  BY <1>4, <2>2, <2>3, <2>4 DEF FsmTypeOK
<1>6. Packing'
  <2>1. frame_byte_count' = keep /\ (~last => keep = 8)
    BY DEF IdleBeat, Offered
  <2>2. /\ first_beat_pending' = TRUE /\ flush_in_progress' = flush_in_progress
        /\ state' = IF last THEN "ST_FRAME_END" ELSE "ST_HOLD"
    BY DEF IdleBeat
  <2>3. QED  BY <1>2, <1>3, <2>1, <2>2 DEF Packing, Count
<1>7. QED  BY <1>2, <1>5, <1>6

LEMMA FirstBeatStep ==
    ASSUME IInv, MacEdge, NEW keep \in 1..8, NEW last \in BOOLEAN, FirstBeat(keep, last)
    PROVE  FsmTypeOK' /\ Packing' /\ ended' = ended /\ frame_meta_valid' = FALSE
<1>1. TypeOK /\ Packing  BY DEF IInv
<1>2. /\ ended' = ended /\ frame_meta_valid' = FALSE
      /\ block_valid' = block_valid_kept /\ ~block_valid /\ state = "ST_FIRST_BEAT"
  BY DEF FirstBeat, s_axis_tready
<1>3. Done' = Done /\ ~flush_in_progress /\ Done > 0 /\ frame_byte_count = 16 * Done
  BY <1>1, <1>2, DoneKept DEF Packing
<1>4. block_data' \in Block
  BY <1>1, ThisBeat DEF FirstBeat, Block
<1>5. ~block_valid'  BY <1>2 DEF block_valid_kept
<1>6. FsmTypeOK'
  <2>1. frame_byte_count \in Nat /\ keep \in Nat /\ ended \in Seq(EndedFrame)
        /\ frame_meta_length_bits \in Nat /\ flush_in_progress \in BOOLEAN
    BY <1>1 DEF TypeOK
  <2>2. frame_byte_count' \in Nat  BY <2>1 DEF FirstBeat
  <2>3. state' \in States  BY DEF FirstBeat, States
  <2>4. /\ first_beat_pending' \in BOOLEAN /\ block_valid' \in BOOLEAN
        /\ flush_in_progress' \in BOOLEAN /\ frame_meta_valid' \in BOOLEAN
        /\ frame_meta_length_bits' \in Nat /\ ended' \in Seq(EndedFrame)
    BY <2>1, <1>5 DEF FirstBeat, block_valid_kept
  <2>5. QED  BY <1>4, <2>2, <2>3, <2>4 DEF FsmTypeOK
<1>7. Packing'
  <2>1. frame_byte_count' = frame_byte_count + keep /\ (~last => keep = 8)
    BY DEF FirstBeat, Offered
  <2>2. /\ first_beat_pending' = TRUE /\ flush_in_progress' = flush_in_progress
        /\ state' = IF last THEN "ST_FRAME_END" ELSE "ST_HOLD"
    BY DEF FirstBeat
  <2>3. Done \in Nat  BY <1>1, DoneNat
  <2>4. QED  BY <1>3, <1>5, <2>1, <2>2, <2>3 DEF Packing, Count
<1>8. QED  BY <1>2, <1>6, <1>7

LEMMA HoldBeatStep ==
    ASSUME IInv, MacEdge, NEW keep \in 1..8, NEW last \in BOOLEAN, HoldBeat(keep, last)
    PROVE  FsmTypeOK' /\ Packing' /\ ended' = ended /\ frame_meta_valid' = FALSE
<1>1. TypeOK /\ Packing  BY DEF IInv
<1>2. /\ ended' = ended /\ frame_meta_valid' = FALSE
      /\ block_valid' = TRUE /\ ~block_valid /\ state = "ST_HOLD"
  BY DEF HoldBeat, s_axis_tready
<1>3. Done' = Done + 1 /\ Done \in Nat /\ frame_byte_count = 16 * Done + 8
  BY <1>1, <1>2, DoneKept, DoneNat DEF Packing
<1>4. block_data' \in Block
  BY <1>1, ThisBeat DEF HoldBeat, Block
<1>5. FsmTypeOK'
  <2>1. frame_byte_count \in Nat /\ keep \in Nat /\ ended \in Seq(EndedFrame)
        /\ frame_meta_length_bits \in Nat /\ flush_in_progress \in BOOLEAN
    BY <1>1 DEF TypeOK
  <2>2. frame_byte_count' \in Nat  BY <2>1 DEF HoldBeat
  <2>3. state' \in States  BY DEF HoldBeat, States
  <2>4. /\ first_beat_pending' \in BOOLEAN /\ block_valid' \in BOOLEAN
        /\ flush_in_progress' \in BOOLEAN /\ frame_meta_valid' \in BOOLEAN
        /\ frame_meta_length_bits' \in Nat /\ ended' \in Seq(EndedFrame)
    BY <2>1 DEF HoldBeat, block_valid_kept
  <2>5. QED  BY <1>4, <2>2, <2>3, <2>4 DEF FsmTypeOK
<1>6. Packing'
  <2>1. frame_byte_count' = frame_byte_count + keep /\ (~last => keep = 8)
    BY DEF HoldBeat, Offered
  <2>2. /\ first_beat_pending' = FALSE /\ flush_in_progress' = FALSE
        /\ state' = IF last THEN "ST_FRAME_END" ELSE "ST_FIRST_BEAT"
    BY DEF HoldBeat
  <2>3. QED  BY <1>3, <2>1, <2>2 DEF Packing, Count
<1>7. QED  BY <1>2, <1>5, <1>6

LEMMA FrameEndWaitStep ==
    ASSUME IInv, MacEdge, FrameEndWait
    PROVE  FsmTypeOK' /\ Packing' /\ ended' = ended /\ frame_meta_valid' = FALSE
<1>1. TypeOK /\ Packing  BY DEF IInv
<1>2. /\ ended' = ended /\ frame_meta_valid' = FALSE
      /\ block_valid' = block_valid_kept /\ state = "ST_FRAME_END" /\ flush_in_progress
  BY DEF FrameEndWait
<1>3. Done' = Done /\ Done = 0 /\ ~first_beat_pending
  BY <1>1, <1>2, DoneKept DEF Packing
<1>4. FsmTypeOK'
  BY <1>1 DEF TypeOK, FsmTypeOK, FrameEndWait, block_valid_kept, States
<1>5. Packing'
  BY <1>2, <1>3 DEF Packing, FrameEndWait, block_valid_kept
<1>6. QED  BY <1>2, <1>4, <1>5

(* A frame of c bytes takes as many blocks as hold its bytes.              *)
LEMMA BlocksOfBytes ==
    ASSUME NEW c \in Nat, NEW n \in Nat, c <= 16 * n, c > 16 * (n - 1)
    PROVE  BlocksOf(c * 8) = n
  BY DEF BlocksOf

LEMMA FrameEndFlushStep ==
    ASSUME IInv, MacEdge, FrameEndFlush
    PROVE  /\ FsmTypeOK' /\ Packing' /\ frame_meta_valid' = TRUE
           /\ state' = "ST_FRAME_END" /\ flush_in_progress'
           /\ state = "ST_FRAME_END" /\ ~flush_in_progress
           /\ Len(ended') = Len(ended) + 1
           /\ \A k \in 1..Len(ended) : ended'[k] = ended[k]
           /\ frame_meta_length_bits' = ended'[Len(ended) + 1].bits
           /\ ended'[Len(ended) + 1].blocks - BlocksUpTo(Len(ended))
                = BlocksOf(ended'[Len(ended) + 1].bits)
           /\ ended'[Len(ended) + 1].blocks - BlocksUpTo(Len(ended)) >= 1
<1> DEFINE F == Len(ended)
           p == Len(plaintext.mem)
           q == Len(plaintext'.mem)
           b == BlocksUpTo(Len(ended))
           w == IF block_valid \/ first_beat_pending THEN 1 ELSE 0
           e == [bits |-> frame_byte_count * 8, blocks |-> p + w]
           n == Done + Count(first_beat_pending)
<1>1. TypeOK /\ Packing  BY DEF IInv
<1>2. /\ state = "ST_FRAME_END" /\ ~flush_in_progress /\ ~(block_valid /\ first_beat_pending)
      /\ frame_byte_count > 0 /\ frame_byte_count <= 16 * n /\ frame_byte_count > 16 * (n - 1)
  <2>1. state = "ST_FRAME_END" /\ ~flush_in_progress  BY DEF FrameEndFlush
  <2>2. /\ ~(block_valid /\ first_beat_pending) /\ frame_byte_count > 0
        /\ frame_byte_count <= 16 * (Done + Count(first_beat_pending))
        /\ frame_byte_count > 16 * ((Done + Count(first_beat_pending)) - 1)
    BY <1>1, <2>1 DEF Packing
  <2>3. QED  BY <2>1, <2>2
<1>3. /\ F \in Nat /\ p \in Nat /\ b \in Nat /\ Done \in Nat /\ frame_byte_count \in Nat
      /\ ended \in Seq(EndedFrame)
  BY <1>1, Numbers, BlocksUpToNat, DoneNat DEF TypeOK
<1>4. n \in Nat  BY <1>3 DEF Count
<1>5. (p + w) - b = n /\ p + w \in Nat
  <2>1. w \in {0, 1}  OBVIOUS
  <2>2. (p + w) - b = n
    <3> DEFINE c == Count(block_valid)
               d == Count(first_beat_pending)
    <3>1. Done = (p + c) - b /\ n = Done + d  BY DEF Done
    <3>2. c \in {0, 1} /\ d \in {0, 1} /\ w = c + d  BY <1>2 DEF Count
    <3> HIDE DEF p, b, c, d, w, n
    <3>3. QED  BY <1>3, <3>1, <3>2
  <2> HIDE DEF p, w
  <2>3. QED  BY <1>3, <2>1, <2>2
<1>6. ended' = Append(ended, e) /\ e \in EndedFrame
  <2>1. frame_byte_count * 8 \in Nat  BY <1>3
  <2>2. e \in EndedFrame  BY <1>5, <2>1 DEF EndedFrame
  <2>3. ended' = Append(ended, e)  BY DEF FrameEndFlush, EndFrame
  <2>4. QED  BY <2>2, <2>3
<1>7. /\ ended' \in Seq(EndedFrame) /\ Len(ended') = F + 1 /\ ended'[F + 1] = e
      /\ \A k \in 1..F : ended'[k] = ended[k]
  BY <1>3, <1>6, AppendProperties
<1>8. ended'[F + 1].blocks = p + w /\ ended'[F + 1].bits = frame_byte_count * 8
  BY <1>7
<1>9. BlocksOf(frame_byte_count * 8) = n /\ n >= 1
  <2>1. n >= 1  BY <1>2, <1>4, <1>3
  <2>2. QED  BY <1>2, <1>3, <1>4, <2>1, BlocksOfBytes
<1>10. block_valid' = (first_beat_pending \/ block_valid_kept) /\ first_beat_pending' = FALSE
       /\ frame_meta_valid' = (frame_byte_count # 0)
       /\ frame_meta_length_bits' = frame_byte_count * 8
       /\ state' = state /\ flush_in_progress' = TRUE
       /\ block_data' = block_data /\ frame_byte_count' = frame_byte_count
  BY DEF FrameEndFlush
<1>11. frame_meta_valid' = TRUE
  <2>1. frame_byte_count # 0  BY <1>2, <1>3
  <2>2. QED  BY <1>10, <2>1
<1>12. FsmTypeOK'
  <2>1. block_valid' \in BOOLEAN  BY <1>10
  <2>2. frame_meta_length_bits' \in Nat  BY <1>3, <1>10
  <2>3. QED
    BY <1>1, <1>7, <1>10, <1>11, <2>1, <2>2 DEF FsmTypeOK, TypeOK
<1>13. Done' = 0
  <2>1. /\ q + Count(block_valid_kept) = p + Count(block_valid)
        /\ FifoOK(plaintext', Block)
    BY MacFifos
  <2>2. q \in Nat  BY <2>1, FifoFields
  <2>3. q + Count(block_valid') = p + w
    <3>1. CASE first_beat_pending
      <4>1. ~block_valid /\ ~block_valid_kept  BY <1>2, <3>1 DEF block_valid_kept
      <4>2. block_valid'  BY <1>10, <3>1
      <4>3. QED  BY <1>3, <2>1, <2>2, <3>1, <4>1, <4>2 DEF Count
    <3>2. CASE ~first_beat_pending
      <4>1. block_valid' <=> block_valid_kept  BY <1>10, <3>2
      <4>2. QED  BY <1>3, <2>1, <2>2, <3>2, <4>1 DEF Count
    <3>3. QED  BY <3>1, <3>2
  <2>4. BlocksUpTo(Len(ended))' = p + w
    <3>1. Len(ended') # 0 /\ ended'[Len(ended')].blocks = p + w  BY <1>3, <1>7, <1>8
    <3>2. QED  BY <3>1 DEF BlocksUpTo
  <2>5. p + w \in Nat  BY <1>5
  <2>6. Done' = (q + Count(block_valid)') - BlocksUpTo(Len(ended))'  BY DEF Done
  <2>7. Count(block_valid)' = Count(block_valid')  BY DEF Count
  <2> HIDE DEF p, q, w
  <2>8. Done' = (p + w) - (p + w)  BY <2>3, <2>4, <2>6, <2>7
  <2>9. QED  BY <2>5, <2>8
<1>14. Packing'
  BY <1>2, <1>10, <1>13 DEF Packing
<1>15. /\ ended'[F + 1].blocks - b = BlocksOf(ended'[F + 1].bits)
       /\ ended'[F + 1].blocks - b >= 1
  <2> HIDE DEF n, b, F, p, w
  <2>1. ended'[F + 1].blocks - b = n  BY <1>5, <1>8
  <2>2. BlocksOf(ended'[F + 1].bits) = n /\ n >= 1  BY <1>8, <1>9
  <2>3. QED  BY <2>1, <2>2
<1>16. QED
  BY <1>2, <1>7, <1>8, <1>10, <1>11, <1>12, <1>14, <1>15

(* All steps of the FSM: either no frame ends or one more does.            *)
EndsNoFrame == ended' = ended /\ frame_meta_valid' = FALSE
EndsFrame ==
    /\ frame_meta_valid' = TRUE
    /\ state' = "ST_FRAME_END" /\ flush_in_progress'
    /\ state = "ST_FRAME_END" /\ ~flush_in_progress
    /\ Len(ended') = Len(ended) + 1
    /\ \A k \in 1..Len(ended) : ended'[k] = ended[k]
    /\ frame_meta_length_bits' = ended'[Len(ended) + 1].bits
    /\ ended'[Len(ended) + 1].blocks - BlocksUpTo(Len(ended))
         = BlocksOf(ended'[Len(ended) + 1].bits)
    /\ ended'[Len(ended) + 1].blocks - BlocksUpTo(Len(ended)) >= 1

LEMMA FsmStep ==
    ASSUME IInv, MacEdge
    PROVE  FsmTypeOK' /\ Packing' /\ (EndsNoFrame \/ EndsFrame)
<1>1. FsmEdge  BY DEF MacEdge
<1>2. CASE NoBeatTaken
  BY <1>2, NoBeatTakenStep DEF EndsNoFrame
<1>3. CASE \E keep \in 1..8, last \in BOOLEAN :
              IdleBeat(keep, last) \/ FirstBeat(keep, last) \/ HoldBeat(keep, last)
  <2>1. PICK keep \in 1..8, last \in BOOLEAN :
              IdleBeat(keep, last) \/ FirstBeat(keep, last) \/ HoldBeat(keep, last)
    BY <1>3
  <2>2. CASE IdleBeat(keep, last)  BY <2>2, IdleBeatStep DEF EndsNoFrame
  <2>3. CASE FirstBeat(keep, last)  BY <2>3, FirstBeatStep DEF EndsNoFrame
  <2>4. CASE HoldBeat(keep, last)  BY <2>4, HoldBeatStep DEF EndsNoFrame
  <2>5. QED  BY <2>1, <2>2, <2>3, <2>4
<1>4. CASE FrameEndFlush
  BY <1>4, FrameEndFlushStep DEF EndsFrame
<1>5. CASE FrameEndWait
  BY <1>5, FrameEndWaitStep DEF EndsNoFrame
<1>6. QED  BY <1>1, <1>2, <1>3, <1>4, <1>5 DEF FsmEdge

(* The frames that ended before stay as they are.                          *)
LEMMA EndedGrows ==
    ASSUME IInv, MacEdge
    PROVE  /\ Len(ended) \in Nat /\ Len(ended') = Len(ended) + Count(frame_meta_valid')
           /\ \A k \in 1..Len(ended) : ended'[k] = ended[k]
           /\ \A k \in 0..Len(ended) : BlocksUpTo(k)' = BlocksUpTo(k)
<1>1. Len(ended) \in Nat  BY Numbers DEF IInv
<1>2. /\ Len(ended') = Len(ended) + Count(frame_meta_valid')
      /\ \A k \in 1..Len(ended) : ended'[k] = ended[k]
  <2>1. CASE EndsNoFrame  BY <1>1, <2>1 DEF EndsNoFrame, Count
  <2>2. CASE EndsFrame  BY <2>2 DEF EndsFrame, Count
  <2>3. QED  BY <2>1, <2>2, FsmStep
<1>3. ASSUME NEW k \in 0..Len(ended) PROVE BlocksUpTo(k)' = BlocksUpTo(k)
  <2>1. CASE k = 0  BY <2>1 DEF BlocksUpTo
  <2>2. CASE k # 0
    <3>1. k \in 1..Len(ended)  BY <1>1, <2>2
    <3>2. ended'[k] = ended[k]  BY <1>2, <3>1
    <3>3. QED  BY <2>2, <3>2 DEF BlocksUpTo
  <2>3. QED  BY <2>1, <2>2
<1>4. QED  BY <1>1, <1>2, <1>3

LEMMA MacTypeOK ==
    ASSUME IInv, MacEdge
    PROVE  TypeOK'
<1>1. TypeOK  BY DEF IInv
<1>2. FsmTypeOK'  BY FsmStep
<1>3. FifoOK(plaintext', Block) /\ FifoOK(length', Nat) /\ FifoOK(end_fifo', BOOLEAN)
  BY MacFifos
<1>4. owed' \in Nat  BY <1>1 DEF MacEdge, TypeOK
<1>5. /\ meta_enq_pending \in BOOLEAN /\ meta_enq_len \in Nat /\ meta \in Seq(Nat)
      /\ Len(meta) <= META_QUEUE_DEPTH /\ length_store \in Nat /\ frame_meta_length_bits \in Nat
      /\ META_QUEUE_DEPTH \in Nat /\ META_QUEUE_DEPTH >= 2
  BY <1>1, Numbers DEF TypeOK
<1>6. /\ meta_enq_pending' \in BOOLEAN /\ length_fifo_wr_en' \in BOOLEAN
      /\ meta_enq_len' = IF frame_meta_valid THEN frame_meta_length_bits ELSE meta_enq_len
  BY MetaStep
<1>7. meta_enq_len' \in Nat  BY <1>5, <1>6
<1>8. meta' \in Seq(Nat) /\ Len(meta') <= META_QUEUE_DEPTH /\ length_store' \in Nat
  <2>1. CASE /\ meta = <<>> /\ length_store' = length_store
             /\ meta' = IF meta_enq_pending THEN <<meta_enq_len>> ELSE <<>>
    BY <1>5, <2>1
  <2>2. CASE Len(meta) = 1 /\ meta' = <<>> /\ length_store' = meta[1]
    BY <1>5, <2>2
  <2>3. CASE meta' = meta /\ length_store' = length_store
    BY <1>5, <2>3
  <2>4. QED  BY <2>1, <2>2, <2>3, MetaStep
<1>9. QED
  BY <1>2, <1>3, <1>4, <1>6, <1>7, <1>8 DEF TypeOK, FsmTypeOK

LEMMA MacLockstep ==
    ASSUME IInv, MacEdge
    PROVE  Lockstep'
  BY MacFifos DEF IInv, Lockstep

(* The new frame, if any, has as many blocks as its length says.           *)
LEMMA MacCumulative ==
    ASSUME IInv, MacEdge
    PROVE  Cumulative'
<1> DEFINE F == Len(ended)
           G == Len(ended')
           old(k) == IF k = 0 THEN 0 ELSE ended[k].blocks
           new(k) == IF k = 0 THEN 0 ELSE ended'[k].blocks
<1>1. TypeOK /\ Cumulative  BY DEF IInv
<1>2. F \in Nat /\ \A k \in 1..F : ended'[k] = ended[k]
  BY EndedGrows
<1>3. \A k \in 0..F : new(k) = old(k)  BY <1>2
<1>4. /\ \A i, j \in 0..F : i <= j => old(j) - old(i) >= j - i
      /\ \A k \in 1..F : old(k) - old(k - 1) = BlocksOf(ended[k].bits)
  BY <1>1 DEF Cumulative, BlocksUpTo
<1>5. \A i \in 0..F : old(i) \in Nat
  BY <1>1, BlocksUpToNat DEF BlocksUpTo
<1>6. SUFFICES /\ \A i, j \in 0..G : i <= j => new(j) - new(i) >= j - i
               /\ \A k \in 1..G : new(k) - new(k - 1) = BlocksOf(ended'[k].bits)
  BY DEF Cumulative, BlocksUpTo
<1>7. CASE EndsNoFrame
  <2>1. ended' = ended  BY <1>7 DEF EndsNoFrame
  <2>2. QED  BY <1>4, <2>1
<1>8. CASE EndsFrame
  <2>1. G = F + 1 /\ F + 1 # 0  BY <1>2, <1>8 DEF EndsFrame
  <2>2. /\ new(F + 1) - old(F) = BlocksOf(ended'[F + 1].bits)
        /\ new(F + 1) - old(F) >= 1
    BY <1>8, <2>1 DEF EndsFrame, BlocksUpTo
  <2>3. new(F + 1) \in Nat
    <3>1. ended' \in Seq(EndedFrame)  BY FsmStep DEF FsmTypeOK
    <3>2. F + 1 \in 1..Len(ended')  BY <1>2, <2>1
    <3>3. ended'[F + 1] \in EndedFrame  BY <3>1, <3>2
    <3>4. QED  BY <2>1, <3>3 DEF EndedFrame
  <2> HIDE DEF old, new, F, G
  <2>4. ASSUME NEW i \in 0..(F + 1), NEW j \in 0..(F + 1), i <= j
        PROVE  new(j) - new(i) >= j - i
    <3>1. CASE j <= F
      BY <1>2, <1>3, <1>4, <2>4, <3>1
    <3>2. CASE j = F + 1 /\ i <= F
      <4>1. i \in 0..F /\ F \in 0..F  BY <1>2, <3>2
      <4>2. old(F) - old(i) >= F - i  BY <1>4, <4>1
      <4>3. new(i) = old(i) /\ old(i) \in Nat /\ old(F) \in Nat  BY <1>3, <1>5, <4>1
      <4>4. new(F + 1) - old(i) >= (F + 1) - i  BY <1>2, <2>2, <2>3, <4>1, <4>2, <4>3
      <4>5. QED  BY <3>2, <4>3, <4>4
    <3>3. CASE j = F + 1 /\ i = F + 1
      <4>1. new(F + 1) - new(F + 1) >= (F + 1) - (F + 1)  BY <1>2, <2>3
      <4>2. QED  BY <3>3, <4>1
    <3>4. QED  BY <1>2, <2>4, <3>1, <3>2, <3>3
  <2>5. ASSUME NEW k \in 1..(F + 1)
        PROVE  new(k) - new(k - 1) = BlocksOf(ended'[k].bits)
    <3>1. CASE k <= F
      <4>1. k \in 1..F /\ k \in 0..F /\ k - 1 \in 0..F  BY <1>2, <3>1
      <4>2. QED  BY <1>2, <1>3, <1>4, <4>1
    <3>2. CASE k = F + 1
      <4>1. k - 1 = F /\ F \in 0..F  BY <1>2, <3>2
      <4>2. QED  BY <1>3, <2>2, <3>2, <4>1
    <3>3. QED  BY <1>2, <3>1, <3>2
  <2>6. QED  BY <2>1, <2>4, <2>5
<1>9. QED  BY <1>7, <1>8, FsmStep

LEMMA MacSnapshots ==
    ASSUME IInv, MacEdge
    PROVE  Snapshots' /\ CipherAligned'
<1> DEFINE F == Len(ended)
           old(k) == IF k = 0 THEN 0 ELSE ended[k].blocks
           new(k) == IF k = 0 THEN 0 ELSE ended'[k].blocks
<1>1. TypeOK /\ Snapshots /\ CipherAligned /\ LengthsInOrder  BY DEF IInv
<1>2. /\ length.rd \in 0..F /\ length.rs1 \in 0..F
      /\ plaintext.rd \in Nat /\ plaintext.rs1 \in Nat /\ plaintext.rs2 \in Nat
      /\ owed \in Nat /\ plaintext.rs2 <= plaintext.rs1 /\ PLAIN_CAP \in Nat
  BY <1>1, Numbers, NewestFrames
<1>3. ASSUME NEW k \in 0..F PROVE new(k) = old(k)
  BY EndedGrows DEF BlocksUpTo
<1>4. /\ length'.rd = length.rd /\ length'.rs1 = length.rd /\ length'.rs2 = length.rs1
      /\ plaintext'.rd = plaintext.rd /\ plaintext'.rs1 = plaintext.rd
      /\ plaintext'.rs2 = plaintext.rs1 /\ Len(plaintext'.mem) - plaintext.rs2 <= PLAIN_CAP
      /\ FifoOK(plaintext', Block)
  BY MacFifos
<1>5. /\ BlocksUpTo(length.rd)' = new(length'.rd) /\ BlocksUpTo(length.rs1)' = new(length'.rs1)
      /\ BlocksUpTo(length.rs2)' = new(length'.rs2)
      /\ BlocksUpTo(length.rd) = old(length.rd) /\ BlocksUpTo(length.rs1) = old(length.rs1)
  BY DEF BlocksUpTo
<1> HIDE DEF old, new
<1>6. /\ BlocksUpTo(length.rd)' = BlocksUpTo(length.rd)
      /\ BlocksUpTo(length.rs1)' = BlocksUpTo(length.rd)
      /\ BlocksUpTo(length.rs2)' = BlocksUpTo(length.rs1)
  BY <1>2, <1>3, <1>4, <1>5
<1>7. CipherAligned'
  BY <1>1, <1>4, <1>6 DEF CipherAligned, MacEdge
<1>8. Snapshots'
  <2>1. plaintext'.rs1 <= BlocksUpTo(length.rs1)'
    <3> DEFINE b == BlocksUpTo(length.rd)
    <3>1. plaintext.rd + owed = b  BY <1>1 DEF CipherAligned
    <3>2. plaintext.rd <= b  BY <1>2, <3>1
    <3>3. QED  BY <1>4, <1>6, <3>2
  <2>2. plaintext'.rs2 <= BlocksUpTo(length.rs2)'
    BY <1>1, <1>4, <1>6 DEF Snapshots
  <2>3. Len(plaintext'.mem) - plaintext'.rs2 <= PLAIN_CAP
    <3>1. Len(plaintext'.mem) \in Nat  BY <1>4, FifoFields
    <3>2. QED  BY <1>2, <1>4, <3>1
  <2>4. QED  BY <2>1, <2>2, <2>3 DEF Snapshots
<1>9. QED  BY <1>7, <1>8

(* A length waits in the queue only while the length FIFO looks full, and  *)
(* then the plaintext FIFO holds the blocks of too many frames for another *)
(* frame to have ended.                                                    *)
LEMMA QueueWaits ==
    ASSUME IInv, meta # <<>>, ~meta_can_deq
    PROVE  ~frame_meta_valid
<1> DEFINE F == Len(ended)
           L == Len(length.mem)
           r == length.rs2
           m == Len(meta)
           v == Count(frame_meta_valid)
           w == Count(block_valid)
<1>1. TypeOK /\ MetaTiming /\ Lockstep /\ LengthsInOrder  BY DEF IInv
<1>2. /\ F \in Nat /\ L \in Nat /\ r \in Nat /\ m \in Nat /\ v \in {0, 1} /\ w \in {0, 1}
      /\ PLAIN_CAP \in Nat /\ LEN_CAP \in Nat /\ LEN_CAP >= PLAIN_CAP
  BY <1>1, Numbers, NewestFrames
<1>3. F - r <= PLAIN_CAP + w  BY Outstanding
<1>4. L - r >= LEN_CAP
  BY <1>1 DEF meta_can_deq, Full, Lockstep
<1>5. Count(length_fifo_wr_en) = 0 /\ Count(meta_enq_pending) = 0
  BY <1>1 DEF MetaTiming, Count
<1>6. F = L + Count(length_fifo_wr_en) + m + Count(meta_enq_pending) + v
  BY <1>1 DEF LengthsInOrder
<1>7. m >= 1
  <2>1. m # 0  BY <1>1, EmptySeq DEF TypeOK
  <2> HIDE DEF m
  <2>2. QED  BY <1>2, <2>1
<1>8. v = 0
  <2> HIDE DEF F, L, r, m, v, w
  <2>1. F = L + m + v  BY <1>2, <1>5, <1>6
  <2>2. QED  BY <1>2, <1>3, <1>4, <1>7, <2>1
<1>9. QED  BY <1>8 DEF Count

(* The metadata path keeps the order of the lengths and never falls so far *)
(* behind that the slot, the queue and the registered write overlap.       *)
LEMMA MacMetaTiming ==
    ASSUME IInv, MacEdge
    PROVE  MetaTiming' /\ NoLengthDropped'
<1>1. TypeOK /\ MetaTiming /\ Lockstep  BY DEF IInv
<1>2. meta_enq_pending' <=> frame_meta_valid  BY MetaStep
<1>3. frame_meta_valid => state = "ST_FRAME_END" /\ flush_in_progress
  BY <1>1 DEF MetaTiming
<1>4. frame_meta_valid' => state' = "ST_FRAME_END" /\ flush_in_progress' /\ ~meta_enq_pending'
  <2>1. CASE EndsNoFrame  BY <2>1 DEF EndsNoFrame
  <2>2. CASE EndsFrame  BY <1>2, <1>3, <2>2 DEF EndsFrame
  <2>3. QED  BY <2>1, <2>2, FsmStep
<1>5. state' \in {"ST_FIRST_BEAT", "ST_HOLD"} \/ (state' = "ST_FRAME_END" /\ ~flush_in_progress')
        => ~meta_enq_pending'
  <2>1. SUFFICES ASSUME frame_meta_valid
        PROVE ~(state' \in {"ST_FIRST_BEAT", "ST_HOLD"} \/ (state' = "ST_FRAME_END" /\ ~flush_in_progress'))
    BY <1>2
  <2>2. FrameEndWait
    BY <1>3, <2>1 DEF MacEdge, FsmEdge, NoBeatTaken, IdleBeat, FirstBeat, HoldBeat, FrameEndFlush
  <2>3. QED  BY <2>2 DEF FrameEndWait
<1>6. Len(meta') <= 1 /\ (meta' # <<>> => ~meta_enq_pending' /\ ~length_fifo_wr_en')
  <2>1. CASE /\ meta = <<>> /\ ~length_fifo_wr_en'
             /\ meta' = IF meta_enq_pending THEN <<meta_enq_len>> ELSE <<>>
    <3>1. CASE meta_enq_pending
      <4>1. ~frame_meta_valid  BY <1>1, <3>1 DEF MetaTiming
      <4>2. QED  BY <1>2, <2>1, <3>1, <4>1
    <3>2. CASE ~meta_enq_pending  BY <2>1, <3>2
    <3>3. QED  BY <3>1, <3>2
  <2>2. CASE meta' = <<>>  BY <2>2
  <2>3. CASE Len(meta) = 1 /\ ~length_fifo_wr_en' /\ meta' = meta
             /\ ~length_fifo_wr_en /\ ~meta_enq_pending
    <3>1. meta # <<>> /\ ~meta_can_deq  BY <2>3, MetaStep
    <3>2. ~frame_meta_valid  BY <3>1, QueueWaits
    <3>3. ~meta_enq_pending' /\ ~length_fifo_wr_en'  BY <1>2, <2>3, <3>2
    <3>4. Len(meta') = 1  BY <2>3
    <3>5. QED  BY <3>3, <3>4
  <2>4. QED  BY <2>1, <2>2, <2>3, MetaStep
<1>7. NoLengthDropped'
  <2>1. CASE ~length_fifo_wr_en'  BY <2>1 DEF NoLengthDropped
  <2>2. CASE length_fifo_wr_en'
    <3>1. meta # <<>> /\ ~Full(length, LEN_CAP) /\ ~Full(end_fifo, LEN_CAP)
      BY <2>2, MetaStep
    <3>2. ~length_fifo_wr_en  BY <1>1, <3>1 DEF MetaTiming
    <3>3. /\ Len(length'.mem) = Len(length.mem) + Count(length_fifo_wr_en)
          /\ Len(end_fifo'.mem) = Len(end_fifo.mem) + Count(length_fifo_wr_en)
          /\ length'.rs2 = length.rs1 /\ end_fifo'.rs2 = end_fifo.rs1
      BY MacFifos
    <3>4. /\ Len(length.mem) \in Nat /\ length.rs1 \in Nat /\ length.rs2 \in Nat
          /\ length.rs2 <= length.rs1 /\ LEN_CAP \in Nat
      BY <1>1, Numbers
    <3>5. /\ Len(end_fifo.mem) = Len(length.mem)
          /\ end_fifo.rs1 = length.rs1 /\ end_fifo.rs2 = length.rs2
      BY <1>1 DEF Lockstep
    <3>6. Len(length'.mem) = Len(length.mem) /\ Len(end_fifo'.mem) = Len(length.mem)
      BY <3>2, <3>3, <3>4, <3>5 DEF Count
    <3>7. Len(length.mem) - length.rs1 < LEN_CAP
      BY <3>1, <3>4 DEF Full
    <3>8. ~Full(length', LEN_CAP) /\ ~Full(end_fifo', LEN_CAP)
      BY <3>3, <3>4, <3>5, <3>6, <3>7 DEF Full
    <3>9. Full(length, LEN_CAP)' = Full(length', LEN_CAP)
          /\ Full(end_fifo, LEN_CAP)' = Full(end_fifo', LEN_CAP)
      BY DEF Full
    <3>10. QED  BY <3>8, <3>9 DEF NoLengthDropped
  <2>3. QED  BY <2>1, <2>2
<1>8. QED  BY <1>4, <1>5, <1>6, <1>7 DEF MetaTiming

(* How far each length has come: the frames before F are accounted for.    *)
LEMMA Positions ==
    ASSUME IInv, MacEdge
    PROVE  /\ Len(ended) \in Nat /\ Len(length.mem) \in Nat /\ Len(length'.mem) \in Nat
           /\ Len(meta') \in Nat
           /\ Len(length'.mem) = Len(length.mem) + Count(length_fifo_wr_en)
           /\ Len(ended) = Len(length'.mem) + Count(length_fifo_wr_en') + Len(meta')
                            + Count(meta_enq_pending')
<1> DEFINE F == Len(ended)
           L == Len(length.mem)
           M == Len(length'.mem)
           m == Len(meta)
           k == Len(meta')
           w == Count(length_fifo_wr_en)
           x == Count(length_fifo_wr_en')
           p == Count(meta_enq_pending)
           q == Count(meta_enq_pending')
           v == Count(frame_meta_valid)
<1>1. TypeOK /\ LengthsInOrder  BY DEF IInv
<1>2. /\ F \in Nat /\ L \in Nat /\ m \in Nat /\ w \in {0, 1} /\ p \in {0, 1} /\ v \in {0, 1}
      /\ F = L + w + m + p + v
  BY <1>1, Numbers, NewestFrames
<1>3. M = L + w  BY MacFifos
<1>4. q = v  BY MetaStep DEF Count
<1>5. k \in Nat /\ x \in Nat /\ x + k = m + p
  <2>1. CASE /\ meta = <<>> /\ ~length_fifo_wr_en'
             /\ meta' = IF meta_enq_pending THEN <<meta_enq_len>> ELSE <<>>
    BY <2>1 DEF Count
  <2>2. CASE /\ Len(meta) = 1 /\ ~meta_enq_pending
             /\ length_fifo_wr_en' /\ meta' = <<>>
    BY <2>2 DEF Count
  <2>3. CASE /\ Len(meta) = 1 /\ ~meta_enq_pending
             /\ ~length_fifo_wr_en' /\ meta' = meta
    BY <2>3 DEF Count
  <2>4. QED  BY <2>1, <2>2, <2>3, MetaStep
<1> HIDE DEF F, L, M, m, k, w, x, p, q, v
<1>6. M \in Nat /\ F = M + x + k + q  BY <1>2, <1>3, <1>4, <1>5
<1>7. QED  BY <1>2, <1>3, <1>5, <1>6 DEF F, L, M, k, w, x, q

LEMMA MacLengthsInOrder ==
    ASSUME IInv, MacEdge
    PROVE  LengthsInOrder'
<1> DEFINE F == Len(ended)
           L == Len(length.mem)
<1>1. TypeOK /\ LengthsInOrder /\ InFlight  BY DEF IInv
<1>2. /\ F \in Nat /\ L \in Nat /\ Len(length'.mem) = L + Count(length_fifo_wr_en)
      /\ F = Len(length'.mem) + Count(length_fifo_wr_en') + Len(meta') + Count(meta_enq_pending')
      /\ Len(meta') \in Nat /\ Len(length'.mem) \in Nat
  BY Positions
<1>3. /\ Len(ended') = F + Count(frame_meta_valid')
      /\ \A k \in 1..F : ended'[k] = ended[k]
  BY EndedGrows
<1>4. L <= F /\ F = L + Count(length_fifo_wr_en) + Len(meta)
                      + Count(meta_enq_pending) + Count(frame_meta_valid)
      /\ Len(meta) \in Nat
  BY <1>1, NewestFrames, Numbers
<1>5. Len(ended') = Len(length'.mem) + Count(length_fifo_wr_en') + Len(meta')
                      + Count(meta_enq_pending') + Count(frame_meta_valid')
  BY <1>2, <1>3
<1>6. L <= F /\ Len(length'.mem) <= F /\ F <= Len(ended')
  <2> DEFINE a == Count(length_fifo_wr_en')
             b == Count(meta_enq_pending')
             c == Count(frame_meta_valid')
             M == Len(length'.mem)
             m == Len(meta')
             G == Len(ended')
  <2>1. a \in Nat /\ b \in Nat /\ c \in Nat  BY DEF Count
  <2>2. F = M + a + m + b /\ G = F + c /\ M \in Nat /\ m \in Nat /\ F \in Nat
    BY <1>2, <1>3
  <2> HIDE DEF a, b, c, F, M, m, G
  <2>3. M <= F /\ F <= G  BY <2>1, <2>2
  <2>4. QED  BY <1>4, <2>3 DEF F, M, G
<1>7. ASSUME NEW k \in 1..Len(length'.mem)
      PROVE  k <= Len(ended') /\ length'.mem[k] = ended'[k].bits
  <2>1. /\ \A i \in 1..L : length'.mem[i] = length.mem[i]
        /\ length_fifo_wr_en => length'.mem[L + 1] = length_store
    BY MacFifos
  <2>2. k \in 1..F /\ k <= Len(ended')
    <3> DEFINE G == Len(ended')
               M == Len(length'.mem)
    <3>1. G \in Int  BY <1>2, <1>3 DEF Count
    <3>2. M \in Nat /\ M <= F /\ F <= G /\ k \in 1..M  BY <1>2, <1>6
    <3> HIDE DEF F, G, M
    <3>3. k \in 1..F /\ k <= G  BY <1>2, <3>1, <3>2
    <3>4. QED  BY <3>3 DEF G
  <2>3. CASE k \in 1..L
    <3>1. length.mem[k] = ended[k].bits  BY <1>1, <2>3 DEF LengthsInOrder
    <3>2. QED  BY <1>3, <2>1, <2>2, <2>3, <3>1
  <2>4. CASE k \notin 1..L
    <3>1. length_fifo_wr_en
      <4>1. SUFFICES ASSUME ~length_fifo_wr_en PROVE FALSE  OBVIOUS
      <4>2. Len(length'.mem) = L  BY <1>2, <4>1 DEF Count
      <4>3. QED  BY <2>4, <4>2
    <3>2. Len(length'.mem) = L + 1  BY <1>2, <3>1 DEF Count
    <3>3. k = L + 1  BY <1>2, <2>4, <3>2
    <3>4. length'.mem[k] = ended[k].bits  BY <1>1, <2>1, <3>1, <3>3 DEF InFlight
    <3>5. QED  BY <1>3, <2>2, <3>4
  <2>5. QED  BY <2>3, <2>4
<1>8. Len(end_fifo'.mem) = Len(length'.mem) /\ end_fifo'.rd = length'.rd
  BY MacLockstep DEF Lockstep
<1>9. QED  BY <1>5, <1>7, <1>8 DEF LengthsInOrder, Count

LEMMA MacInFlight ==
    ASSUME IInv, MacEdge
    PROVE  InFlight'
<1> DEFINE F == Len(ended)
           L == Len(length.mem)
           M == Len(length'.mem)
           n == L + Count(length_fifo_wr_en)
           o == M + Count(length_fifo_wr_en')
<1>1. TypeOK /\ LengthsInOrder /\ InFlight /\ MetaTiming  BY DEF IInv
<1>2. /\ F \in Nat /\ L \in Nat /\ M \in Nat /\ Len(meta') \in Nat /\ M = n
      /\ F = M + Count(length_fifo_wr_en') + Len(meta') + Count(meta_enq_pending')
  BY Positions
<1>3. \A k \in 1..F : ended'[k] = ended[k]  BY EndedGrows
<1>4. o \in Nat /\ o + Len(meta') + Count(meta_enq_pending') = F
  <2> DEFINE a == Count(length_fifo_wr_en')
             b == Count(meta_enq_pending')
             c == Len(meta')
  <2>1. a \in Nat /\ b \in Nat /\ c \in Nat /\ F = M + a + c + b  BY <1>2 DEF Count
  <2> HIDE DEF a, b, c, F, M
  <2>2. (M + a) \in Nat /\ (M + a) + c + b = F  BY <1>2, <2>1
  <2>3. QED  BY <2>2 DEF a, b, c, F, M
<1>5. length_fifo_wr_en' => length_store' = ended'[M + 1].bits
  <2>1. SUFFICES ASSUME length_fifo_wr_en' PROVE length_store' = ended'[M + 1].bits
    OBVIOUS
  <2>2. Len(meta) = 1 /\ ~length_fifo_wr_en /\ length_store' = meta[1]
    BY <2>1, MetaStep
  <2>3. M = L /\ n = L  BY <1>2, <2>2 DEF Count
  <2>4. 1 \in 1..Len(meta)  BY <2>2
  <2>5. meta[1] = ended[n + 1].bits  BY <1>1, <2>4 DEF InFlight
  <2>6. M + 1 \in 1..F
    <3> DEFINE b == Count(meta_enq_pending')
               c == Len(meta')
    <3>1. b \in Nat /\ c \in Nat /\ F = M + 1 + c + b  BY <1>2, <2>1 DEF Count
    <3> HIDE DEF b, c, F, M
    <3>2. QED  BY <1>2, <3>1
  <2>7. QED  BY <1>3, <2>2, <2>3, <2>5, <2>6
<1>6. ASSUME NEW i \in 1..Len(meta') PROVE meta'[i] = ended'[o + i].bits
  <2>1. o + i \in 1..F
    <3> DEFINE b == Count(meta_enq_pending')
               c == Len(meta')
    <3>1. b \in Nat /\ c \in Nat /\ i \in 1..c  BY <1>2, <1>6 DEF Count
    <3>2. o + c + b = F  BY <1>4
    <3>3. o \in Nat  BY <1>4
    <3> HIDE DEF b, c, F, o
    <3>4. QED  BY <1>2, <3>1, <3>2, <3>3
  <2>2. CASE /\ meta = <<>> /\ ~length_fifo_wr_en'
             /\ meta' = IF meta_enq_pending THEN <<meta_enq_len>> ELSE <<>>
    <3>1. meta_enq_pending /\ i = 1 /\ meta'[i] = meta_enq_len  BY <1>6, <2>2
    <3>2. Len(meta) = 0 /\ o = n  BY <1>2, <2>2 DEF Count
    <3>3. meta_enq_len = ended[n + Len(meta) + 1].bits  BY <1>1, <3>1 DEF InFlight
    <3>4. n + Len(meta) + 1 = o + i  BY <1>4, <3>1, <3>2
    <3>5. QED  BY <1>3, <2>1, <3>1, <3>3, <3>4
  <2>3. CASE meta' = <<>>  BY <1>6, <2>3
  <2>4. CASE ~length_fifo_wr_en' /\ ~length_fifo_wr_en /\ meta' = meta
    <3>1. o = n  BY <1>2, <2>4 DEF Count
    <3>2. meta[i] = ended[n + i].bits  BY <1>1, <1>6, <2>4 DEF InFlight
    <3>3. QED  BY <1>3, <2>1, <2>4, <3>1, <3>2
  <2>5. QED  BY <2>2, <2>3, <2>4, MetaStep
<1>7. meta_enq_pending' => meta_enq_len' = ended'[o + Len(meta') + 1].bits
  <2>1. SUFFICES ASSUME meta_enq_pending' PROVE meta_enq_len' = ended'[o + Len(meta') + 1].bits
    OBVIOUS
  <2>2. frame_meta_valid /\ meta_enq_len' = frame_meta_length_bits
    BY <2>1, MetaStep
  <2>3. frame_meta_length_bits = ended[F].bits  BY <1>1, <2>2 DEF InFlight
  <2>4. o + Len(meta') + 1 = F  BY <1>4, <2>1 DEF Count
  <2>5. F \in 1..F
    <3>1. F # 0  BY <1>4, <2>4, <1>2
    <3>2. QED  BY <1>2, <3>1
  <2>6. QED  BY <1>3, <2>2, <2>3, <2>4, <2>5
<1>8. frame_meta_valid' => frame_meta_length_bits' = ended'[Len(ended')].bits
  <2>1. CASE EndsNoFrame  BY <2>1 DEF EndsNoFrame
  <2>2. CASE EndsFrame  BY <2>2 DEF EndsFrame
  <2>3. QED  BY <2>1, <2>2, FsmStep
<1>9. QED  BY <1>5, <1>6, <1>7, <1>8 DEF InFlight, Count

-----------------------------------------------------------------------------
(* The beats stay where they were put.                                     *)

(* What an edge of the write clock does to the blocks of the plaintext FIFO. *)
LEMMA MacBlocks ==
    ASSUME IInv, MacEdge
    PROVE  /\ Len(plaintext.mem) \in Nat /\ Len(plaintext'.mem) \in Nat
           /\ Len(plaintext.mem) <= Len(plaintext'.mem)
           /\ \A b \in 1..Len(plaintext.mem) : plaintext'.mem[b] = plaintext.mem[b]
           /\ ~block_valid => Len(plaintext'.mem) = Len(plaintext.mem)
           /\ Len(plaintext'.mem) # Len(plaintext.mem) =>
                 /\ Len(plaintext'.mem) = Len(plaintext.mem) + 1
                 /\ plaintext'.mem[Len(plaintext.mem) + 1] = block_data
<1>1. FifoOK(plaintext, Block) /\ block_valid \in BOOLEAN /\ block_data \in Block
  BY DEF IInv, TypeOK
<1>2. Written(Block, plaintext, Full(plaintext, PLAIN_CAP), block_valid, block_data,
              WrEdge(plaintext, PLAIN_CAP, block_valid, block_data))
  BY <1>1, WrEdgeFacts, DepthAssumption
<1>3. Written(Block, plaintext, Full(plaintext, PLAIN_CAP), block_valid, block_data, plaintext')
  BY <1>2 DEF MacEdge
<1>4. Len(plaintext.mem) \in Nat /\ Len(plaintext'.mem) \in Nat
  BY <1>1, <1>3, FifoFields DEF Written
<1>5. \A b \in 1..Len(plaintext.mem) : plaintext'.mem[b] = plaintext.mem[b]
  BY <1>3 DEF Written
<1>6. CASE block_valid /\ ~Full(plaintext, PLAIN_CAP)
  <2>1. /\ Len(plaintext'.mem) = Len(plaintext.mem) + 1
        /\ plaintext'.mem[Len(plaintext.mem) + 1] = block_data
    BY <1>3, <1>6 DEF Written
  <2>2. QED  BY <1>4, <1>5, <1>6, <2>1
<1>7. CASE ~(block_valid /\ ~Full(plaintext, PLAIN_CAP))
  <2>1. Len(plaintext'.mem) = Len(plaintext.mem)  BY <1>3, <1>7 DEF Written
  <2>2. QED  BY <1>4, <1>5, <2>1
<1>8. QED  BY <1>6, <1>7

(* A half of a block is kept unless it is the one a beat is written to.    *)
LEMMA StoredKept ==
    ASSUME IInv, MacEdge, NEW b \in Nat \ {0}, NEW h,
           \/ block_data' = block_data
           \/ ~block_valid /\ (b <= Len(plaintext.mem) \/ block_data'[h] = block_data[h])
    PROVE  Stored(b, h)' = Stored(b, h)
<1> DEFINE p == Len(plaintext.mem)
           q == Len(plaintext'.mem)
<1>1. /\ p \in Nat /\ q \in Nat /\ p <= q /\ (~block_valid => q = p)
      /\ \A c \in 1..p : plaintext'.mem[c] = plaintext.mem[c]
      /\ q # p => q = p + 1 /\ plaintext'.mem[p + 1] = block_data
  BY MacBlocks
<1>2. Stored(b, h) = IF b <= p THEN plaintext.mem[b][h] ELSE block_data[h]
  BY DEF Stored
<1>3. Stored(b, h)' = IF b <= q THEN plaintext'.mem[b][h] ELSE block_data'[h]
  BY DEF Stored
<1> HIDE DEF p, q
<1>4. CASE b <= p
  <2>1. b \in 1..p /\ b <= q  BY <1>1, <1>4
  <2>2. plaintext'.mem[b] = plaintext.mem[b]  BY <1>1, <2>1
  <2>3. QED  BY <1>2, <1>3, <1>4, <2>1, <2>2
<1>5. CASE ~(b <= p) /\ q = p
  <2>1. block_data'[h] = block_data[h]  BY <1>5 DEF p
  <2>2. QED  BY <1>2, <1>3, <1>5, <2>1
<1>6. CASE ~(b <= p) /\ q # p
  <2>1. block_valid  BY <1>1, <1>6
  <2>2. block_data' = block_data  BY <2>1
  <2>3. CASE b = p + 1
    <3>1. b <= q /\ plaintext'.mem[b] = block_data  BY <1>1, <1>6, <2>3
    <3>2. QED  BY <1>2, <1>3, <1>6, <3>1
  <2>4. CASE b # p + 1
    <3>1. ~(b <= q)  BY <1>1, <1>6, <2>4
    <3>2. QED  BY <1>2, <1>3, <1>6, <2>2, <3>1
  <2>5. QED  BY <2>3, <2>4
<1>7. QED  BY <1>4, <1>5, <1>6

(* A beat stays in its place if the half that holds it is kept.            *)
LEMMA PlaceKept ==
    ASSUME IInv, MacEdge, NEW k \in 1..(Len(ended) + 1), NEW i \in Nat, InPlace(k, i),
           NEW b, b = BlocksUpTo(k - 1) + (i + 1) \div 2,
           Stored(b, Half(i))' = Stored(b, Half(i))
    PROVE  InPlace(k, i)'
<1>1. Len(ended) \in Nat  BY EndedGrows
<1>2. k - 1 \in 0..Len(ended)  BY <1>1
<1>3. BlocksUpTo(k - 1)' = BlocksUpTo(k - 1)  BY <1>2, EndedGrows
<1>4. InPlace(k, i)' <=> Stored(b, Half(i))' = Beat(k, i)
  BY <1>3 DEF InPlace, Stored, Half, Beat
<1>5. Stored(b, Half(i)) = Beat(k, i)  BY DEF InPlace
<1>6. QED  BY <1>4, <1>5

(* The beats of an ended frame are in the blocks that were packed for it.  *)
LEMMA EndedPlaces ==
    ASSUME IInv, NEW k \in 1..Len(ended), NEW i \in 1..BeatsOf(ended[k].bits)
    PROVE  /\ BlocksUpTo(k - 1) + (i + 1) \div 2 \in Nat \ {0}
           /\ BlocksUpTo(k - 1) + (i + 1) \div 2 <= BlocksUpTo(Len(ended))
<1> DEFINE F == Len(ended)
           n == ended[k].bits
           h == (i + 1) \div 2
<1>1. TypeOK /\ Cumulative  BY DEF IInv
<1>2. F \in Nat  BY <1>1, Numbers
<1>3. k \in 0..F /\ F \in 0..F /\ k - 1 \in 0..F /\ k <= F  BY <1>2
<1>4. BlocksUpTo(k - 1) \in Nat /\ BlocksUpTo(k) \in Nat /\ BlocksUpTo(F) \in Nat
  BY <1>1, <1>3, BlocksUpToNat
<1>5. BlocksUpTo(k) - BlocksUpTo(k - 1) = BlocksOf(n)  BY <1>1 DEF Cumulative
<1>6. BlocksUpTo(F) >= BlocksUpTo(k)
  <2>1. BlocksUpTo(F) - BlocksUpTo(k) >= F - k  BY <1>1, <1>3 DEF Cumulative
  <2>2. QED  BY <1>2, <1>3, <1>4, <2>1
<1>7. n \in Nat
  <2>1. ended \in Seq(EndedFrame)  BY <1>1 DEF TypeOK
  <2>2. ended[k] \in EndedFrame  BY <2>1
  <2>3. QED  BY <2>2 DEF EndedFrame
<1>8. h \in Nat \ {0} /\ h <= BlocksOf(n)
  <2>1. i \in Nat /\ i >= 1 /\ i <= (n + 63) \div 64  BY <1>7 DEF BeatsOf
  <2> HIDE DEF n
  <2>2. QED  BY <1>7, <2>1 DEF BlocksOf
<1>9. BlocksOf(n) \in Nat  BY <1>7 DEF BlocksOf
<1> HIDE DEF h, n
<1>10. QED  BY <1>4, <1>5, <1>6, <1>8, <1>9 DEF h

(* The block being packed comes after those of the frame so far.           *)
LEMMA NextBlock ==
    ASSUME IInv
    PROVE  /\ Len(plaintext.mem) \in Nat /\ BlocksUpTo(Len(ended)) \in Nat /\ Done \in Nat
           /\ BlocksUpTo(Len(ended)) + Done = Len(plaintext.mem) + Count(block_valid)
           /\ BlocksUpTo((Len(ended) + 1) - 1) = BlocksUpTo(Len(ended))
           /\ Len(ended) \in Nat /\ frame_byte_count \in Nat
<1>1. TypeOK /\ Packing  BY DEF IInv
<1>2. Len(plaintext.mem) \in Nat /\ Len(ended) \in Nat /\ frame_byte_count \in Nat
  BY <1>1, Numbers DEF TypeOK
<1>3. BlocksUpTo(Len(ended)) \in Nat  BY <1>1, <1>2, BlocksUpToNat
<1>4. Done \in Nat  BY <1>1, DoneNat
<1> DEFINE p == Len(plaintext.mem)
           u == BlocksUpTo(Len(ended))
           c == Count(block_valid)
<1>5. Done = (p + c) - u  BY DEF Done
<1>6. c \in {0, 1}  BY DEF Count
<1>7. (Len(ended) + 1) - 1 = Len(ended)  BY <1>2
<1>8. u + Done = p + c
  <2> HIDE DEF p, u, c
  <2>1. QED  BY <1>2, <1>3, <1>4, <1>5, <1>6 DEF p, u
<1>9. QED  BY <1>2, <1>3, <1>4, <1>7, <1>8

(* What the FSM writes to the block register, and when.                    *)
LEMMA BlockDataStep ==
    ASSUME IInv, MacEdge
    PROVE  \/ block_data' = block_data
           \/ ~block_valid /\ state \in {"ST_IDLE", "ST_FIRST_BEAT", "ST_HOLD"}
<1>1. FsmEdge  BY DEF MacEdge
<1>2. QED
  BY <1>1 DEF FsmEdge, NoBeatTaken, IdleBeat, FirstBeat, HoldBeat, FrameEndFlush,
     FrameEndWait, s_axis_tready

(* The beats of the frames that ended before stay in their places.         *)
LEMMA MacEndedPacked ==
    ASSUME IInv, MacEdge, NEW k \in 1..Len(ended), NEW i \in 1..BeatsOf(ended[k].bits)
    PROVE  InPlace(k, i)'
<1> DEFINE b == BlocksUpTo(k - 1) + (i + 1) \div 2
           u == BlocksUpTo(Len(ended))
           p == Len(plaintext.mem)
<1>1. InPlace(k, i)  BY DEF IInv, Packed
<1>2. b \in Nat \ {0} /\ b <= u  BY EndedPlaces
<1>3. p \in Nat /\ u \in Nat /\ Done \in Nat /\ u + Done = p + Count(block_valid)
      /\ Len(ended) \in Nat
  BY NextBlock
<1>4. ~block_valid => b <= p
  <2> HIDE DEF b, u, p
  <2>1. SUFFICES ASSUME ~block_valid PROVE b <= p  OBVIOUS
  <2>2. u + Done = p  BY <1>3, <2>1 DEF Count
  <2>3. QED  BY <1>2, <1>3, <2>2
<1>5. PICK c \in Nat \ {0} : c = b  BY <1>2
<1>6. Stored(c, Half(i))' = Stored(c, Half(i))
  BY <1>4, <1>5, BlockDataStep, StoredKept
<1>7. i \in Nat /\ k \in 1..(Len(ended) + 1)  BY <1>3
<1>8. QED  BY <1>1, <1>5, <1>6, <1>7, PlaceKept

(* The beats of the current frame that are in their places stay there.     *)
LEMMA MacCurrentKept ==
    ASSUME IInv, MacEdge, state # "ST_IDLE", ~flush_in_progress,
           NEW i \in 1..((frame_byte_count + 7) \div 8), NEW k, k = Len(ended) + 1
    PROVE  InPlace(k, i)'
<1> DEFINE u == BlocksUpTo(Len(ended))
           p == Len(plaintext.mem)
           b == u + (i + 1) \div 2
<1>1. Packing /\ Packed  BY DEF IInv
<1>2. InPlace(k, i)  BY <1>1 DEF Packed
<1>3. /\ p \in Nat /\ u \in Nat /\ Done \in Nat /\ u + Done = p + Count(block_valid)
      /\ Len(ended) \in Nat /\ frame_byte_count \in Nat
      /\ BlocksUpTo((Len(ended) + 1) - 1) = u
  BY NextBlock
<1>4. i \in Nat /\ i >= 1 /\ k \in 1..(Len(ended) + 1)  BY <1>3
<1>5. b \in Nat \ {0}
  <2> HIDE DEF u
  <2>1. QED  BY <1>3, <1>4
<1>6. ASSUME ~block_valid, state \in {"ST_FIRST_BEAT", "ST_HOLD"}
      PROVE  b <= p \/ block_data'[Half(i)] = block_data[Half(i)]
  <2>1. u + Done = p  BY <1>3, <1>6 DEF Count
  <2>2. CASE state = "ST_FIRST_BEAT"
    <3>1. frame_byte_count = 16 * Done  BY <1>1, <2>2 DEF Packing
    <3> HIDE DEF u, p
    <3>2. i <= 2 * Done  BY <1>3, <1>4, <3>1
    <3>3. QED  BY <1>3, <1>4, <2>1, <3>2
  <2>3. CASE state = "ST_HOLD"
    <3>1. frame_byte_count = 16 * Done + 8  BY <1>1, <2>3 DEF Packing
    <3>2. block_data'[1] = block_data[1]
      BY <2>3 DEF MacEdge, FsmEdge, NoBeatTaken, IdleBeat, FirstBeat, HoldBeat,
         FrameEndFlush, FrameEndWait
    <3> HIDE DEF u, p
    <3>3. i <= 2 * Done + 1  BY <1>3, <1>4, <3>1
    <3>4. CASE i <= 2 * Done  BY <1>3, <1>4, <2>1, <3>4
    <3>5. CASE i = 2 * Done + 1
      <4>1. Half(i) = 1  BY <1>3, <3>5 DEF Half
      <4>2. QED  BY <3>2, <4>1
    <3>6. QED  BY <1>3, <1>4, <3>3, <3>4, <3>5
  <2>4. QED  BY <1>6, <2>2, <2>3
<1>7. PICK c \in Nat \ {0} : c = b  BY <1>5
<1>8. \/ block_data' = block_data
      \/ ~block_valid /\ (c <= p \/ block_data'[Half(i)] = block_data[Half(i)])
  <2>1. CASE block_data' = block_data  BY <2>1
  <2>2. CASE ~block_valid /\ state \in {"ST_IDLE", "ST_FIRST_BEAT", "ST_HOLD"}
    <3>1. state \in {"ST_FIRST_BEAT", "ST_HOLD"}  BY <2>2
    <3>2. QED  BY <1>6, <1>7, <2>2, <3>1
  <2>3. QED  BY <2>1, <2>2, BlockDataStep
<1>9. Stored(c, Half(i))' = Stored(c, Half(i))  BY <1>8, StoredKept
<1>10. c = BlocksUpTo(k - 1) + (i + 1) \div 2  BY <1>3, <1>7
<1>11. QED  BY <1>2, <1>4, <1>9, <1>10, PlaceKept

(* The beat taken goes to its place in the block being packed.             *)
LEMMA BeatPlaced ==
    ASSUME IInv, MacEdge, ~block_valid, NEW k, k = Len(ended) + 1, NEW i \in Nat,
           (i + 1) \div 2 = Done + 1, block_data'[Half(i)] = Beat(k, i)
    PROVE  InPlace(k, i)'
<1> DEFINE u == BlocksUpTo(Len(ended))
           p == Len(plaintext.mem)
<1>1. /\ p \in Nat /\ u \in Nat /\ Done \in Nat /\ u + Done = p + Count(block_valid)
      /\ Len(ended) \in Nat /\ BlocksUpTo((Len(ended) + 1) - 1) = u
  BY NextBlock
<1>2. Len(plaintext'.mem) = p  BY MacBlocks
<1>3. BlocksUpTo(k - 1)' = BlocksUpTo(k - 1) /\ BlocksUpTo(k - 1) = u
  <2>1. k - 1 \in 0..Len(ended)  BY <1>1
  <2>2. QED  BY <1>1, <2>1, EndedGrows
<1>4. u + (i + 1) \div 2 = p + 1
  <2>1. u + Done = p  BY <1>1 DEF Count
  <2> HIDE DEF u, p
  <2>2. QED  BY <1>1, <2>1
<1>5. ~(p + 1 <= p)  BY <1>1
<1>6. InPlace(k, i)' <=> (IF u + (i + 1) \div 2 <= Len(plaintext'.mem)
                            THEN plaintext'.mem[u + (i + 1) \div 2][Half(i)]
                            ELSE block_data'[Half(i)]) = Beat(k, i)
  BY <1>3 DEF InPlace, Stored, Half, Beat
<1> HIDE DEF u, p
<1>7. QED  BY <1>2, <1>4, <1>5, <1>6

LEMMA MacPacked ==
    ASSUME IInv, MacEdge
    PROVE  Packed'
<1> DEFINE F == Len(ended)
<1>1. TypeOK /\ Packing  BY DEF IInv
<1>2. F \in Nat /\ Done \in Nat /\ frame_byte_count \in Nat  BY NextBlock
<1>3. ASSUME NEW k \in 1..Len(ended'), NEW i \in 1..BeatsOf(ended'[k].bits)
      PROVE  InPlace(k, i)'
  <2>1. CASE EndsNoFrame
    <3>1. ended' = ended  BY <2>1 DEF EndsNoFrame
    <3>2. QED  BY <1>3, <3>1, MacEndedPacked
  <2>2. CASE EndsFrame
    <3>1. Len(ended') = F + 1 /\ \A j \in 1..F : ended'[j] = ended[j]
      BY <2>2 DEF EndsFrame
    <3>2. CASE k \in 1..F
      <4>1. ended'[k] = ended[k]  BY <3>1, <3>2
      <4>2. i \in 1..BeatsOf(ended[k].bits)  BY <4>1
      <4>3. QED  BY <3>2, <4>2, MacEndedPacked
    <3>3. CASE k = F + 1
      <4>1. FrameEndFlush
        BY <2>2 DEF EndsFrame, MacEdge, FsmEdge, NoBeatTaken, IdleBeat, FirstBeat,
           HoldBeat, FrameEndWait
      <4>2. ended'[k].bits = frame_byte_count * 8
        BY <2>2, <3>3, <4>1 DEF EndsFrame, FrameEndFlush
      <4>3. BeatsOf(frame_byte_count * 8) = (frame_byte_count + 7) \div 8
        BY <1>2 DEF BeatsOf
      <4>4. i \in 1..((frame_byte_count + 7) \div 8)  BY <4>2, <4>3
      <4>5. state # "ST_IDLE" /\ ~flush_in_progress  BY <4>1 DEF FrameEndFlush
      <4>6. QED  BY <3>3, <4>4, <4>5, MacCurrentKept
    <3>4. QED  BY <1>2, <1>3, <3>1, <3>2, <3>3
  <2>3. QED  BY <2>1, <2>2, FsmStep
<1>4. ASSUME state' # "ST_IDLE", ~flush_in_progress',
             NEW i \in 1..((frame_byte_count' + 7) \div 8), NEW k, k = Len(ended') + 1
      PROVE  InPlace(k, i)'
  <2>1. CASE NoBeatTaken
    <3>1. /\ ended' = ended /\ frame_byte_count' = frame_byte_count /\ state # "ST_IDLE"
          /\ state \in {"ST_FIRST_BEAT", "ST_HOLD"}
      BY <1>4, <2>1 DEF NoBeatTaken
    <3>2. ~flush_in_progress  BY <1>1, <3>1 DEF Packing
    <3>3. QED  BY <1>4, <3>1, <3>2, MacCurrentKept
  <2>2. ASSUME NEW keep \in 1..8, NEW last \in BOOLEAN, IdleBeat(keep, last)
        PROVE  InPlace(k, i)'
    <3>1. /\ ended' = ended /\ frame_byte_count' = keep /\ state = "ST_IDLE"
          /\ block_data' = <<this_beat, block_data[2]>>
      BY <2>2 DEF IdleBeat
    <3>2. i = 1  BY <1>4, <3>1
    <3>3. ~block_valid /\ Done = 0  BY <1>1, <3>1 DEF Packing
    <3>4. Half(i) = 1 /\ (i + 1) \div 2 = Done + 1  BY <3>2, <3>3 DEF Half
    <3>5. block_data'[1] = Beat(k, i)
      BY <1>4, <3>1, <3>2 DEF this_beat, next_beat
    <3>6. QED  BY <1>4, <3>1, <3>3, <3>4, <3>5, BeatPlaced
  <2>3. ASSUME NEW keep \in 1..8, NEW last \in BOOLEAN, FirstBeat(keep, last)
        PROVE  InPlace(k, i)'
    <3>1. /\ ended' = ended /\ frame_byte_count' = frame_byte_count + keep
          /\ state = "ST_FIRST_BEAT" /\ ~block_valid
          /\ block_data' = <<this_beat, block_data[2]>>
      BY <2>3 DEF FirstBeat, s_axis_tready
    <3>2. ~flush_in_progress /\ frame_byte_count = 16 * Done  BY <1>1, <3>1 DEF Packing
    <3>3. CASE i \in 1..((frame_byte_count + 7) \div 8)
      BY <1>4, <3>1, <3>2, <3>3, MacCurrentKept
    <3>4. CASE i \notin 1..((frame_byte_count + 7) \div 8)
      <4>1. i = 2 * Done + 1
        <5>1. i \in 1..((16 * Done + keep + 7) \div 8) /\ i \notin 1..((16 * Done + 7) \div 8)
          BY <1>4, <3>1, <3>2, <3>4
        <5>2. QED  BY <1>2, <5>1
      <4>2. Half(i) = 1 /\ (i + 1) \div 2 = Done + 1  BY <1>2, <4>1 DEF Half
      <4>3. next_beat = i
        BY <1>2, <3>1, <3>2, <4>1 DEF next_beat
      <4>4. block_data'[1] = Beat(k, i)  BY <1>4, <3>1, <4>3 DEF this_beat
      <4>5. i \in Nat  BY <1>2, <4>1
      <4>6. QED  BY <1>4, <3>1, <4>2, <4>4, <4>5, BeatPlaced
    <3>5. QED  BY <3>3, <3>4
  <2>4. ASSUME NEW keep \in 1..8, NEW last \in BOOLEAN, HoldBeat(keep, last)
        PROVE  InPlace(k, i)'
    <3>1. /\ ended' = ended /\ frame_byte_count' = frame_byte_count + keep
          /\ state = "ST_HOLD" /\ ~block_valid
          /\ block_data' = <<block_data[1], this_beat>>
      BY <2>4 DEF HoldBeat, s_axis_tready
    <3>2. ~flush_in_progress /\ frame_byte_count = 16 * Done + 8  BY <1>1, <3>1 DEF Packing
    <3>3. CASE i \in 1..((frame_byte_count + 7) \div 8)
      BY <1>4, <3>1, <3>2, <3>3, MacCurrentKept
    <3>4. CASE i \notin 1..((frame_byte_count + 7) \div 8)
      <4>1. i = 2 * Done + 2
        <5>1. /\ i \in 1..((16 * Done + 8 + keep + 7) \div 8)
              /\ i \notin 1..((16 * Done + 8 + 7) \div 8)
          BY <1>4, <3>1, <3>2, <3>4
        <5>2. QED  BY <1>2, <5>1
      <4>2. Half(i) = 2 /\ (i + 1) \div 2 = Done + 1  BY <1>2, <4>1 DEF Half
      <4>3. next_beat = i
        BY <1>2, <3>1, <3>2, <4>1 DEF next_beat
      <4>4. block_data'[2] = Beat(k, i)  BY <1>4, <3>1, <4>3 DEF this_beat
      <4>5. i \in Nat  BY <1>2, <4>1
      <4>6. QED  BY <1>4, <3>1, <4>2, <4>4, <4>5, BeatPlaced
    <3>5. QED  BY <3>3, <3>4
  <2>5. CASE FrameEndFlush  BY <1>4, <2>5 DEF FrameEndFlush
  <2>6. CASE FrameEndWait  BY <1>4, <2>6 DEF FrameEndWait
  <2>7. QED  BY <2>1, <2>2, <2>3, <2>4, <2>5, <2>6 DEF MacEdge, FsmEdge
<1>5. QED  BY <1>3, <1>4 DEF Packed

-----------------------------------------------------------------------------
(* The invariant is inductive.                                             *)

LEMMA NextInv == IInv /\ [Next]_vars => IInv'
<1> SUFFICES ASSUME IInv, [Next]_vars PROVE IInv'
  OBVIOUS
<1>1. CASE MacEdge
  BY <1>1, MacTypeOK, MacLockstep, MacLengthsInOrder, MacInFlight, MacCumulative,
     FsmStep, MacSnapshots, MacMetaTiming, MacPacked DEF IInv
<1>2. CASE \E pl, pb \in BOOLEAN : HlsEdge(pl, pb)
  BY <1>2, HlsInv
<1>3. CASE UNCHANGED vars
  BY <1>3 DEF vars, fsmVars, metaVars, fifoVars, IInv, TypeOK, Lockstep, LengthsInOrder,
     InFlight, Cumulative, BlocksUpTo, Packing, Done, CipherAligned, Snapshots, MetaTiming,
     NoLengthDropped, Full, Packed, InPlace, Stored, Half, Beat
<1>4. QED  BY <1>1, <1>2, <1>3 DEF Next

(* All parts of the invariant hold in every reachable state.               *)
THEOREM BridgeInvariant == Spec => []IInv
<1>1. Init => IInv  BY InitInv
<1>2. IInv /\ [Next]_vars => IInv'  BY NextInv
<1>3. QED  BY <1>1, <1>2, PTL DEF Spec

(* Every register of the bridge and every FIFO pointer keeps its type, and *)
(* the pointers their order along the synchronisers.                       *)
THEOREM TypeCorrect == Spec => []TypeOK
<1>1. IInv => TypeOK  BY DEF IInv
<1>2. QED  BY <1>1, BridgeInvariant, PTL

(* The registered write of a length and an end marker never meets a full   *)
(* FIFO, although the full flag it was decided on is one cycle old: the    *)
(* plaintext FIFO, no deeper, holds a block of every frame ahead.          *)
THEOREM NoLengthIsDropped == Spec => []NoLengthDropped
<1>1. IInv => NoLengthDropped  BY DEF IInv
<1>2. QED  BY <1>1, BridgeInvariant, PTL

(* The slot in front of the metadata queue is free when a length arrives.  *)
THEOREM MetaSlotIsFree == Spec => []MetaSlotFree
<1>1. IInv => MetaSlotFree  BY DEF IInv, MetaTiming, MetaSlotFree
<1>2. QED  BY <1>1, BridgeInvariant, PTL

(* Every frame's length reaches the length FIFO once, in order.            *)
THEOREM LengthsArriveInOrder == Spec => []LengthsInOrder
<1>1. IInv => LengthsInOrder  BY DEF IInv
<1>2. QED  BY <1>1, BridgeInvariant, PTL

(* Whatever the relative speed of the clocks and the depths of the FIFOs,  *)
(* the blocks the cipher takes are those of the lengths it takes.          *)
THEOREM CipherStaysAligned == Spec => []CipherAligned
<1>1. IInv => CipherAligned  BY DEF IInv
<1>2. QED  BY <1>1, BridgeInvariant, PTL

(* The blocks of every frame are as many as its length announces and hold  *)
(* its beats in order, whatever was packed before it and however long the  *)
(* plaintext FIFO was full in between.                                     *)
THEOREM FramesArePacked == Spec => []FramesPacked
<1>1. IInv => FramesPacked
  <2> SUFFICES ASSUME IInv, NEW k \in 1..Len(ended)
      PROVE  /\ BlocksUpTo(k) - BlocksUpTo(k - 1) = BlocksOf(ended[k].bits)
             /\ \A i \in 1..BeatsOf(ended[k].bits) :
                   LET b == BlocksUpTo(k - 1) + (i + 1) \div 2
                   IN  b <= Len(plaintext.mem) => plaintext.mem[b][Half(i)] = Beat(k, i)
    BY DEF FramesPacked
  <2>1. BlocksUpTo(k) - BlocksUpTo(k - 1) = BlocksOf(ended[k].bits)
    BY DEF IInv, Cumulative
  <2>2. \A i \in 1..BeatsOf(ended[k].bits) : InPlace(k, i)
    BY DEF IInv, Packed
  <2>3. QED  BY <2>1, <2>2 DEF InPlace, Stored
<1>2. QED  BY <1>1, BridgeInvariant, PTL
=============================================================================
