--------------------------- MODULE MacsecTagAppend ---------------------------
(***************************************************************************)
(* macsec_tag_append: captures one encrypted payload, waits for its tag,   *)
(* and releases payload and trailer (packet number, EtherType, tag) as one *)
(* frame (src/macsec/macsec_tag_append.v).                                 *)
(*                                                                         *)
(* TagAppendEdge(beat, tag, ready) is one clock edge with the inputs of    *)
(* that cycle: the payload beat offered (NoBeat when tvalid is low), the   *)
(* tag offered with its packet number and EtherType (NoMeta when           *)
(* s_tag_valid is low), and m_axis_tready.                                 *)
(***************************************************************************)
EXTENDS Integers, Sequences

CONSTANT CAPTURE_DEPTH    \* beats the capture FIFO holds (MAX_BEATS)

ASSUME CaptureAssumption == CAPTURE_DEPTH \in Nat \ {0}

VARIABLES
    state_reg,
    frame_fifo,             \* the captured beats, oldest first
    pending,                \* pending_tag_reg, pending_pn_reg, pending_ethertype_reg
    tag_pending_valid_reg,
    current,                \* current_tag_reg, current_pn_reg, current_ethertype_reg
    auth_index_reg,
    out_fifo_last_reg,      \* the word in m_axis is the payload's last
    out_auth_fill_reg,      \* trailer bytes that fitted behind it
    m_axis                  \* the output register: a word, or NoWord

tagAppendVars == <<state_reg, frame_fifo, pending, tag_pending_valid_reg, current,
                   auth_index_reg, out_fifo_last_reg, out_auth_fill_reg, m_axis>>

-----------------------------------------------------------------------------
KEEP_WIDTH == 8
AUTH_BYTES == 24

(* A payload beat: which frame it belongs to, its position, its bytes.     *)
NoBeat == [frame |-> 0, pos |-> 0, keep |-> 0, last |-> FALSE]

(* What the trailer is made of: the frame and packet number the tag was    *)
(* computed with, the packet number sent along, whose EtherType it is.     *)
NoMeta == [frame |-> 0, iv_pn |-> 0, pn |-> 0, ethertype |-> 0]

(* An output word holds payload bytes, then auth trailer bytes of meta,    *)
(* beginning with trailer byte number from.                                *)
NoWord == [frame |-> 0, pos |-> 0, keep |-> 0, from |-> 0, auth |-> 0,
           meta |-> NoMeta, last |-> FALSE]

AuthWord(from, meta) ==
    [NoWord EXCEPT !.from = from,
                   !.auth = IF AUTH_BYTES - from < KEEP_WIDTH THEN AUTH_BYTES - from ELSE KEEP_WIDTH,
                   !.meta = meta,
                   !.last = AUTH_BYTES - from <= KEEP_WIDTH]

(* The payload's last word is filled up with the first trailer bytes.      *)
PayloadWord(b, meta) ==
    [NoWord EXCEPT !.frame = b.frame, !.pos = b.pos, !.keep = b.keep,
                   !.auth = IF b.last THEN KEEP_WIDTH - b.keep ELSE 0,
                   !.meta = IF b.last THEN meta ELSE NoMeta]

TagAppendInit ==
    /\ state_reg = "ST_CAPTURE"
    /\ frame_fifo = <<>>
    /\ pending = NoMeta
    /\ tag_pending_valid_reg = FALSE
    /\ current = NoMeta
    /\ auth_index_reg = 0
    /\ out_fifo_last_reg = FALSE
    /\ out_auth_fill_reg = 0
    /\ m_axis = NoWord

-----------------------------------------------------------------------------
s_payload_tready == state_reg = "ST_CAPTURE" /\ Len(frame_fifo) < CAPTURE_DEPTH

(* Mutant of s_tag_ready: the held tag may be overwritten. *)
s_tag_ready_always == TRUE
s_tag_ready == ~tag_pending_valid_reg

(* Mutant of PendingEdge: a tag that comes before its frame is captured is *)
(* forgotten.                                                              *)
PendingEdgeForgets(tag) ==
    LET tag_hs == tag # NoMeta /\ s_tag_ready
    IN  /\ pending' = IF tag_hs THEN tag ELSE pending
        /\ tag_pending_valid_reg' = (tag_hs \/ (tag_pending_valid_reg /\ state_reg = "ST_WAITTAG"))

(* One tag is held beside the frame being assembled. *)
PendingEdge(tag) ==
    LET tag_hs == tag # NoMeta /\ s_tag_ready
        used   == state_reg = "ST_WAITTAG" /\ tag_pending_valid_reg
    IN  /\ pending' = IF tag_hs THEN tag ELSE pending
        /\ tag_pending_valid_reg' = (tag_hs \/ (tag_pending_valid_reg /\ ~used))

Capture(beat) ==
    /\ state_reg = "ST_CAPTURE"
    /\ IF beat # NoBeat /\ s_payload_tready
         THEN /\ frame_fifo' = Append(frame_fifo, beat)
              /\ state_reg' = IF beat.last THEN "ST_WAITTAG" ELSE "ST_CAPTURE"
              /\ m_axis' = IF beat.last THEN NoWord ELSE m_axis
         ELSE UNCHANGED <<frame_fifo, state_reg, m_axis>>
    /\ UNCHANGED <<current, auth_index_reg, out_fifo_last_reg, out_auth_fill_reg>>

WaitTag ==
    /\ state_reg = "ST_WAITTAG"
    /\ IF tag_pending_valid_reg
         THEN /\ current' = pending
              /\ auth_index_reg' = 0
              /\ out_fifo_last_reg' = FALSE
              /\ out_auth_fill_reg' = 0
              /\ m_axis' = NoWord
              /\ state_reg' = IF frame_fifo # <<>> THEN "ST_OUTPUT_PAYLOAD" ELSE "ST_OUTPUT_AUTH"
         ELSE UNCHANGED <<current, auth_index_reg, out_fifo_last_reg,
                          out_auth_fill_reg, m_axis, state_reg>>
    /\ UNCHANGED frame_fifo

(* The output register is free, or its word leaves in this cycle. *)
out_hs(ready)    == m_axis # NoWord /\ ready
out_moves(ready) == m_axis = NoWord \/ ready

(* The FIFO is read whenever the register moves, in the cycle the trailer  *)
(* takes over as well.                                                     *)
OutputPayload(ready) ==
    /\ state_reg = "ST_OUTPUT_PAYLOAD"
    /\ frame_fifo' = IF out_moves(ready) /\ frame_fifo # <<>> THEN Tail(frame_fifo) ELSE frame_fifo
    /\ \/ /\ ~out_moves(ready)
          /\ UNCHANGED <<state_reg, auth_index_reg, out_fifo_last_reg, out_auth_fill_reg, m_axis>>
       \/ /\ out_hs(ready) /\ out_fifo_last_reg
          /\ auth_index_reg' = out_auth_fill_reg
          /\ state_reg' = "ST_OUTPUT_AUTH"
          /\ m_axis' = AuthWord(out_auth_fill_reg, current)
          /\ UNCHANGED <<out_fifo_last_reg, out_auth_fill_reg>>
       \/ /\ out_moves(ready) /\ ~(out_hs(ready) /\ out_fifo_last_reg)
          /\ IF frame_fifo # <<>>
               THEN LET b == Head(frame_fifo)
                    IN  /\ m_axis' = PayloadWord(b, current)
                        /\ out_fifo_last_reg' = b.last
                        /\ out_auth_fill_reg' = IF b.last THEN KEEP_WIDTH - b.keep ELSE 0
               ELSE m_axis' = NoWord /\ UNCHANGED <<out_fifo_last_reg, out_auth_fill_reg>>
          /\ UNCHANGED <<state_reg, auth_index_reg>>
    /\ UNCHANGED current

OutputAuth(ready) ==
    /\ state_reg = "ST_OUTPUT_AUTH"
    /\ \/ /\ ~out_moves(ready)
          /\ UNCHANGED <<state_reg, auth_index_reg, m_axis>>
       \/ /\ out_hs(ready) /\ AUTH_BYTES - auth_index_reg <= KEEP_WIDTH
          /\ state_reg' = "ST_CAPTURE"
          /\ m_axis' = NoWord
          /\ UNCHANGED auth_index_reg
       \/ /\ out_moves(ready)
          /\ ~(out_hs(ready) /\ AUTH_BYTES - auth_index_reg <= KEEP_WIDTH)
          /\ LET next == IF m_axis # NoWord THEN auth_index_reg + KEEP_WIDTH ELSE auth_index_reg
             IN  auth_index_reg' = next /\ m_axis' = AuthWord(next, current)
          /\ UNCHANGED state_reg
    /\ UNCHANGED <<frame_fifo, current, out_fifo_last_reg, out_auth_fill_reg>>

TagAppendEdge(beat, tag, ready) ==
    /\ PendingEdge(tag)
    /\ Capture(beat) \/ WaitTag \/ OutputPayload(ready) \/ OutputAuth(ready)

-----------------------------------------------------------------------------
(* The words a frame of n payload beats, the last of keep bytes, consists  *)
(* of: the payload beats in order and once each, then the 24 trailer bytes *)
(* of its own tag without a gap, the first of them behind the last payload *)
(* byte, and the end of the frame on the last word only.                   *)
FrameWords(frame, n, keep, meta) ==
    [i \in 1..(n + 3) |->
        IF i <= n
        THEN [frame |-> frame, pos |-> i, keep |-> IF i = n THEN keep ELSE 8, from |-> 0,
              auth |-> IF i = n THEN 8 - keep ELSE 0,
              meta |-> IF i = n THEN meta ELSE NoMeta, last |-> FALSE]
        ELSE LET from == (8 - keep) + 8 * (i - (n + 1))
             IN  [frame |-> 0, pos |-> 0, keep |-> 0, from |-> from,
                  auth |-> IF i = n + 3 THEN keep ELSE 8,
                  meta |-> meta, last |-> i = n + 3]]
=============================================================================
