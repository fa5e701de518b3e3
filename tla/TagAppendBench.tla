--------------------------- MODULE TagAppendBench ---------------------------
(***************************************************************************)
(* macsec_tag_append between an ap_fifo_to_axis_bridge that delivers       *)
(* payload beats and tags, in frame order but at unrelated times, and a    *)
(* sink that may be busy in any cycle.                                     *)
(***************************************************************************)
EXTENDS MacsecTagAppend

CONSTANTS
    LAST_KEEPS,    \* byte counts a payload's last beat may have
    MAX_PAYLOAD,   \* bound: beats of a payload
    MAX_FRAMES     \* bound: frames of a behaviour

ASSUME BenchAssumption ==
    /\ LAST_KEEPS \subseteq 1..8
    /\ MAX_PAYLOAD \in Nat /\ MAX_PAYLOAD <= CAPTURE_DEPTH /\ MAX_FRAMES \in Nat

VARIABLES
    beats,      \* beats of the current frame offered and taken
    captured,   \* history: beats and last keep of every captured frame
    tags,       \* tags taken so far
    released,   \* history: the frames released, each a sequence of words
    releasing   \* the words of the frame on its way out

vars == <<tagAppendVars, beats, captured, tags, released, releasing>>

BenchInit ==
    /\ TagAppendInit
    /\ beats = 0 /\ captured = <<>> /\ tags = 0
    /\ released = <<>> /\ releasing = <<>>

OfferedBeats ==
    {NoBeat} \cup
    (IF Len(captured) < MAX_FRAMES
     THEN {[frame |-> Len(captured) + 1, pos |-> beats + 1, keep |-> k, last |-> TRUE] : k \in LAST_KEEPS}
          \cup (IF beats + 1 < MAX_PAYLOAD
                THEN {[frame |-> Len(captured) + 1, pos |-> beats + 1, keep |-> 8, last |-> FALSE]}
                ELSE {})
     ELSE {})

(* The tag of the k-th frame, with the packet number that counts the tags  *)
(* handed over.                                                            *)
TagOf(k) == [frame |-> k, iv_pn |-> k, pn |-> k, ethertype |-> k]

OfferedTags == {NoMeta} \cup (IF tags < MAX_FRAMES THEN {TagOf(tags + 1)} ELSE {})

Edge(beat, tag, ready) ==
    /\ TagAppendEdge(beat, tag, ready)
    /\ IF beat # NoBeat /\ s_payload_tready
         THEN /\ beats' = IF beat.last THEN 0 ELSE beat.pos
              /\ captured' = IF beat.last
                             THEN Append(captured, [beats |-> beat.pos, keep |-> beat.keep])
                             ELSE captured
         ELSE UNCHANGED <<beats, captured>>
    /\ tags' = IF tag # NoMeta /\ s_tag_ready THEN tags + 1 ELSE tags
    /\ IF out_hs(ready)
         THEN /\ releasing' = IF m_axis.last THEN <<>> ELSE Append(releasing, m_axis)
              /\ released' = IF m_axis.last THEN Append(released, Append(releasing, m_axis)) ELSE released
         ELSE UNCHANGED <<released, releasing>>

Next == \E beat \in OfferedBeats, tag \in OfferedTags, ready \in BOOLEAN : Edge(beat, tag, ready)

Spec == BenchInit /\ [][Next]_vars

(* The clock runs, a tag offered is offered again until it is taken, and   *)
(* the sink is not busy for ever.                                          *)
LiveSpec ==
    /\ Spec
    /\ WF_vars(Next)
    /\ WF_vars(\E beat \in OfferedBeats, tag \in OfferedTags \ {NoMeta}, ready \in BOOLEAN : Edge(beat, tag, ready))
    /\ SF_vars(\E beat \in OfferedBeats, tag \in OfferedTags : out_hs(TRUE) /\ Edge(beat, tag, TRUE))

-----------------------------------------------------------------------------
(* The words of the k-th frame, with its own tag in the trailer. *)
Whole(k) == FrameWords(k, captured[k].beats, captured[k].keep, TagOf(k))

(* Whatever the sink does, frames leave whole, in order and with their own *)
(* tag: no beat lost, repeated or merged with another frame's, no trailer  *)
(* byte skipped where the trailer begins behind a partial payload beat.    *)
ReleasedWhole ==
    /\ \A k \in 1..Len(released) : k <= Len(captured) /\ released[k] = Whole(k)
    /\ LET n == Len(released) + 1
       IN  releasing # <<>> => n <= Len(captured) /\ releasing = SubSeq(Whole(n), 1, Len(releasing))

(* A captured frame is released, and the capture opens again. *)
CapturedIsReleased == state_reg = "ST_WAITTAG" ~> state_reg = "ST_CAPTURE"

-----------------------------------------------------------------------------
(* The inductive invariant: what each state holds of the frame in hand.    *)
Beats == [frame : Nat, pos : Nat, keep : 1..8, last : BOOLEAN]
Metas == [frame : Nat, iv_pn : Nat, pn : Nat, ethertype : Nat]
Words == [frame : Nat, pos : Nat, keep : 0..8, from : Nat, auth : 0..8, meta : Metas, last : BOOLEAN]

TypeOK ==
    /\ state_reg \in {"ST_CAPTURE", "ST_WAITTAG", "ST_OUTPUT_PAYLOAD", "ST_OUTPUT_AUTH"}
    /\ frame_fifo \in Seq(Beats) /\ Len(frame_fifo) <= CAPTURE_DEPTH
    /\ pending \in Metas /\ tag_pending_valid_reg \in BOOLEAN /\ current \in Metas
    /\ auth_index_reg \in 0..AUTH_BYTES /\ out_fifo_last_reg \in BOOLEAN
    /\ out_auth_fill_reg \in 0..7 /\ m_axis \in Words
    /\ beats \in Nat /\ tags \in Nat
    /\ captured \in Seq([beats : Nat \ {0}, keep : 1..8])
    /\ released \in Seq(Seq(Words)) /\ releasing \in Seq(Words)

(* The number of the frame in hand, its payload, and its words. *)
this_frame == Len(released) + 1
payload    == captured[this_frame].beats
last_keep  == captured[this_frame].keep
Beat(i) == [frame |-> this_frame, pos |-> i, keep |-> IF i = payload THEN last_keep ELSE 8,
            last |-> i = payload]
words_taken == Len(releasing)

(* Beats j+1, j+2, ... of the frame wait in the capture FIFO. *)
HoldsFrom(j) ==
    /\ Len(frame_fifo) = payload - j
    /\ \A i \in 1..Len(frame_fifo) : frame_fifo[i] = Beat(j + i)

busy == state_reg \in {"ST_OUTPUT_PAYLOAD", "ST_OUTPUT_AUTH"}

(* The tags taken are those of the frames gone, of the frame on its way    *)
(* out and the one held.                                                   *)
TagsHeld ==
    /\ tags = Len(released) + (IF busy THEN 1 ELSE 0) + (IF tag_pending_valid_reg THEN 1 ELSE 0)
    /\ tag_pending_valid_reg => pending = TagOf(tags)
    /\ busy => current = TagOf(this_frame)

Capturing ==
    /\ Len(captured) = Len(released) /\ releasing = <<>> /\ m_axis = NoWord
    /\ beats = Len(frame_fifo)
    /\ \A i \in 1..Len(frame_fifo) :
          frame_fifo[i] = [frame |-> this_frame, pos |-> i, keep |-> 8, last |-> FALSE]

Waiting == releasing = <<>> /\ m_axis = NoWord /\ HoldsFrom(0)

Releasing ==
    \/ releasing = <<>> /\ m_axis = NoWord /\ HoldsFrom(0)
    \/ /\ words_taken < payload
       /\ m_axis = Whole(this_frame)[words_taken + 1]
       /\ HoldsFrom(words_taken + 1)
       /\ out_fifo_last_reg <=> words_taken + 1 = payload
       /\ out_fifo_last_reg => out_auth_fill_reg = 8 - last_keep

Trailing ==
    /\ frame_fifo = <<>>
    /\ words_taken \in payload..payload + 2
    /\ m_axis = Whole(this_frame)[words_taken + 1]
    /\ auth_index_reg = (8 - last_keep) + 8 * (words_taken - payload)

InHand ==
    /\ state_reg # "ST_CAPTURE" => Len(captured) = this_frame /\ beats = 0
    /\ \/ state_reg = "ST_CAPTURE" /\ Capturing
       \/ state_reg = "ST_WAITTAG" /\ Waiting
       \/ state_reg = "ST_OUTPUT_PAYLOAD" /\ Releasing
       \/ state_reg = "ST_OUTPUT_AUTH" /\ Trailing

IInv == TypeOK /\ TagsHeld /\ InHand /\ ReleasedWhole
=============================================================================
