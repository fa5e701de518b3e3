----------------------------- MODULE SealedLine -----------------------------
(***************************************************************************)
(* What the transmit path promises, with nothing of how: a line that takes *)
(* frames and hands them on in the same order, each sealed exactly once    *)
(* under the packet number of its place in the line.                       *)
(***************************************************************************)
LOCAL INSTANCE Naturals
LOCAL INSTANCE Sequences

CONSTANTS Frames,          \* the frames that can be taken
          Sealed(_, _)     \* what frame f leaves as, with packet number pn

VARIABLES accepted,        \* the frames taken, in order
          sent             \* the frames handed on, in order

LineInit == accepted = <<>> /\ sent = <<>>

Accept == \E f \in Frames : accepted' = Append(accepted, f) /\ UNCHANGED sent

Send ==
    /\ Len(sent) < Len(accepted)
    /\ LET k == Len(sent) + 1 IN sent' = Append(sent, Sealed(accepted[k], k))
    /\ UNCHANGED accepted

(* One clock edge may take a frame's end and finish another frame. *)
AcceptAndSend ==
    /\ Len(sent) < Len(accepted)
    /\ \E f \in Frames : accepted' = Append(accepted, f)
    /\ LET k == Len(sent) + 1 IN sent' = Append(sent, Sealed(accepted[k], k))

LineSpec ==
    /\ LineInit
    /\ [][Accept \/ Send \/ AcceptAndSend]_<<accepted, sent>>
    /\ WF_<<accepted, sent>>(Send \/ AcceptAndSend)
=============================================================================
