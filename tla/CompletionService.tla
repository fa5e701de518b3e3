-------------------------- MODULE CompletionService --------------------------
(***************************************************************************)
(* What events and interrupts are for: whatever the device completes on a  *)
(* completion queue is handled, in the order of that queue, and never      *)
(* before it is completed.  Handling may stop for good, once.              *)
(***************************************************************************)
LOCAL INSTANCE Naturals

CONSTANT Queues

VARIABLES
    completed,   \* per queue: completions the device has made
    handled,     \* per queue: completions the driver has handled
    stopped      \* nothing more has to be handled

ServiceInit == completed = [c \in Queues |-> 0] /\ handled = [c \in Queues |-> 0]

CompleteOne(c) == completed' = [completed EXCEPT ![c] = @ + 1] /\ UNCHANGED handled

HandleSome(c) ==
    /\ \E n \in handled[c] + 1..completed[c] : handled' = [handled EXCEPT ![c] = n]
    /\ UNCHANGED completed

HandleDue(c) == ~stopped /\ HandleSome(c)

ServiceSpec ==
    /\ ServiceInit
    /\ [][\E c \in Queues : CompleteOne(c) \/ HandleSome(c)]_<<completed, handled>>
    /\ \A c \in Queues : WF_<<completed, handled>>(HandleDue(c))
=============================================================================
