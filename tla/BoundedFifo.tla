----------------------------- MODULE BoundedFifo -----------------------------
(***************************************************************************)
(* What a ring buffer promises its two users: a bounded first-in first-out *)
(* queue whose push fails only when the queue is full and whose pop fails  *)
(* only when it is empty.                                                  *)
(***************************************************************************)
EXTENDS Naturals, Sequences

CONSTANTS
    Cap,      \* elements it holds at most
    Values,   \* elements
    None      \* no element popped yet

VARIABLES
    queue,    \* what was pushed and not yet popped, oldest first
    full,     \* the last push was refused
    popped    \* the element the last successful pop returned

Init == queue = <<>> /\ full = FALSE /\ popped = None

Push(v) ==
    /\ Len(queue) < Cap
    /\ queue' = Append(queue, v)
    /\ full' = FALSE
    /\ UNCHANGED popped

Refuse ==
    /\ Len(queue) = Cap
    /\ full' = TRUE
    /\ UNCHANGED <<queue, popped>>

Pop ==
    /\ queue # <<>>
    /\ popped' = Head(queue)
    /\ queue' = Tail(queue)
    /\ UNCHANGED full

Next == (\E v \in Values : Push(v)) \/ Refuse \/ Pop

Spec == Init /\ [][Next]_<<queue, full, popped>>
=============================================================================
