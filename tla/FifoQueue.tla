----------------------------- MODULE FifoQueue -----------------------------
(***************************************************************************)
(* What CAPQueue promises its callers (the comments of CAPQueue.h): a FIFO  *)
(* queue that can be closed, after which nothing is handed out any more,    *)
(* and cleared, which empties it and opens it again.                        *)
(***************************************************************************)
EXTENDS Sequences, Naturals

CONSTANT Data

VARIABLES
    queue,      \* the data in the queue, oldest first
    closed,     \* CAPQueue_SetExit was called
    put,        \* everything ever put, in order
    out         \* everything that left the queue, in order

vars == <<queue, closed, put, out>>

Init ==
    /\ queue = <<>>
    /\ closed = FALSE
    /\ put = <<>>
    /\ out = <<>>

Put(d) ==
    /\ queue' = Append(queue, d)
    /\ put' = Append(put, d)
    /\ UNCHANGED <<closed, out>>

Take ==
    /\ queue # <<>>
    /\ ~closed
    /\ out' = Append(out, Head(queue))
    /\ queue' = Tail(queue)
    /\ UNCHANGED <<closed, put>>

Close ==
    /\ closed' = TRUE
    /\ UNCHANGED <<queue, put, out>>

Clear ==
    /\ out' = out \o queue
    /\ queue' = <<>>
    /\ closed' = FALSE
    /\ UNCHANGED put

Next == (\E d \in Data : Put(d)) \/ Take \/ Close \/ Clear

Spec == Init /\ [][Next]_vars

\* A queue that stays open and non-empty is eventually taken from.
FairSpec == Spec /\ WF_vars(Take)

=============================================================================
