------------------------------ MODULE LossyFifo ------------------------------
(***************************************************************************)
(* What the receive buffer of a serial device promises: the last Capacity  *)
(* items put into it, oldest first.  An item put into a full buffer costs  *)
(* the oldest one.                                                         *)
(***************************************************************************)
EXTENDS Naturals, Sequences, SequencesExt

CONSTANT Capacity

VARIABLES queue,   \* what the buffer holds
          exists   \* the buffer is allocated

Init == queue = <<>> /\ exists = FALSE

Create == ~exists /\ exists' /\ queue' = <<>>
Destroy == exists /\ ~exists' /\ queue' = <<>>

\* whatever is put becomes the last item
Put == /\ exists /\ exists' /\ queue' # <<>>
       /\ Front(queue') = IF Len(queue) = Capacity THEN Tail(queue) ELSE queue

Get == exists /\ exists' /\ queue # <<>> /\ queue' = Tail(queue)

Next == Create \/ Destroy \/ Put \/ Get
==============================================================================
