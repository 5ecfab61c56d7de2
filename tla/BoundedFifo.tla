---------------------------- MODULE BoundedFifo -----------------------------
(***************************************************************************)
(* What a mailbox or a queue promises: mails come out in the order they    *)
(* were put in, urgent ones first, each of them once, and there are never  *)
(* more than Capacity of them.                                             *)
(***************************************************************************)
EXTENDS Naturals, Sequences

CONSTANTS Mail, Capacity, Nothing,
          Urgent    \* mails may be put in front of the others

VARIABLES queue,   \* the mails sent and not received
          got      \* the mail received last

vars == <<queue, got>>

Init == queue = << >> /\ got = Nothing

Put(m) ==
    /\ Len(queue) < Capacity
    /\ queue' = Append(queue, m) \/ (Urgent /\ queue' = <<m>> \o queue)
    /\ UNCHANGED got

Get ==
    /\ queue # << >>
    /\ queue' = Tail(queue)
    /\ got' = Head(queue)

Clear == queue' = << >> /\ UNCHANGED got

Next ==
    \/ \E m \in Mail : Put(m)
    \/ Get
    \/ Clear

Spec == Init /\ [][Next]_vars

=============================================================================
