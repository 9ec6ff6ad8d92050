------------------------------ MODULE PipeSpec ------------------------------
(***************************************************************************)
(* What a pipe promises: a bounded queue between the holders of two ends.  *)
(* An end that nobody holds stays gone, and only then is a caller told so. *)
(***************************************************************************)
EXTENDS Naturals, Sequences

CONSTANTS End,      \* the read end and the write end
          Size      \* the room in the queue

VARIABLES queue,    \* the bytes written and not read yet
          delivered,\* the bytes read, in order
          holders,  \* how many descriptors there are for each end
          told      \* the ends some caller was told are gone

vars == <<queue, delivered, holders, told>>

Init ==
    /\ queue = <<>>
    /\ delivered = <<>>
    /\ holders = [e \in End |-> 1]
    /\ told = {}

\* The k-th byte written is the number k, from 0.
Put ==
    /\ Len(queue) < Size
    /\ queue' = Append(queue, Len(delivered) + Len(queue))
    /\ UNCHANGED <<delivered, holders, told>>

Take ==
    /\ queue # <<>>
    /\ queue' = Tail(queue)
    /\ delivered' = Append(delivered, Head(queue))
    /\ UNCHANGED <<holders, told>>

\* Descriptors are copied from others, and closed, several at once if their
\* environment is destroyed.
Hold ==
    /\ holders' \in [End -> Nat]
    /\ \A e \in End : holders[e] = 0 => holders'[e] = 0
    /\ UNCHANGED <<queue, delivered, told>>

Tell(e) ==
    /\ holders[e] = 0
    /\ told' = told \cup {e}
    /\ UNCHANGED <<queue, delivered, holders>>

Next == Put \/ Take \/ Hold \/ \E e \in End : Tell(e)

Spec == Init /\ [][Next]_vars

\* The bytes only.
ByteSpec == Init /\ [][Put \/ Take]_<<queue, delivered>>
=============================================================================
