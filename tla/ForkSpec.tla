------------------------------ MODULE ForkSpec ------------------------------
(***************************************************************************)
(* What fork() promises: the child gets a copy of the parent's memory, and *)
(* what one environment writes then is seen by nobody else, except in      *)
(* pages that were asked to be shared.  The copy of the stack is as old as *)
(* the parent's call of fork() makes it.                                   *)
(***************************************************************************)
CONSTANTS Env, VA, Shared, Stack, Val, None

VARIABLE view       \* what each environment finds at each address, if it runs

Init == \E e \in Env, m \in [VA -> Val] :
          view = [x \in Env |-> IF x = e THEN m ELSE None]

Write(e, va, v) ==
    /\ view[e] # None
    /\ view' = [x \in Env |->
                  IF view[x] = None \/ (x # e /\ va \notin Shared)
                    THEN view[x]
                    ELSE [view[x] EXCEPT ![va] = v]]

Fork(e, c) ==
    /\ view[e] # None
    /\ view[c] = None
    /\ \E v \in Val : view' = [view EXCEPT ![c] = [view[e] EXCEPT ![Stack] = v]]

Exit(e) == view' = [view EXCEPT ![e] = None]

Next == \E e \in Env :
          \/ Exit(e)
          \/ \E c \in Env : Fork(e, c)
          \/ \E va \in VA, v \in Val : Write(e, va, v)

Spec == Init /\ [][Next]_view
=============================================================================
