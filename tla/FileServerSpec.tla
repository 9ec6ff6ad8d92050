--------------------------- MODULE FileServerSpec ---------------------------
(***************************************************************************)
(* What open files are to programs.  A descriptor stands for an open file, *)
(* a name with a seek position, which other descriptors of this program    *)
(* and of its children may stand for too.  A call takes effect at one      *)
(* moment between its start and its return, on the open file its           *)
(* descriptor stands for.                                                  *)
(***************************************************************************)
EXTENDS Naturals

CONSTANTS Client, FD, Name, OpenFile, MaxSize, None

VARIABLES
    desc,       \* the open file each descriptor stands for, or None
    open,       \* [file, off] of each open file, or None
    size,       \* of each file
    call        \* what each client does: [st, op, fd, arg, res]

vars == <<desc, open, size, call>>

Up(x)    == IF x < MaxSize THEN x + 1 ELSE MaxSize
Grown(k, off) == IF off < k THEN k ELSE Up(off)     \* a write at off to a file of size k
Quiet    == [st |-> "ready", op |-> None, fd |-> None, arg |-> None, res |-> None]
Gone     == [Quiet EXCEPT !.st = "gone"]
Asked(c, op) == call[c].op = op
Done(c, r)   == call' = [call EXCEPT ![c].st = "done", ![c].res = r]

\* An open file lasts as long as a descriptor stands for it.
Release == open' = [d \in OpenFile |-> IF \E c \in Client, f \in FD : desc'[c][f] = d
                                         THEN open[d] ELSE None]

Init ==
    /\ desc = [c \in Client |-> [f \in FD |-> None]]
    /\ open = [d \in OpenFile |-> None]
    /\ size \in [Name -> 0..MaxSize]
    /\ call \in [Client -> {Quiet, Gone}]

Ask(c) ==
    /\ \E k \in {call'[c]} :
         /\ k.st = "asked" /\ k.res = None
         /\ k.op \in {"open", "create", "read", "write", "trunc", "close", "seek"}
         /\ k.fd \in FD /\ k.arg \in Name \cup {None} \cup 0..MaxSize
         /\ (k.op \in {"open", "create"}) <=> (desc[c][k.fd] = None)
         /\ call' = [call EXCEPT ![c] = k]
    /\ UNCHANGED <<desc, open, size>>

\* "create" is open() with O_TRUNC.
Open(c) ==
    LET n == call[c].arg IN
    /\ Asked(c, "open") \/ Asked(c, "create")
    /\ \E d \in OpenFile :
         /\ open[d] = None
         /\ open' = [open EXCEPT ![d] = [file |-> n, off |-> 0]]
         /\ desc' = [desc EXCEPT ![c][call[c].fd] = d]
    /\ size' = IF call[c].op = "create" THEN [size EXCEPT ![n] = 0] ELSE size
    /\ Done(c, "ok")

\* A write that fails may leave the file longer, as far as it would have gone.
Fail(c) ==
    /\ \/ (Asked(c, "open") \/ Asked(c, "create")) /\ size' = size
       \/ /\ Asked(c, "write")
          /\ \E d \in {desc[c][call[c].fd]} :
               size' = [size EXCEPT ![open[d].file] = Grown(@, open[d].off)]
    /\ Done(c, "error")
    /\ UNCHANGED <<desc, open>>

\* The calls on the open file d of the caller's descriptor.
Do(c) ==
    /\ call[c].op \notin {"open", "create", "seek"}
    /\ \E d \in {desc[c][call[c].fd]} : \E n \in {open[d].file}, off \in {open[d].off} :
         \/ /\ Asked(c, "read") /\ off < size[n]
            /\ open' = [open EXCEPT ![d].off = off + 1] /\ size' = size
            /\ Done(c, <<n, off>>)
         \/ /\ Asked(c, "read") /\ off >= size[n]
            /\ UNCHANGED <<open, size>>
            /\ Done(c, "eof")
         \/ /\ Asked(c, "write") /\ off < MaxSize
            /\ open' = [open EXCEPT ![d].off = off + 1]
            /\ size' = [size EXCEPT ![n] = Grown(@, off)]
            /\ Done(c, "ok")
         \/ /\ Asked(c, "trunc")
            /\ size' = [size EXCEPT ![n] = 0] /\ open' = open
            /\ Done(c, "ok")
         \/ /\ Asked(c, "close")
            /\ UNCHANGED <<open, size>>
            /\ Done(c, "ok")
    /\ desc' = desc

Return(c) ==
    /\ call[c].st = "done"
    /\ call' = [call EXCEPT ![c] = Quiet]
    /\ desc' = IF call[c].op = "close" THEN [desc EXCEPT ![c][call[c].fd] = None] ELSE desc
    /\ Release
    /\ size' = size

Seek(c) ==
    /\ Asked(c, "seek")
    /\ open' = [open EXCEPT ![desc[c][call[c].fd]].off = call[c].arg]
    /\ call' = [call EXCEPT ![c] = Quiet]
    /\ UNCHANGED <<desc, size>>

Dup(c) ==
    /\ \E f, g \in FD : desc[c][g] = None /\ desc' = [desc EXCEPT ![c][g] = desc[c][f]]
    /\ UNCHANGED <<open, size, call>>

Fork(c, child) ==
    /\ call[child] = Gone
    /\ call' = [call EXCEPT ![child] = Quiet]
    /\ desc' = [desc EXCEPT ![child] = desc[c]]
    /\ UNCHANGED <<open, size>>

Exit(c) ==
    /\ call' = [call EXCEPT ![c] = Gone]
    /\ desc' = [desc EXCEPT ![c] = [f \in FD |-> None]]
    /\ Release
    /\ size' = size

Next == \E c \in Client :
          \/ call[c] = Quiet
             /\ (Ask(c) \/ Dup(c) \/ \E child \in Client : Fork(c, child))
          \/ call[c].st = "asked" /\ (Open(c) \/ Fail(c) \/ Do(c) \/ Seek(c))
          \/ Return(c)
          \/ Exit(c)

Spec == Init /\ [][Next]_vars
=============================================================================
