-------------------------------- MODULE Pipe --------------------------------
(***************************************************************************)
(* A pipe between environments: lib/pipe.c with the descriptor operations  *)
(* of lib/fd.c and the part of fork() that copies descriptors.  A          *)
(* descriptor is two pages, the struct Fd and the struct Pipe behind it,   *)
(* mapped and unmapped by one system call each; nobody keeps a count of    *)
(* readers and writers, _pipeisclosed compares reference counts of pages.  *)
(*                                                                         *)
(* A step is one system call or one access to shared memory.  The pages'   *)
(* counts are the numbers of their mappings (theorem RefCorrect of         *)
(* PmapProofs).                                                            *)
(***************************************************************************)
EXTENDS Naturals, Sequences, FiniteSets, FiniteSetsExt

CONSTANTS
    Proc,       \* environments
    Root,       \* the one that called pipe()
    CPU,
    NFD,        \* MAXFD: the size of a descriptor table
    PIPEBUFSIZ,
    Request,    \* the byte count of every read() and write()
    MaxBytes,   \* bound: how many bytes are written to the pipe
    Misuse,     \* what programs do beyond the discipline in which pipes work
    Idle

ASSUME PipeAssumption ==
    /\ Root \in Proc
    /\ Idle \notin Proc
    /\ NFD \in Nat /\ NFD >= 2
    /\ PIPEBUFSIZ \in Nat \ {0}
    /\ Request \in Nat \ {0}
    /\ MaxBytes \in Nat
    /\ Misuse \subseteq {"fork_shared"}

Slot == 0..(NFD - 1)
End == {"r", "w"}

VARIABLES
    fd,         \* the Fd page mapped at INDEX2FD(i): of the read end, of the write end
    data,       \* the slots whose data page INDEX2DATA(i) is mapped
    buf, rpos, wpos,    \* struct Pipe
    at,         \* where each environment is, with its local variables
    cur,        \* the environment on each CPU
    out,        \* the bytes read so far, in order
    told,       \* the ends a caller was told are gone
    eof         \* whether a read returned 0

pipevars == <<buf, rpos, wpos>>
seen == <<out, told, eof>>
vars == <<fd, data, pipevars, at, cur, seen>>

Other(e) == IF e = "r" THEN "w" ELSE "r"
Started(p) == at[p].pc \notin {"unborn", "new", "dead"}
OnCpu(p) == \E c \in CPU : cur[c] = p
In(p, pc) == OnCpu(p) /\ at[p].pc = pc
User == [pc |-> "user"]
Goto(p, l) == at' = [at EXCEPT ![p] = l]

\* In read, write or pipeisclosed.
Calling(p) == at[p].pc \in {"loop", "move", "check", "compare"}

\* pageref() of a struct Fd, and of the struct Pipe.
Refs(e) == Cardinality({pi \in Proc \X Slot : fd[pi[1]][pi[2]] = e})
DataRefs == Cardinality({pi \in Proc \X Slot : pi[2] \in data[pi[1]]})

\* pipe() has returned to Root; nothing is shared before it returns.
Init ==
    /\ fd = [p \in Proc |-> [i \in Slot |->
               IF p # Root \/ i > 1 THEN "none" ELSE IF i = 0 THEN "r" ELSE "w"]]
    /\ data = [p \in Proc |-> IF p = Root THEN {0, 1} ELSE {}]
    /\ buf = [i \in 0..(PIPEBUFSIZ - 1) |-> 0] /\ rpos = 0 /\ wpos = 0
    /\ at = [p \in Proc |-> IF p = Root THEN User ELSE [pc |-> "unborn"]]
    /\ cur = [c \in CPU |-> Idle]
    /\ out = <<>> /\ told = {} /\ eof = FALSE

-----------------------------------------------------------------------------
(* close, dup and the descriptor pages in fork.                            *)

\* Mutant: the data page goes first.
UnmapFdLast(p, i) ==
    /\ data' = [data EXCEPT ![p] = @ \ {i}]
    /\ UNCHANGED fd

\* The first system call of devpipe_close.
UnmapFd(p, i) ==
    /\ fd' = [fd EXCEPT ![p][i] = "none"]
    /\ UNCHANGED data

\* close(i); then is where the caller goes on.
CloseFd(p, i, then) ==
    /\ fd[p][i] # "none"
    /\ UnmapFd(p, i)
    /\ Goto(p, [pc |-> "close", slot |-> i, then |-> then])

Close(p, i) ==
    /\ In(p, "user")
    /\ CloseFd(p, i, User)
    /\ UNCHANGED <<pipevars, cur, seen>>

\* Mutant: devpipe_close leaves the data page.
CloseDataKept(p) ==
    /\ In(p, "close")
    /\ fd' = [fd EXCEPT ![p][at[p].slot] = "none"]
    /\ Goto(p, at[p].then)
    /\ UNCHANGED <<data, pipevars, cur, seen>>

\* The second system call of devpipe_close; fd_close then unmaps the Fd page again.
CloseData(p) ==
    /\ In(p, "close")
    /\ data' = [data EXCEPT ![p] = @ \ {at[p].slot}]
    /\ fd' = [fd EXCEPT ![p][at[p].slot] = "none"]
    /\ Goto(p, at[p].then)
    /\ UNCHANGED <<pipevars, cur, seen>>

\* dup(i, j): an open j is closed first.
Dup(p, i, j) ==
    LET dup == [pc |-> "dup", from |-> i, to |-> j]
    IN  /\ In(p, "user")
        /\ fd[p][i] # "none"
        /\ \/ CloseFd(p, j, dup)
           \/ fd[p][j] = "none" /\ Goto(p, dup) /\ UNCHANGED <<fd, data>>
        /\ UNCHANGED <<pipevars, cur, seen>>

DupData(p) ==
    /\ In(p, "dup")
    /\ data' = [data EXCEPT ![p] = IF at[p].from \in @ THEN @ \cup {at[p].to} ELSE @]
    /\ Goto(p, [at[p] EXCEPT !.pc = "dupfd"])
    /\ UNCHANGED <<fd, pipevars, cur, seen>>

\* If from = to, the descriptor was closed above and sys_page_map fails.
DupFd(p) ==
    /\ In(p, "dupfd")
    /\ fd' = [fd EXCEPT ![p][at[p].to] = fd[p][at[p].from]]
    /\ Goto(p, User)
    /\ UNCHANGED <<data, pipevars, cur, seen>>

\* Descriptor pages carry PTE_SHARE.  duppage gets to them in address order: page i
\* is the Fd page of slot i, page NFD + i its data page.
Pages(p) == {i \in Slot : fd[p][i] # "none"} \cup {NFD + i : i \in data[p]}

\* The ends that p holds.
Ends(p) == {e \in End : \E i \in Slot : fd[p][i] = e}

\* The discipline in which pipes work: nobody is in a call on an end that a fork is
\* copying.  The other end may be in use, as when primespipe and sh hand a pipe on.
InUse(e) == \E p \in Proc : Calling(p) /\ fd[p][at[p].fd] = e
Copying(e) == \E q \in Proc : at[q].pc = "new" /\ e \in at[q].ends

Fork(p, q) ==
    /\ In(p, "user")
    /\ at[q].pc = "unborn"
    /\ (\A e \in Ends(p) : ~InUse(e)) \/ "fork_shared" \in Misuse
    /\ at' = [at EXCEPT ![p] = [pc |-> "fork", child |-> q, todo |-> Pages(p)],
                        ![q] = [pc |-> "new", ends |-> Ends(p)]]
    /\ UNCHANGED <<fd, data, pipevars, cur, seen>>

Duppage(p) ==
    LET q == at[p].child
        k == Min(at[p].todo)
    IN  /\ In(p, "fork")
        /\ at[p].todo # {}
        /\ Goto(p, [at[p] EXCEPT !.todo = @ \ {k}])
        /\ fd' = IF k < NFD THEN [fd EXCEPT ![q][k] = fd[p][k]] ELSE fd
        /\ data' = IF k >= NFD THEN [data EXCEPT ![q] = @ \cup {k - NFD}] ELSE data
        /\ UNCHANGED <<pipevars, cur, seen>>

\* The child runs.
ForkDone(p) ==
    /\ In(p, "fork")
    /\ at[p].todo = {}
    /\ at' = [at EXCEPT ![p] = User, ![at[p].child] = User]
    /\ UNCHANGED <<fd, data, pipevars, cur, seen>>

-----------------------------------------------------------------------------
(* read, write and pipeisclosed.  op is the call, fd its descriptor, n the *)
(* bytes it has done.                                                      *)

\* One environment reads at a time, and one writes: the position is loaded, used
\* and stored in separate accesses.
Busy(op) == \E q \in Proc : Calling(q) /\ at[q].op = op

Call(p, op, i) ==
    /\ In(p, "user")
    /\ \/ op = "read" /\ fd[p][i] = "r" /\ ~Busy(op)
       \/ op = "write" /\ fd[p][i] = "w" /\ ~Busy(op) /\ wpos + Request <= MaxBytes
       \/ op = "isclosed" /\ fd[p][i] # "none"
    /\ ~Copying(fd[p][i]) \/ "fork_shared" \in Misuse
    /\ Goto(p, [pc |-> IF op = "isclosed" THEN "check" ELSE "loop", op |-> op, fd |-> i, n |-> 0])
    /\ UNCHANGED <<fd, data, pipevars, cur, seen>>

Full == wpos >= rpos + PIPEBUFSIZ

\* Mutant: off by one.
EmptyLate == wpos < rpos

Empty == rpos = wpos

\* The top of the loops of devpipe_read and devpipe_write up to where the byte is
\* copied: the call returns, goes to _pipeisclosed, or copies a byte.
TakeByte(p) ==
    /\ In(p, "loop") /\ at[p].op = "read"
    /\ at[p].n < Request /\ ~Empty
    /\ Goto(p, [pc |-> "move", op |-> "read", fd |-> at[p].fd, n |-> at[p].n,
                byte |-> buf[rpos % PIPEBUFSIZ]])
    /\ UNCHANGED <<fd, data, pipevars, cur, seen>>

StoreByte(p) ==
    /\ In(p, "loop") /\ at[p].op = "write"
    /\ at[p].n < Request /\ ~Full
    /\ buf' = [buf EXCEPT ![wpos % PIPEBUFSIZ] = wpos]
    /\ Goto(p, [at[p] EXCEPT !.pc = "move"])
    /\ UNCHANGED <<fd, data, rpos, wpos, cur, seen>>

\* p_rpos++ or p_wpos++.
Advance(p) ==
    /\ In(p, "move")
    /\ Goto(p, [pc |-> "loop", op |-> at[p].op, fd |-> at[p].fd, n |-> at[p].n + 1])
    /\ \/ at[p].op = "read" /\ rpos' = rpos + 1 /\ out' = Append(out, at[p].byte)
          /\ UNCHANGED wpos
       \/ at[p].op = "write" /\ wpos' = wpos + 1 /\ UNCHANGED <<rpos, out>>
    /\ UNCHANGED <<fd, data, buf, cur, told, eof>>

\* A read that has some bytes does not wait for more.
ReturnBytes(p) ==
    /\ In(p, "loop")
    /\ at[p].n = Request \/ (at[p].op = "read" /\ at[p].n > 0 /\ Empty)
    /\ Goto(p, User)
    /\ UNCHANGED <<fd, data, pipevars, cur, seen>>

Wait(p) ==
    /\ In(p, "loop")
    /\ \/ at[p].op = "read" /\ at[p].n = 0 /\ Empty
       \/ at[p].op = "write" /\ at[p].n < Request /\ Full
    /\ Goto(p, [at[p] EXCEPT !.pc = "check"])
    /\ UNCHANGED <<fd, data, pipevars, cur, seen>>

\* _pipeisclosed reads env_runs and pageref(fd)...
CheckFd(p) ==
    /\ In(p, "check")
    /\ Goto(p, [pc |-> "compare", op |-> at[p].op, fd |-> at[p].fd, n |-> at[p].n,
                ref |-> Refs(fd[p][at[p].fd]), quiet |-> TRUE])
    /\ UNCHANGED <<fd, data, pipevars, cur, seen>>

\* ... then pageref(p) and env_runs again, and starts over if that has changed.
CheckAgain(p) ==
    /\ In(p, "compare")
    /\ ~at[p].quiet
    /\ Goto(p, [pc |-> "check", op |-> at[p].op, fd |-> at[p].fd, n |-> at[p].n])
    /\ UNCHANGED <<fd, data, pipevars, cur, seen>>

\* Mutant: env_runs is not looked at.
QuietNot(p) == In(p, "compare")

Quiet(p) == In(p, "compare") /\ at[p].quiet

SaysClosed(p) ==
    /\ Quiet(p)
    /\ at[p].ref = DataRefs
    /\ told' = told \cup {Other(fd[p][at[p].fd])}
    /\ eof' = (eof \/ at[p].op = "read")
    /\ Goto(p, User)
    /\ UNCHANGED <<fd, data, pipevars, cur, out>>

\* devpipe_read and devpipe_write yield, which may run anybody, and look again.
SaysOpen(p) ==
    /\ Quiet(p)
    /\ at[p].ref # DataRefs
    /\ Goto(p, IF at[p].op = "isclosed" THEN User
               ELSE [pc |-> "loop", op |-> at[p].op, fd |-> at[p].fd, n |-> at[p].n])
    /\ UNCHANGED <<fd, data, pipevars, cur, seen>>

-----------------------------------------------------------------------------
(* The kernel.                                                             *)

\* CPU c enters the kernel, by a timer interrupt or sys_yield, and env_run lets p go
\* on, or again.  env_run counts env_runs: quiet says that it has not since
\* _pipeisclosed read it.
Run(c, p) ==
    /\ Started(p)
    /\ cur[c] = p \/ ~OnCpu(p)
    /\ cur' = [cur EXCEPT ![c] = p]
    /\ at' = IF at[p].pc = "compare" THEN [at EXCEPT ![p].quiet = FALSE] ELSE at
    /\ UNCHANGED <<fd, data, pipevars, seen>>

\* env_free of an environment that exits, panics or traps as a zombie, or that another
\* one destroys while it does not run.
Kill(p) ==
    /\ Started(p)
    /\ OnCpu(p) \/ \E q \in Proc \ {p} : In(q, "user")
    /\ fd' = [fd EXCEPT ![p] = [i \in Slot |-> "none"]]
    /\ data' = [data EXCEPT ![p] = {}]
    /\ Goto(p, [pc |-> "dead"])
    /\ cur' = [c \in CPU |-> IF cur[c] = p THEN Idle ELSE cur[c]]
    /\ UNCHANGED <<pipevars, seen>>

\* The steps the library takes by itself.
Step(p) ==
    \/ CloseData(p) \/ DupData(p) \/ DupFd(p) \/ Duppage(p) \/ ForkDone(p)
    \/ TakeByte(p) \/ StoreByte(p) \/ Advance(p) \/ ReturnBytes(p) \/ Wait(p)
    \/ CheckFd(p) \/ CheckAgain(p) \/ SaysClosed(p) \/ SaysOpen(p)

Next ==
    \/ \E p \in Proc :
         \/ Step(p) \/ Kill(p)
         \/ \E q \in Proc : Fork(p, q)
         \/ \E i \in Slot : Close(p, i) \/ \E j \in Slot : Dup(p, i, j)
         \/ \E i \in Slot, op \in {"read", "write", "isclosed"} : Call(p, op, i)
    \/ \E c \in CPU, p \in Proc : Run(c, p)

Spec == Init /\ [][Next]_vars

\* The scheduler gives every environment the CPU again and again (RunnableRuns of
\* EnvSched) for a time slice in which it takes steps.  The slice is longer than
\* _pipeisclosed: an environment that keeps starting it keeps completing it.
FairSpec ==
    /\ Spec
    /\ \A p \in Proc :
         /\ WF_vars(\E c \in CPU : Run(c, p))
         /\ SF_vars(Step(p))
         /\ SF_vars(SaysClosed(p) \/ SaysOpen(p))

-----------------------------------------------------------------------------
(* Properties.                                                             *)

\* Every variable stays in its range; the reader never passes the writer and the
\* writer never laps the reader (the two while conditions of lib/pipe.c).
TypeOK ==
    /\ fd \in [Proc -> [Slot -> End \cup {"none"}]]
    /\ data \in [Proc -> SUBSET Slot]
    /\ buf \in [0..(PIPEBUFSIZ - 1) -> 0..MaxBytes]
    /\ rpos \in 0..MaxBytes /\ wpos \in rpos..(rpos + PIPEBUFSIZ)
    /\ cur \in [CPU -> Proc \cup {Idle}]
    /\ told \subseteq End

\* The struct Pipe never has fewer references than its two ends together, except
\* while a child of fork() is incomplete: the order of the system calls in devpipe_close
\* and dup, on which _pipeisclosed relies.
DataOutlivesFds ==
    (\A p \in Proc : at[p].pc # "new") => DataRefs >= Refs("r") + Refs("w")

\* Who holds an end: a child that fork() has not started does not, and never will if
\* its parent died half-way.
Held(e) == Cardinality({pi \in Proc \X Slot : at[pi[1]].pc # "new" /\ fd[pi[1]][pi[2]] = e})

\* A pipe is a bounded FIFO queue whatever the environments do: bytes come out once
\* and in order, and read, write and pipeisclosed say that the other end is gone only
\* if nobody holds it (devpipe_read, devpipe_write and _pipeisclosed of lib/pipe.c).
\* The second half is true on one CPU, when nobody calls on an end that a fork is
\* copying (Misuse = {}).  It is false without either: on two CPUs another environment
\* maps and unmaps between the two reads of _pipeisclosed and env_runs does not show
\* it; a fork is the run pipe_fork.
Queue == INSTANCE PipeSpec WITH
    Size <- PIPEBUFSIZ,
    queue <- [k \in 1..(wpos - rpos) |-> buf[(rpos + k - 1) % PIPEBUFSIZ]],
    delivered <- out,
    holders <- [e \in End |-> Held(e)],
    told <- told
IsQueue == Queue!Spec

\* The bytes alone: a bounded FIFO queue on any number of CPUs and for any Misuse.
BytesAreQueue == Queue!ByteSpec

\* pipeisclosed, read and write say that an end is gone only if nobody holds it.
NoFalseEof == \A e \in told : Held(e) = 0

\* A read that returns 0 leaves nothing unread: the writers are gone and all their
\* bytes were read (devpipe_read, "if all the writers are gone, note eof").
EofIsDrained == eof => Empty

\* A reader or writer whose other end is gone does not wait for ever: _pipeisclosed
\* finds out in the end, unless the checks always meet an environment half-way through
\* close, dup or fork.
LoopReturns ==
    \A p \in Proc :
       (/\ at[p].pc \in {"loop", "check", "compare"}
        /\ Refs(Other(fd[p][at[p].fd])) = 0)
         ~> \/ at[p].pc \in {"user", "dead"}
            \/ \E q \in Proc : at[q].pc \in {"close", "dup", "dupfd", "fork"}
=============================================================================
