----------------------------- MODULE FileServer -----------------------------
(***************************************************************************)
(* fs/serv.c, lib/file.c and the IPC between them.  A client puts a        *)
(* request in a page, sends the page and waits for the answer.  The server *)
(* keeps a table of open files; the Fd page of each is mapped by the       *)
(* clients that have it open, and the number of its mappings tells the     *)
(* server, and nothing else does, whether the slot is in use.              *)
(*                                                                         *)
(* A step is a system call, or what one side does between two of them      *)
(* except where it touches an Fd page, which both sides can.  What is in   *)
(* the files is in module FileSys; here a file has a size only.            *)
(***************************************************************************)
EXTENDS Naturals, FiniteSets

CONSTANTS
    Client, FD,
    First,          \* the clients that run from the start
    Name,
    MAXOPEN,        \* slots of the open file table
    NGen,           \* file ids of a slot before they start again
    MaxSize,        \* largest file
    MaxDescs,       \* bound: nobody opens one more descriptor than that
    SeekTo,         \* bound: the positions clients seek to
    Misuse,         \* what this instance lets happen, see Seek and Kill
    None

Slot   == 1..MAXOPEN
Gen    == 0..NGen - 1
FileId == Slot \X Gen       \* slot + MAXOPEN * generation, in 32 bits

OnFd    == {"read", "write", "trunc", "close"}
Opening == {"open", "create"}

ASSUME Constants ==
    /\ First \subseteq Client /\ FD \subseteq Nat /\ SeekTo \subseteq 0..MaxSize
    /\ MAXOPEN \in Nat \ {0} /\ NGen \in Nat \ {0, 1} /\ MaxSize \in Nat
    /\ None \notin Client \cup Name /\ None \notin FD \cup Slot
    /\ None \notin OnFd \cup Opening \cup {"seek"}

VARIABLES
    cl,         \* of each client: where it is, its request, its answer
    fds,        \* the slot whose Fd page is mapped at a descriptor, or None
    page,       \* what is in the Fd page of a slot: [id, off]
    opentab,    \* [id, file] of a slot
    size,       \* f_size of each file
    srv         \* where the server is, and what it works on

vars == <<cl, fds, page, opentab, size, srv>>

NoReq == [op |-> None, fd |-> None, arg |-> None, id |-> None]
Idle  == [pc |-> "recv", who |-> None, i |-> 0, res |-> None, pg |-> None]

-----------------------------------------------------------------------------
\* Mutant: the server takes a page for its own that one client still has.
SharedByTwo(s) == Cardinality({d \in Client \X FD : fds[d[1]][d[2]] = s}) > 1

Shared(s)   == \E c \in Client, f \in FD : fds[c][f] = s        \* pageref > 1
Request     == cl[srv.who].req

\* Mutant: the next id is the id plus one.
NextIdPlusOne(s) == <<IF s = MAXOPEN THEN 1 ELSE s + 1, opentab[s].id[2]>>

NextId(s)   == <<s, (opentab[s].id[2] + 1) % NGen>>
Held        == Cardinality({d \in Client \X FD : fds[d[1]][d[2]] # None})
Up(x)       == IF x < MaxSize THEN x + 1 ELSE MaxSize
Fresh(c)    == [cl EXCEPT ![c] = [pc |-> "idle", req |-> NoReq, res |-> None]]

Init ==
    /\ cl = [c \in Client |-> [pc  |-> IF c \in First THEN "idle" ELSE "unborn",
                               req |-> NoReq, res |-> None]]
    /\ fds = [c \in Client |-> [f \in FD |-> None]]
    /\ page = [s \in Slot |-> [id |-> <<1, 0>>, off |-> 0]]
    /\ opentab = [s \in Slot |-> [id |-> <<s, 0>>, file |-> None]]
    /\ size \in [Name -> {0, MaxSize}]
    /\ srv = Idle

-----------------------------------------------------------------------------
(* Clients. *)

Ask(c, req) ==
    /\ cl[c].pc = "idle"
    /\ cl' = [cl EXCEPT ![c].pc = "send", ![c].req = req]
    /\ UNCHANGED <<fds, page, opentab, size, srv>>

\* fd_alloc() takes the first descriptor that has no page.
Open(c) ==
    \E op \in Opening, n \in Name, f \in FD :
      /\ Held < MaxDescs
      /\ fds[c][f] = None /\ \A g \in FD : g < f => fds[c][g] # None
      /\ Ask(c, [op |-> op, fd |-> f, arg |-> n, id |-> None])

OnFile(c) ==
    \E op \in OnFd, f \in FD :
      /\ fds[c][f] # None
      /\ Ask(c, [op |-> op, fd |-> f, arg |-> None, id |-> page[fds[c][f]].id])

\* sys_ipc_try_send() succeeds when the server waits in sys_ipc_recv().
Send(c) ==
    /\ cl[c].pc = "send" /\ srv.pc = "recv"
    /\ cl' = [cl EXCEPT ![c].pc = "sent"]
    /\ srv' = [Idle EXCEPT !.pc = IF cl[c].req.op \in OnFd THEN "serve" ELSE "scan",
                           !.who = c, !.i = 1]
    /\ UNCHANGED <<fds, page, opentab, size>>

Await(c) ==
    /\ cl[c].pc = "sent"
    /\ cl' = [cl EXCEPT ![c].pc = "wait"]
    /\ UNCHANGED <<fds, page, opentab, size, srv>>

\* fd_close() unmaps the Fd page, whatever the server said.
Close(c) ==
    /\ cl[c].pc = "close"
    /\ fds' = [fds EXCEPT ![c][cl[c].req.fd] = None]
    /\ cl' = Fresh(c)
    /\ UNCHANGED <<page, opentab, size, srv>>

AskSeek(c) ==
    /\ cl[c].pc = "idle"
    /\ \E f \in FD, x \in SeekTo :
         /\ fds[c][f] # None
         /\ cl' = [cl EXCEPT ![c].pc = "seek",
                            ![c].req = [op |-> "seek", fd |-> f, arg |-> x, id |-> None]]
    /\ UNCHANGED <<fds, page, opentab, size, srv>>

\* The client writes to the page the server adds to (see Advance).
Seek(c) ==
    /\ cl[c].pc = "seek"
    /\ \E s \in {fds[c][cl[c].req.fd]} :
         /\ srv.pc = "advance" /\ "seek_race" \notin Misuse => Request.id[1] # s
         /\ page' = [page EXCEPT ![s].off = cl[c].req.arg]
    /\ cl' = Fresh(c)
    /\ UNCHANGED <<fds, opentab, size, srv>>

Dup(c) ==
    /\ cl[c].pc = "idle" /\ Held < MaxDescs
    /\ \E f, g \in FD :
         /\ fds[c][f] # None /\ fds[c][g] = None
         /\ fds' = [fds EXCEPT ![c][g] = fds[c][f]]
    /\ UNCHANGED <<cl, page, opentab, size, srv>>

\* Fd pages are mapped PTE_SHARE: fork() and spawn() map them in the child.
Fork(c, child) ==
    /\ cl[c].pc = "idle" /\ cl[child].pc = "unborn"
    /\ Cardinality({f \in FD : fds[c][f] # None}) + Held <= MaxDescs
    /\ cl' = Fresh(child)
    /\ fds' = [fds EXCEPT ![child] = fds[c]]
    /\ UNCHANGED <<page, opentab, size, srv>>

\* A client is destroyed between any two of its steps.
Kill(c) ==
    /\ cl[c].pc \notin {"unborn", "dead"}
    /\ srv.who = c => "kill_waiting" \in Misuse
    /\ cl' = [cl EXCEPT ![c].pc = "dead", ![c].res = None,
                        ![c].req = IF srv.who = c THEN @ ELSE NoReq]
    /\ fds' = [fds EXCEPT ![c] = [f \in FD |-> None]]
    /\ UNCHANGED <<page, opentab, size, srv>>

-----------------------------------------------------------------------------
(* The server. *)

Answer(r, pg) == srv' = [srv EXCEPT !.pc = "reply", !.res = r, !.pg = pg]

\* openfile_alloc() looks at one slot after the other.
Busy ==
    /\ srv.pc = "scan" /\ srv.i \in Slot /\ Shared(srv.i)
    /\ srv' = [srv EXCEPT !.i = @ + 1]
    /\ UNCHANGED <<cl, fds, page, opentab, size>>

\* Mutant: with no free slot, look again.
FullRetries ==
    /\ srv.pc = "scan" /\ srv.i \notin Slot
    /\ srv' = [srv EXCEPT !.i = 1]
    /\ UNCHANGED <<cl, fds, page, opentab, size>>

Full ==
    /\ srv.pc = "scan" /\ srv.i \notin Slot
    /\ Answer("error", None)
    /\ UNCHANGED <<cl, fds, page, opentab, size>>

\* Mutant: the page of a slot that is used again is not cleared.
ServeOpenNoMemset(s) ==
    /\ srv.pc = "scan" /\ srv.i = s /\ ~Shared(s)
    /\ opentab' = [opentab EXCEPT ![s] = [id |-> NextId(s), file |-> Request.arg]]
    /\ page' = [page EXCEPT ![s].id = NextId(s)]
    /\ size' = IF Request.op = "create" THEN [size EXCEPT ![Request.arg] = 0] ELSE size
    /\ Answer("ok", s)
    /\ UNCHANGED <<cl, fds>>

\* The rest of serve_open().  Only the server has the page, so this is one
\* step.  It fails if there is no such file, the disk is full or the new id
\* is negative as an int32_t.
ServeOpen(s) ==
    /\ srv.pc = "scan" /\ srv.i = s /\ ~Shared(s)
    /\ \E ok \in BOOLEAN :
         IF ok
           THEN /\ opentab' = [opentab EXCEPT ![s] = [id |-> NextId(s), file |-> Request.arg]]
                /\ page' = [page EXCEPT ![s] = [id |-> NextId(s), off |-> 0]]
                /\ size' = IF Request.op = "create" THEN [size EXCEPT ![Request.arg] = 0]
                                                    ELSE size
                /\ Answer("ok", s)
           ELSE /\ opentab' = [opentab EXCEPT ![s].id = NextId(s)]
                /\ page' = [page EXCEPT ![s] = [id |-> <<1, 0>>, off |-> 0]]
                /\ size' = size
                /\ Answer("error", None)
    /\ UNCHANGED <<cl, fds>>

OpenfileLookup(id) == Shared(id[1]) /\ opentab[id[1]].id = id

File     == opentab[Request.id[1]].file
Offset   == page[Request.id[1]].off
Moved(r) == srv' = [srv EXCEPT !.pc = "advance", !.res = r]

ServeRead ==
    /\ Request.op = "read"
    /\ IF Offset < size[File] THEN Moved(<<File, Offset>>) ELSE Answer("eof", None)
    /\ size' = size

\* file_write() makes the file longer before it looks for room on the disk,
\* and there may be none.
ServeWrite ==
    /\ Request.op = "write"
    /\ size' = [size EXCEPT ![File] = IF Offset < @ THEN @ ELSE Up(Offset)]
    /\ (Offset < MaxSize /\ Moved("ok")) \/ Answer("error", None)

ServeSetSize ==
    /\ Request.op = "trunc"
    /\ size' = [size EXCEPT ![File] = 0]
    /\ Answer("ok", None)

ServeFlush ==
    /\ Request.op = "close"
    /\ Answer("ok", None)
    /\ size' = size

\* The handlers of requests that name an open file.
Handle ==
    /\ srv.pc = "serve"
    /\ IF OpenfileLookup(Request.id)
         THEN ServeRead \/ ServeWrite \/ ServeSetSize \/ ServeFlush
         ELSE Answer("error", None) /\ size' = size
    /\ UNCHANGED <<cl, fds, page, opentab>>

\* fd_offset += r, after the file was accessed.
Advance ==
    /\ srv.pc = "advance"
    /\ page' = [page EXCEPT ![Request.id[1]].off = Up(@)]
    /\ Answer(srv.res, None)
    /\ UNCHANGED <<cl, fds, opentab, size>>

\* ipc_send() tries until the client waits, and maps the Fd page for it.  A
\* client that is gone makes it panic.
Reply ==
    /\ srv.pc = "reply" /\ cl[srv.who].pc \in {"wait", "dead"}
    /\ IF cl[srv.who].pc = "dead"
         THEN srv' = [Idle EXCEPT !.pc = "panic"] /\ UNCHANGED <<cl, fds>>
         ELSE /\ srv' = [Idle EXCEPT !.pc = "unmap"]
              /\ cl' = IF Request.op = "close"
                         THEN [cl EXCEPT ![srv.who].pc = "close", ![srv.who].res = srv.res]
                         ELSE Fresh(srv.who)
              /\ fds' = IF srv.pg = None THEN fds
                        ELSE [fds EXCEPT ![srv.who][Request.fd] = srv.pg]
    /\ UNCHANGED <<page, opentab, size>>

Again ==
    /\ srv.pc = "unmap"
    /\ srv' = Idle
    /\ UNCHANGED <<cl, fds, page, opentab, size>>

Server ==
    \/ Busy \/ Full \/ (\E s \in Slot : ServeOpen(s))
    \/ Handle \/ Advance \/ Reply \/ Again

Next ==
    \/ Server
    \/ \E c \in Client :
         \/ Open(c) \/ OnFile(c) \/ AskSeek(c) \/ Send(c) \/ Await(c) \/ Close(c)
         \/ Seek(c) \/ Dup(c) \/ Kill(c)
         \/ \E child \in Client : Fork(c, child)

Spec == Init /\ [][Next]_vars

\* Round robin runs everybody who is runnable.  Who of several senders finds
\* the server waiting is a matter of luck, so nothing is assumed of Send.
FairSpec == Spec /\ WF_vars(Server) /\ \A c \in Client : WF_vars(Await(c))

-----------------------------------------------------------------------------
(* Properties. *)

Reqs == [op : OnFd, fd : FD, arg : {None}, id : FileId]
          \cup [op : Opening, fd : FD, arg : Name, id : {None}]
          \cup [op : {"seek"}, fd : FD, arg : 0..MaxSize, id : {None}] \cup {NoReq}
Res  == {None, "ok", "error", "eof"} \cup (Name \X (0..MaxSize))

ClientState == [pc  : {"unborn", "idle", "seek", "send", "sent", "wait", "close", "dead"},
                req : Reqs, res : Res]
ServerState == [pc  : {"recv", "scan", "serve", "advance", "reply", "unmap", "panic"},
                who : Client \cup {None}, i : 0..MAXOPEN + 1,
                res : Res, pg : Slot \cup {None}]

\* The types of the variables; a file id is the id of its slot's page.
TypeOK ==
    /\ cl \in [Client -> ClientState]
    /\ fds \in [Client -> [FD -> Slot \cup {None}]]
    /\ page \in [Slot -> [id : FileId, off : 0..MaxSize]]
    /\ opentab \in [Slot -> [id : FileId, file : Name \cup {None}]]
    /\ size \in [Name -> 0..MaxSize]
    /\ srv \in ServerState
    /\ \A s \in Slot : opentab[s].id[1] = s

\* What openfile_lookup() relies on: a client never holds a descriptor, nor
\* has a request on its way, whose file id the server has given to another
\* open file since (openfile_alloc, fs/serv.c).
LiveFdsAreValid ==
    \A c \in Client, f \in FD :
      LET s == fds[c][f] IN
      s # None =>
        /\ page[s].id = opentab[s].id /\ opentab[s].file # None
        /\ cl[c].pc \in {"send", "sent", "wait"} /\ cl[c].req.op \in OnFd /\ cl[c].req.fd = f
             => cl[c].req.id = opentab[s].id

\* What the file server implements: the server's slots are the open files.  A
\* call takes effect when the server accesses the file, although the seek
\* position and the caller's Fd page follow later.
Serving(c)   == srv.who = c /\ cl[c].pc \in {"sent", "wait"}
Taken(c)     == Serving(c) /\ srv.pc \in {"advance", "reply"}
Pending      == srv.pc = "reply" /\ srv.pg # None /\ Serving(srv.who)
AbsDesc      == [c \in Client |-> [f \in FD |->
                   IF Pending /\ srv.who = c /\ Request.fd = f THEN srv.pg ELSE fds[c][f]]]
AbsOff(s)    == IF srv.pc = "advance" /\ Request.id[1] = s THEN Up(page[s].off) ELSE page[s].off
AbsOpen      == [s \in Slot |-> IF Shared(s) \/ (Pending /\ srv.pg = s)
                                 THEN [file |-> opentab[s].file, off |-> AbsOff(s)] ELSE None]
AbsCall(c)   ==
    [st   |-> CASE cl[c].pc \in {"unborn", "dead"} -> "gone"
                [] cl[c].pc = "idle"               -> "ready"
                [] cl[c].pc = "close" \/ Taken(c)   -> "done"
                [] OTHER                           -> "asked",
     op   |-> IF cl[c].pc = "dead" THEN None ELSE cl[c].req.op,
     fd   |-> IF cl[c].pc = "dead" THEN None ELSE cl[c].req.fd,
     arg  |-> IF cl[c].pc = "dead" THEN None ELSE cl[c].req.arg,
     res  |-> IF Taken(c) THEN srv.res ELSE cl[c].res]
AbsCalls     == [c \in Client |-> AbsCall(c)]

Files == INSTANCE FileServerSpec
           WITH OpenFile <- Slot, desc <- AbsDesc, open <- AbsOpen,
                call <- AbsCalls
IsOpenFiles == Files!Spec

\* A request the server has taken is answered (serve, fs/serv.c): no answer
\* waits for anything but the client that asked.
AcceptedIsAnswered ==
    \A c \in Client : cl[c].pc \in {"sent", "wait"}
                        ~> cl[c].pc \notin {"sent", "wait"}
=============================================================================
