-------------------------- MODULE FileServerProofs --------------------------
(***************************************************************************)
(* Proofs about FileServer for any number of clients, descriptors, slots   *)
(* and file ids: the types, and that a client never holds a file id that   *)
(* the server has given to another open file.                              *)
(*                                                                         *)
(* The inductive invariant is FileServerInv.  CallInv says what a client   *)
(* in the middle of a call relies on: the descriptor of its request is     *)
(* still free, or still stands for the slot its file id names.  ServerInv  *)
(* says the same of the server: whom it works for, on what, and that a     *)
(* page it is about to map is the page of the slot it has just opened.     *)
(***************************************************************************)
EXTENDS FileServer, TLAPS

\* A client that is between ipc_send() and the answer (fsipc, lib/file.c).
Asking(c) == cl[c].pc \in {"send", "sent", "wait"}

\* The descriptor of a call stays as it was when the call was made.
CallInv ==
    \A c \in Client :
      /\ Asking(c) => \/ cl[c].req.op \in Opening /\ fds[c][cl[c].req.fd] = None
                      \/ cl[c].req.op \in OnFd /\ fds[c][cl[c].req.fd] = cl[c].req.id[1]
      /\ cl[c].pc = "close" => cl[c].req.op = "close"
      /\ cl[c].pc = "seek"  => cl[c].req.op = "seek"
      /\ cl[c].pc \in {"close", "seek"} => fds[c][cl[c].req.fd] # None
      /\ cl[c].pc \in {"unborn", "idle"} => cl[c].req = NoReq
      /\ cl[c].pc \in {"unborn", "dead"} => \A f \in FD : fds[c][f] = None
      /\ cl[c].pc # "close" => cl[c].res = None

Working == srv.pc \in {"scan", "serve", "advance", "reply"}

\* The server serves one client at a time (serve, fs/serv.c).
ServerInv ==
    /\ Working <=> srv.who # None
    /\ Working => cl[srv.who].pc \in {"sent", "wait", "dead"}
    /\ srv.pc = "scan" => Request.op \in Opening
    /\ srv.pc \in {"serve", "advance"} => Request.op \in OnFd
    /\ srv.pc = "reply" => Request.op \in Opening \cup OnFd
    /\ srv.pg # None =>
         /\ srv.pc = "reply" /\ Request.op \in Opening
         /\ page[srv.pg].id = opentab[srv.pg].id /\ opentab[srv.pg].file # None

FileServerInv == TypeOK /\ LiveFdsAreValid /\ CallInv /\ ServerInv

\* The next file id of a slot names that slot.
LEMMA NextIdIsId ==
    ASSUME TypeOK, NEW s \in Slot
    PROVE  NextId(s) \in FileId /\ NextId(s)[1] = s
<1>1. (opentab[s].id[2] + 1) % NGen \in 0..NGen - 1
  <2>1. opentab[s].id[2] \in Nat
    BY DEF TypeOK, FileId, Gen
  <2> QED BY <2>1, Constants
<1> QED BY <1>1, Constants DEF NextId, FileId, Gen

\* serve_init() leaves a table nobody uses.
LEMMA InitInv == Init => FileServerInv
<1> SUFFICES ASSUME Init PROVE FileServerInv
  OBVIOUS
<1>1. TypeOK
  BY Constants DEF Init, TypeOK, ClientState, ServerState, Idle, NoReq, Reqs, Res, FileId, Gen, Slot
<1>2. LiveFdsAreValid
  BY DEF Init, LiveFdsAreValid
<1>3. CallInv
  BY Constants DEF Init, CallInv, Asking, NoReq
<1>4. ServerInv
  BY DEF Init, ServerInv, Working, Idle
<1> QED BY <1>1, <1>2, <1>3, <1>4 DEF FileServerInv

\* Client c asks r.
AskedFor(c, r, p) ==
    /\ cl[c].pc = "idle" /\ cl' = [cl EXCEPT ![c].pc = p, ![c].req = r]
    /\ p = "seek" => r.op = "seek" /\ fds[c][r.fd] # None
    /\ p = "send" => \/ r.op \in Opening /\ fds[c][r.fd] = None
                     \/ /\ r.op \in OnFd /\ fds[c][r.fd] # None
                        /\ r.id = page[fds[c][r.fd]].id
    /\ UNCHANGED <<fds, page, opentab, size, srv>>

\* Open, OnFile and AskSeek come to this.
LEMMA AskedIt ==
    ASSUME FileServerInv, NEW c \in Client, Open(c) \/ OnFile(c) \/ AskSeek(c)
    PROVE  \E r \in Reqs, p \in {"send", "seek"} : AskedFor(c, r, p)
<1> USE DEF FileServerInv
<1>1. ASSUME NEW op \in Opening, NEW n \in Name, NEW f \in FD, fds[c][f] = None,
             Ask(c, [op |-> op, fd |-> f, arg |-> n, id |-> None])
      PROVE  \E r \in Reqs, p \in {"send", "seek"} : AskedFor(c, r, p)
  <2> DEFINE r == [op |-> op, fd |-> f, arg |-> n, id |-> None]
  <2>1. r \in Reqs
    BY DEF Reqs, Opening
  <2>2. AskedFor(c, r, "send")
    BY <1>1 DEF Ask, AskedFor, Opening
  <2> QED BY <2>1, <2>2
<1>2. ASSUME NEW op \in OnFd, NEW f \in FD, fds[c][f] # None,
             Ask(c, [op |-> op, fd |-> f, arg |-> None, id |-> page[fds[c][f]].id])
      PROVE  \E r \in Reqs, p \in {"send", "seek"} : AskedFor(c, r, p)
  <2> DEFINE r == [op |-> op, fd |-> f, arg |-> None, id |-> page[fds[c][f]].id]
  <2>1. r \in Reqs
    BY <1>2 DEF Reqs, TypeOK
  <2>2. AskedFor(c, r, "send")
    BY <1>2 DEF Ask, AskedFor
  <2> QED BY <2>1, <2>2
<1>3. CASE AskSeek(c)
  <2>1. PICK f \in FD, x \in SeekTo :
          /\ fds[c][f] # None
          /\ cl' = [cl EXCEPT ![c].pc = "seek",
                             ![c].req = [op |-> "seek", fd |-> f, arg |-> x, id |-> None]]
    BY <1>3 DEF AskSeek
  <2> DEFINE r == [op |-> "seek", fd |-> f, arg |-> x, id |-> None]
  <2>2. r \in Reqs
    BY Constants DEF Reqs
  <2>3. AskedFor(c, r, "seek")
    BY <1>3, <2>1 DEF AskSeek, AskedFor
  <2> QED BY <2>2, <2>3
<1> QED BY <1>1, <1>2, <1>3 DEF Open, OnFile, Opening

\* A request carries the file id of a live descriptor, or none.
LEMMA AskInv ==
    ASSUME FileServerInv, NEW c \in Client, Open(c) \/ OnFile(c) \/ AskSeek(c)
    PROVE  FileServerInv'
<1> USE DEF FileServerInv
<1>1. PICK r \in Reqs, p \in {"send", "seek"} : AskedFor(c, r, p)
  BY AskedIt
<1>2. /\ cl[c] \in ClientState /\ cl'[c] = [pc |-> p, req |-> r, res |-> cl[c].res]
      /\ \A d \in Client \ {c} : cl'[d] = cl[d]
      /\ cl' \in [Client -> ClientState]
  <2>1. cl \in [Client -> ClientState] /\ cl[c] \in ClientState
    BY DEF TypeOK
  <2>2. cl' = [cl EXCEPT ![c] = [pc |-> p, req |-> r, res |-> cl[c].res]]
    <3>1. cl' = [cl EXCEPT ![c].pc = p, ![c].req = r] /\ DOMAIN cl = Client
      BY <2>1, <1>1 DEF AskedFor
    <3>2. /\ DOMAIN cl' = Client
          /\ \A d \in Client \ {c} : cl'[d] = cl[d]
          /\ cl'[c] = [cl[c] EXCEPT !.pc = p, !.req = r]
      BY <3>1
    <3>3. cl'[c] = [pc |-> p, req |-> r, res |-> cl[c].res]
      BY <3>2, <2>1 DEF ClientState
    <3> QED BY <3>1, <3>2, <3>3
  <2>3. [pc |-> p, req |-> r, res |-> cl[c].res] \in ClientState
    BY <2>1 DEF ClientState
  <2> QED BY <2>1, <2>2, <2>3
<1>3. TypeOK'
  BY <1>1, <1>2 DEF AskedFor, TypeOK
<1>4. LiveFdsAreValid'
  BY <1>1, <1>2 DEF AskedFor, LiveFdsAreValid, OnFd
<1>5. CallInv'
  <2>1. ASSUME NEW d \in Client \ {c} PROVE CallInv!(d)'
    BY <2>1, <1>1, <1>2 DEF AskedFor, CallInv, Asking
  <2>2. CallInv!(c)'
    <3>1. p = "send" /\ r.op \in OnFd => r.id[1] = fds[c][r.fd]
      <4> SUFFICES ASSUME p = "send", r.op \in OnFd PROVE r.id[1] = fds[c][r.fd]
        OBVIOUS
      <4>1. r.fd \in FD
        BY Constants DEF Reqs, NoReq, OnFd, Opening
      <4>2. fds[c][r.fd] # None /\ fds[c][r.fd] \in Slot /\ r.id = page[fds[c][r.fd]].id
        BY <4>1, <1>1 DEF AskedFor, TypeOK, OnFd, Opening
      <4>3. r.id = opentab[fds[c][r.fd]].id
        BY <4>1, <4>2 DEF LiveFdsAreValid
      <4> QED BY <4>2, <4>3 DEF TypeOK
    <3> QED BY <3>1, <1>1, <1>2 DEF AskedFor, CallInv, Asking
  <2> QED BY <2>1, <2>2 DEF CallInv
<1>6. ServerInv'
  <2>1. Working => srv.who # c /\ srv.who \in Client
    BY <1>1 DEF AskedFor, ServerInv, TypeOK, ServerState
  <2> QED BY <2>1, <1>1, <1>2 DEF AskedFor, ServerInv, Working, Request
<1> QED BY <1>3, <1>4, <1>5, <1>6

\* sys_ipc_try_send() hands the request over as it is.
LEMMA SendInv ==
    ASSUME FileServerInv, NEW c \in Client, Send(c)
    PROVE  FileServerInv'
<1> USE DEF FileServerInv
<1>1. /\ cl[c] \in ClientState /\ cl[c].pc = "send" /\ srv.pc = "recv"
      /\ cl' = [cl EXCEPT ![c].pc = "sent"] /\ cl' \in [Client -> ClientState]
      /\ UNCHANGED <<fds, page, opentab, size>>
  BY SMTT(30) DEF Send, TypeOK, ClientState
<1>2. /\ srv'.pc = IF cl[c].req.op \in OnFd THEN "serve" ELSE "scan"
      /\ srv'.who = c /\ srv'.pg = None /\ srv' \in ServerState
  <2>1. srv' = [pc |-> IF cl[c].req.op \in OnFd THEN "serve" ELSE "scan",
                who |-> c, i |-> 1, res |-> None, pg |-> None]
    BY DEF Send, Idle
  <2>2. 1 \in 0..MAXOPEN + 1 /\ None \in Res
    BY Constants DEF Res
  <2> QED BY <2>1, <2>2 DEF ServerState
<1>3. TypeOK'
  BY <1>1, <1>2 DEF TypeOK
<1>4. LiveFdsAreValid'
  BY <1>1 DEF LiveFdsAreValid, TypeOK
<1>5. CallInv'
  BY <1>1 DEF CallInv, Asking, TypeOK
<1>6. ServerInv'
  <2>1. cl'[c].pc = "sent" /\ cl'[c].req = cl[c].req
    BY <1>1 DEF TypeOK
  <2>2. cl[c].req.op \in Opening \cup OnFd
    BY <1>1 DEF CallInv, Asking
  <2> QED BY <2>1, <2>2, <1>2, Constants DEF ServerInv, Working, Request
<1> QED BY <1>3, <1>4, <1>5, <1>6

\* sys_ipc_recv() changes nothing but where the client is.
LEMMA AwaitInv ==
    ASSUME FileServerInv, NEW c \in Client, Await(c)
    PROVE  FileServerInv'
<1> USE DEF FileServerInv
<1>1. /\ cl[c] \in ClientState /\ cl[c].pc = "sent"
      /\ cl' = [cl EXCEPT ![c].pc = "wait"] /\ cl' \in [Client -> ClientState]
      /\ UNCHANGED <<fds, page, opentab, size, srv>>
  BY SMTT(30) DEF Await, TypeOK, ClientState
<1>2. TypeOK'
  BY <1>1 DEF TypeOK
<1>3. LiveFdsAreValid'
  BY <1>1 DEF LiveFdsAreValid, TypeOK
<1>4. CallInv'
  BY <1>1 DEF CallInv, Asking, TypeOK
<1>5. ServerInv'
  BY <1>1 DEF ServerInv, Working, Request, TypeOK, ServerState
<1> QED BY <1>2, <1>3, <1>4, <1>5

\* A client that is done with a call, or new, and holds nothing but copies of
\* valid descriptors, is idle with valid descriptors.
LEMMA FreshInv ==
    ASSUME FileServerInv, NEW c \in Client, srv.who # c,
           cl' = Fresh(c), fds' \in [Client -> [FD -> Slot \cup {None}]],
           \A d \in Client \ {c} : fds'[d] = fds[d],
           \A f \in FD : fds'[c][f] # None => \E d \in Client, g \in FD : fds[d][g] = fds'[c][f],
           page' \in [Slot -> [id : FileId, off : 0..MaxSize]],
           \A s \in Slot : page'[s].id = page[s].id,
           UNCHANGED <<opentab, size, srv>>
    PROVE  FileServerInv'
<1> USE DEF FileServerInv
<1>1. /\ cl'[c] = [pc |-> "idle", req |-> NoReq, res |-> None]
      /\ cl' \in [Client -> ClientState] /\ \A d \in Client \ {c} : cl'[d] = cl[d]
  BY DEF Fresh, TypeOK, ClientState, Reqs, Res
<1>2. TypeOK'
  BY <1>1 DEF TypeOK
<1>3. LiveFdsAreValid'
  <2>1. ASSUME NEW d \in Client, NEW f \in FD, fds'[d][f] # None
        PROVE  /\ fds'[d][f] \in Slot
               /\ \E e \in Client, g \in FD : fds[e][g] = fds'[d][f]
    BY <2>1
  <2>2. ASSUME NEW d \in Client, NEW f \in FD, fds'[d][f] # None
        PROVE  page'[fds'[d][f]].id = opentab[fds'[d][f]].id /\ opentab[fds'[d][f]].file # None
    BY <2>1, <2>2 DEF LiveFdsAreValid
  <2>3. ASSUME NEW d \in Client \ {c}, NEW f \in FD PROVE LiveFdsAreValid!(d, f)'
    BY <2>2, <2>3, <1>1 DEF LiveFdsAreValid
  <2>4. ASSUME NEW f \in FD PROVE LiveFdsAreValid!(c, f)'
    BY <2>2, <1>1
  <2> QED BY <2>3, <2>4 DEF LiveFdsAreValid
<1>4. CallInv'
  BY <1>1, Constants DEF CallInv, Asking, TypeOK
<1>5. ServerInv'
  <2>1. srv.who # None => srv.who \in Client \ {c}
    BY DEF TypeOK, ServerState
  <2>2. srv.pg # None => srv.pg \in Slot
    BY DEF TypeOK, ServerState
  <2> QED BY <2>1, <2>2, <1>1 DEF ServerInv, Working, Request
<1> QED BY <1>2, <1>3, <1>4, <1>5

\* The server works for nobody but the client it has taken a request from.
LEMMA NotServed ==
    ASSUME FileServerInv, NEW c \in Client, cl[c].pc \notin {"sent", "wait", "dead"}
    PROVE  srv.who # c
BY Constants DEF FileServerInv, ServerInv, Working

\* fd_close(), seek(), dup() and fork() copy or drop valid descriptors.
LEMMA OwnInv ==
    ASSUME FileServerInv, NEW c \in Client,
           Close(c) \/ Seek(c) \/ Dup(c) \/ \E child \in Client : Fork(c, child)
    PROVE  FileServerInv'
<1> USE DEF FileServerInv
<1>1. CASE Close(c)
  <2>1. cl[c].req.fd \in FD
    <3>1. cl[c].req \in Reqs /\ cl[c].req.op = "close"
      BY <1>1 DEF Close, CallInv, TypeOK, ClientState
    <3> QED BY <3>1, Constants DEF Reqs, NoReq, OnFd, Opening
  <2> QED BY <2>1, <1>1, NotServed, FreshInv DEF Close, TypeOK
<1>2. CASE Seek(c)
  <2>1. cl[c].req.fd \in FD /\ cl[c].req.arg \in 0..MaxSize
    <3>1. cl[c].pc = "seek"
      BY <1>2 DEF Seek
    <3>2. cl[c].req.op = "seek"
      BY <3>1 DEF CallInv
    <3>3. cl[c].req \in Reqs
      BY DEF TypeOK, ClientState
    <3> QED BY <3>2, <3>3, Constants DEF Reqs, NoReq, OnFd, Opening
  <2>2. fds[c][cl[c].req.fd] \in Slot
    <3>1. cl[c].pc = "seek"
      BY <1>2 DEF Seek
    <3>2. fds[c][cl[c].req.fd] # None
      BY <3>1 DEF CallInv
    <3>3. fds[c][cl[c].req.fd] \in Slot \cup {None}
      BY <2>1 DEF TypeOK
    <3> QED BY <3>2, <3>3
  <2>3. /\ page' \in [Slot -> [id : FileId, off : 0..MaxSize]]
        /\ \A s \in Slot : page'[s].id = page[s].id
    BY <2>1, <2>2, <1>2 DEF Seek, TypeOK
  <2> QED BY <2>3, <1>2, NotServed, FreshInv DEF Seek, TypeOK
<1>3. CASE Dup(c)
  <2>1. PICK f \in FD, g \in FD : fds[c][f] # None /\ fds' = [fds EXCEPT ![c][g] = fds[c][f]]
    BY <1>3 DEF Dup
  <2>2. cl[c].pc = "idle" /\ cl[c].req = NoReq /\ cl[c].res = None
    BY <1>3 DEF Dup, CallInv
  <2>3. cl' = Fresh(c)
    BY <2>2, <1>3 DEF Dup, Fresh, TypeOK, ClientState
  <2>4. /\ fds' \in [Client -> [FD -> Slot \cup {None}]]
        /\ \A d \in Client \ {c} : fds'[d] = fds[d]
        /\ \A h \in FD : fds'[c][h] \in {fds[c][h], fds[c][f]}
    BY <2>1 DEF TypeOK
  <2>5. \A h \in FD : fds'[c][h] # None => \E d \in Client, e \in FD : fds[d][e] = fds'[c][h]
    BY <2>4
  <2>6. page' \in [Slot -> [id : FileId, off : 0..MaxSize]] /\ page' = page
    BY <1>3 DEF Dup, TypeOK
  <2>7. srv.who # c
    BY <2>2, NotServed
  <2> QED BY <2>3, <2>4, <2>5, <2>6, <2>7, <1>3, FreshInv DEF Dup
<1>4. ASSUME NEW child \in Client, Fork(c, child) PROVE FileServerInv'
  BY <1>4, NotServed, FreshInv DEF Fork, TypeOK
<1> QED BY <1>1, <1>2, <1>3, <1>4

\* env_free() drops descriptors.
LEMMA KillInv ==
    ASSUME FileServerInv, NEW c \in Client, Kill(c)
    PROVE  FileServerInv'
<1> USE DEF FileServerInv
<1> DEFINE req == IF srv.who = c THEN cl[c].req ELSE NoReq
<1>1. /\ cl[c] \in ClientState /\ cl'[c] = [pc |-> "dead", req |-> req, res |-> None]
      /\ \A d \in Client \ {c} : cl'[d] = cl[d]
      /\ cl' \in [Client -> ClientState]
  <2>1. cl \in [Client -> ClientState] /\ cl[c] \in ClientState
    BY DEF TypeOK
  <2>2. req \in Reqs
    BY <2>1 DEF ClientState, Reqs
  <2>3. /\ DOMAIN cl' = Client /\ \A d \in Client \ {c} : cl'[d] = cl[d]
        /\ cl'[c] = [cl[c] EXCEPT !.pc = "dead", !.res = None, !.req = req]
    BY <2>1 DEF Kill
  <2>4. cl'[c] = [pc |-> "dead", req |-> req, res |-> None]
    BY <2>1, <2>3 DEF ClientState
  <2>5. [pc |-> "dead", req |-> req, res |-> None] \in ClientState
    BY <2>2 DEF ClientState, Res
  <2> QED BY <2>1, <2>3, <2>4, <2>5 DEF Kill
<1>2. /\ fds' \in [Client -> [FD -> Slot \cup {None}]] /\ \A f \in FD : fds'[c][f] = None
      /\ \A d \in Client \ {c} : fds'[d] = fds[d]
      /\ UNCHANGED <<page, opentab, size, srv>>
  BY DEF Kill, TypeOK
<1>3. TypeOK'
  BY <1>1, <1>2 DEF TypeOK
<1>4. LiveFdsAreValid'
  BY <1>1, <1>2 DEF LiveFdsAreValid
<1>5. CallInv'
  BY <1>1, <1>2 DEF CallInv, Asking
<1>6. ServerInv'
  <2>1. srv.who # None => srv.who \in Client
    BY DEF TypeOK, ServerState
  <2> QED BY <2>1, <1>1, <1>2 DEF ServerInv, Working, Request
<1> QED BY <1>3, <1>4, <1>5, <1>6

\* openfile_alloc() passes slots over.
LEMMA ScanInv ==
    ASSUME FileServerInv, Busy \/ Full
    PROVE  FileServerInv'
<1> USE DEF FileServerInv
<1>1. srv' \in ServerState
  <2>1. CASE Busy
    <3>1. srv.i + 1 \in 0..MAXOPEN + 1
      BY <2>1, Constants DEF Busy, Slot
    <3> QED BY <3>1, <2>1 DEF Busy, TypeOK, ServerState
  <2>2. CASE Full
    BY <2>2 DEF Full, Answer, TypeOK, ServerState, Res
  <2> QED BY <2>1, <2>2
<1>2. TypeOK'
  BY <1>1 DEF Busy, Full, TypeOK
<1>3. LiveFdsAreValid' /\ CallInv'
  BY DEF Busy, Full, LiveFdsAreValid, CallInv, Asking
<1>4. ServerInv'
  BY DEF Busy, Full, Answer, TypeOK, ServerState, ServerInv, Working, Request
<1> QED BY <1>2, <1>3, <1>4

\* The request the server works on is well formed.
LEMMA RequestType ==
    ASSUME FileServerInv, Working
    PROVE  /\ srv.who \in Client /\ Request \in Reqs
           /\ Request.op \in OnFd => Request.id \in FileId /\ Request.fd \in FD
           /\ Request.op \in Opening => Request.arg \in Name /\ Request.fd \in FD
<1>1. srv.who \in Client
  BY DEF FileServerInv, ServerInv, TypeOK, ServerState
<1>2. Request \in Reqs
  BY <1>1 DEF FileServerInv, TypeOK, ClientState, Request
<1> QED BY <1>1, <1>2, Constants DEF Reqs, NoReq, OnFd, Opening

\* serve_open() gives a slot a new id while no client maps its page.
LEMMA ServeOpenInv ==
    ASSUME FileServerInv, NEW s \in Slot, ServeOpen(s)
    PROVE  FileServerInv'
<1> USE DEF FileServerInv
<1>1. srv.pc = "scan" /\ ~Shared(s) /\ UNCHANGED <<cl, fds>>
  BY DEF ServeOpen
<1>2. Request.op \in Opening /\ Request.arg \in Name
  BY <1>1, RequestType DEF ServerInv, Working
<1>3. NextId(s) \in FileId /\ NextId(s)[1] = s
  BY NextIdIsId
<1>4. PICK file \in Name \cup {None}, id \in FileId, pg \in {s, None}, r \in {"ok", "error"} :
        /\ opentab' = [opentab EXCEPT ![s] = [id |-> NextId(s), file |-> file]]
        /\ page' = [page EXCEPT ![s] = [id |-> id, off |-> 0]]
        /\ size' \in [Name -> 0..MaxSize]
        /\ Answer(r, pg)
        /\ pg = s => id = NextId(s) /\ file # None
  <2>1. CASE /\ opentab' = [opentab EXCEPT ![s] = [id |-> NextId(s), file |-> Request.arg]]
             /\ page' = [page EXCEPT ![s] = [id |-> NextId(s), off |-> 0]]
             /\ size' = IF Request.op = "create" THEN [size EXCEPT ![Request.arg] = 0] ELSE size
             /\ Answer("ok", s)
    <3>1. size' \in [Name -> 0..MaxSize]
      BY <2>1, <1>2, Constants DEF TypeOK
    <3>2. Request.arg # None
      BY <1>2, Constants
    <3> QED BY <3>1, <3>2, <2>1, <1>2, <1>3
  <2>2. CASE /\ opentab' = [opentab EXCEPT ![s].id = NextId(s)]
             /\ page' = [page EXCEPT ![s] = [id |-> <<1, 0>>, off |-> 0]]
             /\ size' = size
             /\ Answer("error", None)
    <3>1. /\ opentab[s] \in [id : FileId, file : Name \cup {None}]
          /\ opentab' = [opentab EXCEPT ![s] = [id |-> NextId(s), file |-> opentab[s].file]]
      <4>1. /\ opentab \in [Slot -> [id : FileId, file : Name \cup {None}]]
            /\ opentab[s] \in [id : FileId, file : Name \cup {None}]
        BY DEF TypeOK
      <4>2. [opentab[s] EXCEPT !.id = NextId(s)] = [id |-> NextId(s), file |-> opentab[s].file]
        BY <4>1
      <4>3. opentab' = [opentab EXCEPT ![s] = [opentab[s] EXCEPT !.id = NextId(s)]]
        BY <2>2, <4>1
      <4> QED BY <4>1, <4>2, <4>3
    <3>2. <<1, 0>> \in FileId
      BY Constants DEF FileId, Slot, Gen
    <3>3. None # s
      BY Constants
    <3>4. opentab[s].file \in Name \cup {None} /\ size' \in [Name -> 0..MaxSize]
      BY <3>1, <2>2 DEF TypeOK
    <3> QED BY <3>1, <3>2, <3>3, <3>4, <2>2
  <2> QED BY <2>1, <2>2 DEF ServeOpen
<1>5. srv' = [srv EXCEPT !.pc = "reply", !.res = r, !.pg = pg] /\ srv' \in ServerState
  BY <1>4 DEF Answer, TypeOK, ServerState, Res
<1>6. TypeOK'
  BY <1>1, <1>3, <1>4, <1>5, Constants DEF TypeOK
<1>7. LiveFdsAreValid'
  <2>1. \A c \in Client, f \in FD : fds[c][f] # s
    BY <1>1 DEF Shared
  <2>2. \A c \in Client, f \in FD : fds[c][f] # None =>
          opentab'[fds[c][f]] = opentab[fds[c][f]] /\ page'[fds[c][f]] = page[fds[c][f]]
    BY <2>1, <1>4 DEF TypeOK
  <2> QED BY <2>2, <1>1 DEF LiveFdsAreValid
<1>8. CallInv'
  BY <1>1 DEF CallInv, Asking
<1>9. ServerInv'
  <2>1. /\ srv'.pc = "reply" /\ srv'.who = srv.who /\ srv'.pg = pg
        /\ srv.who # None
    BY <1>1, <1>5 DEF TypeOK, ServerState, ServerInv, Working
  <2>2. pg = s => page'[s].id = NextId(s) /\ opentab'[s].id = NextId(s) /\ opentab'[s].file # None
    BY <1>4 DEF TypeOK
  <2> QED BY <2>1, <2>2, <1>1, <1>2 DEF ServerInv, Working, Request
<1> QED BY <1>6, <1>7, <1>8, <1>9

\* A file id names a slot, and openfile_lookup() finds an open file there.
LEMMA LookupType ==
    ASSUME FileServerInv, srv.pc \in {"serve", "advance"}
    PROVE  /\ Request.op \in OnFd /\ Request.id[1] \in Slot /\ Offset \in 0..MaxSize
           /\ OpenfileLookup(Request.id) => File \in Name
<1> USE DEF FileServerInv
<1>1. Request.op \in OnFd /\ Request.id \in FileId
  BY RequestType DEF ServerInv, Working
<1>2. Request.id[1] \in Slot
  BY <1>1 DEF FileId
<1>3. Offset \in 0..MaxSize
  BY <1>2 DEF Offset, TypeOK
<1>4. OpenfileLookup(Request.id) => File \in Name
  <2> SUFFICES ASSUME OpenfileLookup(Request.id) PROVE File \in Name
    OBVIOUS
  <2>1. PICK c \in Client, f \in FD : fds[c][f] = Request.id[1]
    BY DEF OpenfileLookup, Shared
  <2>2. Request.id[1] # None
    BY <1>2, Constants
  <2>3. File # None
    BY <2>1, <2>2 DEF LiveFdsAreValid, File
  <2> QED BY <2>3, <1>2 DEF File, TypeOK
<1> QED BY <1>1, <1>2, <1>3, <1>4

\* The handlers of requests on open files leave the table alone.
LEMMA HandleInv ==
    ASSUME FileServerInv, Handle
    PROVE  FileServerInv'
<1> USE DEF FileServerInv
<1>1. srv.pc = "serve" /\ UNCHANGED <<cl, fds, page, opentab>>
  BY DEF Handle
<1>2. PICK p \in {"advance", "reply"}, r \in Res :
        /\ srv' = [srv EXCEPT !.pc = p, !.res = r] /\ size' \in [Name -> 0..MaxSize]
  <2>0. srv \in ServerState /\ srv.pg = None /\ size \in [Name -> 0..MaxSize]
    BY <1>1 DEF TypeOK, ServerInv
  <2>1. ASSUME NEW r \in Res, Answer(r, None)
        PROVE  srv' = [srv EXCEPT !.pc = "reply", !.res = r]
    BY <2>0, <2>1 DEF Answer, ServerState
  <2>2. CASE ~OpenfileLookup(Request.id)
    BY <2>0, <2>1, <2>2 DEF Handle, Res
  <2>3. CASE OpenfileLookup(Request.id)
    <3>1. File \in Name /\ Offset \in 0..MaxSize
      BY <1>1, <2>3, LookupType
    <3>2. CASE ServeRead
      <4>1. "eof" \in Res /\ (Offset < size[File] => <<File, Offset>> \in Res)
        BY <3>1 DEF Res
      <4> QED BY <2>0, <2>1, <3>2, <4>1 DEF ServeRead, Moved
    <3>3. CASE ServeWrite
      <4>1. "ok" \in Res /\ "error" \in Res
        BY DEF Res
      <4>2. size' \in [Name -> 0..MaxSize]
        BY <2>0, <3>1, <3>3, Constants DEF ServeWrite, Up
      <4> QED BY <2>1, <3>3, <4>1, <4>2 DEF ServeWrite, Moved
    <3>4. CASE ServeSetSize \/ ServeFlush
      <4>1. "ok" \in Res
        BY DEF Res
      <4>2. size' \in [Name -> 0..MaxSize]
        BY <2>0, <3>4, Constants DEF ServeSetSize, ServeFlush
      <4> QED BY <2>1, <3>4, <4>1, <4>2 DEF ServeSetSize, ServeFlush
    <3> QED BY <2>3, <3>2, <3>3, <3>4 DEF Handle
  <2> QED BY <2>2, <2>3
<1>3. /\ srv' \in ServerState /\ srv'.pc = p /\ srv'.who = srv.who /\ srv'.pg = srv.pg
  BY <1>2 DEF TypeOK, ServerState
<1>4. TypeOK'
  BY <1>1, <1>2, <1>3 DEF TypeOK
<1>5. LiveFdsAreValid' /\ CallInv'
  BY <1>1 DEF LiveFdsAreValid, CallInv, Asking
<1>6. ServerInv'
  BY <1>1, <1>3 DEF ServerInv, Working, Request
<1> QED BY <1>4, <1>5, <1>6

\* The seek position is not part of what file ids mean.
LEMMA AdvanceInv ==
    ASSUME FileServerInv, Advance
    PROVE  FileServerInv'
<1> USE DEF FileServerInv
<1>1. srv.pc = "advance" /\ UNCHANGED <<cl, fds, opentab, size>> /\ srv.pg = None
  BY DEF Advance, ServerInv
<1>2. /\ srv' \in ServerState /\ srv'.pc = "reply" /\ srv'.who = srv.who /\ srv'.pg = None
  BY DEF Advance, Answer, TypeOK, ServerState
<1>3. /\ page' \in [Slot -> [id : FileId, off : 0..MaxSize]]
      /\ \A s \in Slot : page'[s].id = page[s].id
  <2>1. Request.id[1] \in Slot /\ Offset \in 0..MaxSize
    BY <1>1, LookupType
  <2>2. Up(Offset) \in 0..MaxSize
    BY <2>1, Constants DEF Up
  <2>3. page' = [page EXCEPT ![Request.id[1]].off = Up(Offset)]
    BY DEF Advance, Offset
  <2> QED BY <2>1, <2>2, <2>3 DEF TypeOK
<1>4. TypeOK'
  BY <1>1, <1>2, <1>3 DEF TypeOK
<1>5. LiveFdsAreValid'
  BY <1>1, <1>3 DEF LiveFdsAreValid, TypeOK
<1>6. CallInv'
  BY <1>1 DEF CallInv, Asking
<1>7. ServerInv'
  BY <1>1, <1>2 DEF ServerInv, Working, Request
<1> QED BY <1>4, <1>5, <1>6, <1>7

\* The server between two requests.
LEMMA IdleState == Idle \in ServerState /\ [Idle EXCEPT !.pc = "panic"] \in ServerState
                     /\ [Idle EXCEPT !.pc = "unmap"] \in ServerState
<1>1. 0 \in 0..MAXOPEN + 1 /\ None \in Res
  BY Constants DEF Res
<1> QED BY <1>1 DEF Idle, ServerState

\* ipc_send() of the answer maps the page of the slot that was opened.
LEMMA ReplyInv ==
    ASSUME FileServerInv, Reply
    PROVE  FileServerInv'
<1> USE DEF FileServerInv
<1> DEFINE c == srv.who
<1>1. /\ srv.pc = "reply" /\ c \in Client /\ cl[c] \in ClientState
      /\ UNCHANGED <<page, opentab, size>>
  BY RequestType DEF Reply, Working, TypeOK
<1>2. /\ srv' \in ServerState /\ srv'.pc \in {"panic", "unmap"}
      /\ srv'.who = None /\ srv'.pg = None
  BY IdleState DEF Reply, Idle
<1>3. CASE cl[c].pc = "dead"
  <2>1. UNCHANGED <<cl, fds>>
    BY <1>3 DEF Reply
  <2> QED BY <2>1, <1>1, <1>2 DEF TypeOK, LiveFdsAreValid, CallInv, Asking, ServerInv, Working
<1>4. CASE cl[c].pc = "wait"
  <2>1. /\ Request = cl[c].req /\ Request.fd \in FD
        /\ Request.op \in OnFd \cup Opening /\ cl[c].res = None
    BY <1>1, <1>4, RequestType DEF CallInv, Asking, Request, Working
  <2>2. /\ \A d \in Client \ {c} : cl'[d] = cl[d]
        /\ cl' \in [Client -> ClientState]
        /\ \/ cl'[c] = [pc |-> "idle", req |-> NoReq, res |-> None]
           \/ /\ Request.op = "close" /\ srv.pg = None
              /\ cl'[c].pc = "close" /\ cl'[c].req = Request
    <3>1. CASE Request.op = "close"
      <4>1. cl' = [cl EXCEPT ![c].pc = "close", ![c].res = srv.res] /\ srv.res \in Res
        BY <1>4, <3>1 DEF Reply, TypeOK, ServerState
      <4>2. /\ \A d \in Client \ {c} : cl'[d] = cl[d]
            /\ cl'[c].pc = "close" /\ cl'[c].req = Request /\ cl' \in [Client -> ClientState]
        BY <1>1, <2>1, <4>1 DEF TypeOK, ClientState
      <4>3. srv.pg = None
        BY <3>1 DEF ServerInv, Opening
      <4> QED BY <3>1, <4>2, <4>3
    <3>2. CASE Request.op # "close"
      <4>1. cl' = Fresh(c)
        BY <1>4, <3>2 DEF Reply
      <4>2. [pc |-> "idle", req |-> NoReq, res |-> None] \in ClientState
        BY DEF ClientState, Reqs, Res
      <4> QED BY <1>1, <4>1, <4>2 DEF Fresh, TypeOK
    <3> QED BY <3>1, <3>2
  <2>3. /\ fds' = IF srv.pg = None THEN fds ELSE [fds EXCEPT ![c][Request.fd] = srv.pg]
        /\ srv.pg \in Slot \cup {None}
    BY <1>4 DEF Reply, TypeOK, ServerState
  <2>4. /\ fds' \in [Client -> [FD -> Slot \cup {None}]] /\ \A d \in Client \ {c} : fds'[d] = fds[d]
        /\ \A f \in FD : fds'[c][f] = fds[c][f] \/ fds'[c][f] = srv.pg
        /\ srv.pg = None => fds' = fds
    BY <1>1, <2>1, <2>3 DEF TypeOK
  <2>5. TypeOK'
    BY <1>1, <1>2, <2>2, <2>4 DEF TypeOK
  <2>6. LiveFdsAreValid'
    <3>1. ASSUME NEW d \in Client \ {c}, NEW f \in FD PROVE LiveFdsAreValid!(d, f)'
      BY <1>1, <2>2, <2>4 DEF LiveFdsAreValid
    <3>2. ASSUME NEW f \in FD, fds'[c][f] # None
          PROVE  /\ page'[fds'[c][f]].id = opentab'[fds'[c][f]].id
                 /\ opentab'[fds'[c][f]].file # None
      <4>1. CASE fds'[c][f] = fds[c][f]
        BY <4>1, <3>2, <1>1 DEF LiveFdsAreValid
      <4>2. CASE fds'[c][f] = srv.pg
        BY <4>2, <3>2, <1>1 DEF ServerInv
      <4> QED BY <4>1, <4>2, <2>4
    <3>3. cl'[c].pc \notin {"send", "sent", "wait"}
      BY <2>2
    <3>4. ASSUME NEW d \in Client, NEW f \in FD PROVE LiveFdsAreValid!(d, f)'
      <4>1. CASE d = c
        BY <4>1, <3>2, <3>3
      <4>2. CASE d # c
        BY <4>2, <3>1
      <4> QED BY <4>1, <4>2
    <3> QED BY <3>4 DEF LiveFdsAreValid
  <2>7. CallInv'
    <3>1. ASSUME NEW d \in Client \ {c} PROVE CallInv!(d)'
      BY <2>2, <2>4 DEF CallInv, Asking
    <3>2. CASE cl'[c].pc = "idle"
      BY <2>2, <3>1, <3>2 DEF CallInv, Asking
    <3>3. CASE Request.op = "close" /\ srv.pg = None /\ cl'[c].pc = "close" /\ cl'[c].req = Request
      <4>1. fds'[c][Request.fd] # None
        <5>1. fds[c][Request.fd] = Request.id[1]
          BY <1>1, <1>4, <2>1, <3>3 DEF CallInv, Asking, Opening
        <5>2. Request.id[1] \in Slot
          BY <1>1, <3>3, RequestType DEF Working, OnFd, FileId
        <5> QED BY <5>1, <5>2, <3>3, <2>4, Constants
      <4> QED BY <3>1, <3>3, <4>1 DEF CallInv, Asking
    <3> QED BY <2>2, <3>2, <3>3
  <2>8. ServerInv'
    BY <1>2 DEF ServerInv, Working
  <2> QED BY <2>5, <2>6, <2>7, <2>8
<1> QED BY <1>3, <1>4 DEF Reply

\* serve() goes back to ipc_recv().
LEMMA AgainInv ==
    ASSUME FileServerInv, Again
    PROVE  FileServerInv'
<1> USE DEF FileServerInv
<1>1. srv' \in ServerState /\ srv'.pc = "recv" /\ srv'.who = None /\ srv'.pg = None
  BY IdleState DEF Again, Idle
<1> QED BY <1>1 DEF Again, TypeOK, LiveFdsAreValid, CallInv, Asking, ServerInv, Working

-----------------------------------------------------------------------------

\* Every step keeps the invariant.
LEMMA NextInv == FileServerInv /\ [Next]_vars => FileServerInv'
<1> SUFFICES ASSUME FileServerInv, [Next]_vars PROVE FileServerInv'
  OBVIOUS
<1>1. CASE Server
  BY <1>1, ScanInv, ServeOpenInv, HandleInv, AdvanceInv, ReplyInv, AgainInv DEF Server
<1>2. ASSUME NEW c \in Client,
             \/ Open(c) \/ OnFile(c) \/ AskSeek(c) \/ Send(c) \/ Await(c) \/ Close(c)
             \/ Seek(c) \/ Dup(c) \/ Kill(c) \/ \E child \in Client : Fork(c, child)
      PROVE  FileServerInv'
  BY <1>2, AskInv, SendInv, AwaitInv, OwnInv, KillInv
<1>3. CASE UNCHANGED vars
  BY <1>3 DEF vars, FileServerInv, TypeOK, LiveFdsAreValid, CallInv, Asking,
                 ServerInv, Working, Request
<1> QED BY <1>1, <1>2, <1>3 DEF Next

\* The invariant holds always: what a call relies on stays true until the
\* server answers, whatever other clients and the server do in between.
THEOREM FileServerInvariant == Spec => []FileServerInv
BY InitInv, NextInv, PTL DEF Spec

\* Descriptors, requests, answers and the table keep their types; a slot's
\* file id always names that slot (openfile_alloc, fs/serv.c).
THEOREM FileServerTypes == Spec => []TypeOK
BY FileServerInvariant, PTL DEF FileServerInv

\* openfile_alloc() takes a slot again only when nobody has a descriptor for
\* it and no request that names it is on its way, so openfile_lookup() never
\* finds another file than the one that was opened.
THEOREM LiveFdsCorrect == Spec => []LiveFdsAreValid
BY FileServerInvariant, PTL DEF FileServerInv

-----------------------------------------------------------------------------
(***************************************************************************)
(* FileServer implements FileServerSpec, for any number of clients,        *)
(* descriptors, slots and file ids, when clients do not seek in the middle *)
(* of somebody's read or write and are not destroyed while the server      *)
(* works for them (Misuse = {}).                                           *)
(*                                                                         *)
(* Each step of a client or of the server is matched with what programs    *)
(* see: a call starts with the client's Ask, takes effect when the server  *)
(* has accessed the file or opened it, and returns with Reply or Close.    *)
(* All other steps stutter.  Beside FileServerInv the proof needs          *)
(* Attended: the client the server works for is still there.               *)
(***************************************************************************)

\* What the abstract call of c is while c is in the middle of one.
Told(c, st, r) == [st |-> st, op |-> cl[c].req.op, fd |-> cl[c].req.fd,
                   arg |-> cl[c].req.arg, res |-> r]

\* AbsCall, by the place of the client.
CallsAreTold == \A c \in Client :
    /\ cl[c].pc \in {"unborn", "dead"} => AbsCall(c) = Files!Gone
    /\ cl[c].pc = "idle" => AbsCall(c) = Files!Quiet
    /\ cl[c].pc \in {"seek", "send", "sent", "wait"} /\ ~Taken(c) =>
         AbsCall(c) = Told(c, "asked", None)
    /\ cl[c].pc = "close" => AbsCall(c) = Told(c, "done", cl[c].res)
    /\ Taken(c) => AbsCall(c) = Told(c, "done", srv.res)

\* The abstract call of a client follows from where the client is.
LEMMA CallOf == FileServerInv => CallsAreTold
<1> SUFFICES ASSUME FileServerInv, NEW c \in Client PROVE CallsAreTold!(c)
  BY DEF CallsAreTold
<1>1. Taken(c) => cl[c].pc \in {"sent", "wait"}
  BY DEF Taken, Serving
<1>2. cl[c].pc # "close" => cl[c].res = None
  BY DEF FileServerInv, CallInv
<1>3. cl[c].pc \in {"unborn", "idle"} => cl[c].req = NoReq
  BY DEF FileServerInv, CallInv
<1>4. CASE cl[c].pc \in {"unborn", "dead"}
  BY <1>1, <1>2, <1>3, <1>4 DEF AbsCall, Files!Gone, Files!Quiet, NoReq
<1>5. CASE cl[c].pc = "idle"
  BY <1>1, <1>2, <1>3, <1>5 DEF AbsCall, Files!Quiet, NoReq
<1>6. CASE cl[c].pc = "close"
  BY <1>1, <1>6 DEF AbsCall, Told
<1>7. CASE cl[c].pc \in {"seek", "send", "sent", "wait"} /\ ~Taken(c)
  BY <1>2, <1>7 DEF AbsCall, Told
<1>8. CASE Taken(c)
  BY <1>1, <1>8 DEF AbsCall, Told
<1>9. cl[c].pc \in {"unborn", "idle", "seek", "send", "sent", "wait", "close", "dead"}
  BY DEF FileServerInv, TypeOK, ClientState
<1> QED BY <1>1, <1>4, <1>5, <1>6, <1>7, <1>8, <1>9

\* The same after a step.
LEMMA CallOfNext == FileServerInv' => CallsAreTold'
BY CallOf, PTL

\* A Fd page on its way goes to the descriptor fd_alloc() found free.
LEMMA PendingType ==
    ASSUME FileServerInv, Pending
    PROVE  /\ srv.who \in Client /\ Request.fd \in FD /\ srv.pg \in Slot /\ srv.pc = "reply"
           /\ Request.op \in Opening /\ fds[srv.who][Request.fd] = None
<1>1. srv.pc = "reply" /\ srv.pg # None /\ Working /\ cl[srv.who].pc \in {"sent", "wait"}
  BY DEF Pending, Serving, Working
<1>2. srv.who \in Client /\ srv.pg \in Slot /\ Request.op \in Opening
  BY <1>1, RequestType DEF FileServerInv, TypeOK, ServerState, ServerInv
<1> QED BY <1>1, <1>2, RequestType DEF FileServerInv, CallInv, Asking, Request, OnFd, Opening

\* pageref() counts the abstract descriptors, but for one on its way.
HoldersAreCounted == \A s \in Slot :
    (\E c \in Client, f \in FD : AbsDesc[c][f] = s) <=> Shared(s) \/ (Pending /\ srv.pg = s)

\* A Fd page has as many abstract descriptors as mappings.
LEMMA Holders == FileServerInv => HoldersAreCounted
<1> SUFFICES ASSUME FileServerInv, NEW s \in Slot PROVE HoldersAreCounted!(s)
  BY DEF HoldersAreCounted
<1>1. CASE Pending
  <2>1. ASSUME NEW c \in Client, NEW f \in FD, fds[c][f] = s
        PROVE  AbsDesc[c][f] = s
    <3>1. ~(srv.who = c /\ Request.fd = f)
      BY <1>1, <2>1, PendingType, Constants
    <3> QED BY <2>1, <3>1 DEF AbsDesc
  <2>2. AbsDesc[srv.who][Request.fd] = srv.pg
    BY <1>1, PendingType DEF AbsDesc
  <2>3. ASSUME NEW c \in Client, NEW f \in FD, AbsDesc[c][f] = s
        PROVE  fds[c][f] = s \/ srv.pg = s
    BY <2>3 DEF AbsDesc
  <2> QED BY <1>1, <2>1, <2>2, <2>3, PendingType DEF Shared
<1>2. CASE ~Pending
  BY <1>2 DEF AbsDesc, Shared
<1> QED BY <1>1, <1>2

\* The same after a step.
LEMMA HoldersNext == FileServerInv' => HoldersAreCounted'
BY Holders, PTL

\* At first nothing is open.
LEMMA InitRefines == Init => Files!Init
<1> SUFFICES ASSUME Init PROVE Files!Init
  OBVIOUS
<1>1. FileServerInv /\ ~Pending /\ (\A c \in Client : ~Taken(c)) /\ (\A s \in Slot : ~Shared(s))
  <2>1. \A s \in Slot : ~Shared(s)
    BY Constants DEF Init, Shared
  <2> QED BY <2>1, InitInv DEF Init, Idle, Pending, Taken
<1>2. AbsDesc = [c \in Client |-> [f \in FD |-> None]]
  BY <1>1 DEF Init, AbsDesc
<1>3. AbsOpen = [s \in Slot |-> None]
  BY <1>1 DEF AbsOpen
<1>4. AbsCalls \in [Client -> {Files!Quiet, Files!Gone}]
  BY <1>1, CallOf DEF AbsCalls, CallsAreTold, Init
<1>5. size \in [Name -> 0..MaxSize]
  BY <1>1 DEF FileServerInv, TypeOK
<1> QED BY <1>2, <1>3, <1>4, <1>5 DEF Files!Init

-----------------------------------------------------------------------------
(* Steps of a client that is not being served. *)

\* The parts of the refinement mapping as functions of the state that changes.
OffOf(s, p)    == IF srv.pc = "advance" /\ Request.id[1] = s THEN Up(p[s].off) ELSE p[s].off
DescOf(f)      == [d \in Client |-> [g \in FD |->
                     IF Pending /\ srv.who = d /\ Request.fd = g THEN srv.pg ELSE f[d][g]]]
InUse(D, s)     == \E d \in Client, f \in FD : D[d][f] = s
OpenAt(D, p, s) == IF InUse(D, s) THEN [file |-> opentab[s].file, off |-> OffOf(s, p)] ELSE None

\* A step of a client changes the abstract state by its own call and descriptors.
LEMMA Unserved ==
    ASSUME FileServerInv, FileServerInv', NEW c \in Client, srv.who # c,
           \A d \in Client \ {c} : cl'[d] = cl[d], UNCHANGED <<srv, opentab, size>>
    PROVE  /\ \A d \in Client \ {c} : AbsCall(d)' = AbsCall(d)
           /\ ~Taken(c) /\ ~Taken(c)' /\ (Pending' <=> Pending)
           /\ Pending => srv.who # c
           /\ AbsDesc = DescOf(fds) /\ AbsDesc' = DescOf(fds')
           /\ AbsDesc[c] = fds[c]
           /\ \A s \in Slot : AbsOpen[s] = OpenAt(AbsDesc, page, s)
           /\ \A s \in Slot : AbsOpen'[s] = OpenAt(AbsDesc', page', s)
<1>1. srv.who # None => srv.who \in Client \ {c}
  BY DEF FileServerInv, TypeOK, ServerState
<1>2. Working => Request' = Request /\ cl'[srv.who] = cl[srv.who]
  BY <1>1 DEF Request, FileServerInv, ServerInv
<1>3. \A d \in Client : Serving(d)' = Serving(d)
  BY <1>1, <1>2 DEF Serving
<1>4. ~Taken(c) /\ ~Taken(c)'
  BY DEF Taken, Serving
<1>5. \A d \in Client \ {c} : Taken(d)' = Taken(d)
  BY <1>3 DEF Taken
<1>6. \A d \in Client \ {c} : AbsCall(d)' = AbsCall(d)
  BY <1>5 DEF AbsCall
<1>7. (Pending' <=> Pending) /\ (Pending => srv.who \in Client \ {c} /\ Request' = Request)
  <2>1. srv.pc = "reply" => srv.who \in Client \ {c} /\ Working
    BY <1>1 DEF FileServerInv, ServerInv, Working
  <2> QED BY <2>1, <1>2 DEF Pending, Serving
<1>8. AbsDesc = DescOf(fds) /\ AbsDesc' = DescOf(fds')
  BY <1>7 DEF AbsDesc, DescOf
<1>9. AbsDesc[c] = fds[c]
  <2>1. fds \in [Client -> [FD -> Slot \cup {None}]]
    BY DEF FileServerInv, TypeOK
  <2>2. AbsDesc[c] = [f \in FD |-> fds[c][f]]
    BY <1>7 DEF AbsDesc
  <2> QED BY <2>1, <2>2
<1>10. ASSUME NEW s \in Slot PROVE AbsOpen[s] = OpenAt(AbsDesc, page, s)
  BY Holders DEF HoldersAreCounted, InUse, OpenAt, AbsOpen, AbsOff, OffOf
<1>11. ASSUME NEW s \in Slot PROVE AbsOpen'[s] = OpenAt(AbsDesc', page', s)
  <2>1. AbsOff(s)' = OffOf(s, page')
    BY <1>2 DEF AbsOff, OffOf, Working
  <2>2. InUse(AbsDesc', s) <=> (Shared(s) \/ (Pending /\ srv.pg = s))'
    BY HoldersNext DEF HoldersAreCounted, InUse
  <2> QED BY <2>1, <2>2 DEF AbsOpen, OpenAt
<1> QED BY <1>1, <1>4, <1>6, <1>7, <1>8, <1>9, <1>10, <1>11

\* A step that changes one abstract call.
LEMMA SameCall ==
    ASSUME NEW c \in Client, \A d \in Client \ {c} : AbsCall(d)' = AbsCall(d)
    PROVE  AbsCalls' = [AbsCalls EXCEPT ![c] = AbsCall(c)']
BY DEF AbsCalls

\* AbsOpen is a function on the slots.
LEMMA OpenType == AbsOpen = [s \in Slot |-> AbsOpen[s]] /\ AbsOpen' = [s \in Slot |-> AbsOpen'[s]]
BY DEF AbsOpen

\* The start of open(), read(), write(), ftruncate(), close() or seek().
LEMMA AskRefines ==
    ASSUME FileServerInv, FileServerInv', NEW c \in Client, Open(c) \/ OnFile(c) \/ AskSeek(c)
    PROVE  Files!Next
<1>1. PICK r \in Reqs, p \in {"send", "seek"} : AskedFor(c, r, p)
  BY AskedIt
<1>2. /\ cl[c].pc = "idle" /\ srv.who # c /\ UNCHANGED <<srv, opentab, size, page, fds>>
      /\ \A d \in Client \ {c} : cl'[d] = cl[d]
      /\ cl'[c].pc = p /\ cl'[c].req = r
  BY SMTT(30), <1>1, NotServed DEF AskedFor, FileServerInv, TypeOK, ClientState
<1>3. /\ \A d \in Client \ {c} : AbsCall(d)' = AbsCall(d)
      /\ ~Taken(c)' /\ AbsDesc' = AbsDesc /\ AbsDesc[c] = fds[c]
      /\ \A s \in Slot : AbsOpen'[s] = AbsOpen[s]
  <2>1. /\ \A d \in Client \ {c} : AbsCall(d)' = AbsCall(d)
        /\ ~Taken(c)' /\ AbsDesc = DescOf(fds) /\ AbsDesc' = DescOf(fds') /\ AbsDesc[c] = fds[c]
    BY <1>2, Unserved
  <2>2. AbsDesc' = AbsDesc
    BY <1>2, <2>1
  <2>3. ASSUME NEW s \in Slot PROVE AbsOpen'[s] = AbsOpen[s]
    <3>1. OffOf(s, page') = OffOf(s, page)
      BY <1>2
    <3>2. AbsOpen[s] = OpenAt(AbsDesc, page, s) /\ AbsOpen'[s] = OpenAt(AbsDesc', page', s)
      BY <1>2, Unserved
    <3> QED BY <2>2, <3>1, <3>2 DEF OpenAt
  <2> QED BY <2>1, <2>2, <2>3
<1>4. AbsCall(c) = Files!Quiet /\ AbsCall(c)' = Told(c, "asked", None)'
  BY <1>2, <1>3, CallOf, CallOfNext DEF CallsAreTold
<1>5. /\ r.op \in Opening \cup OnFd \cup {"seek"} /\ r.fd \in FD
      /\ r.arg \in Name \cup {None} \cup 0..MaxSize
      /\ r.op \in Opening <=> fds[c][r.fd] = None
  BY <1>1, Constants DEF AskedFor, Reqs, NoReq, OnFd, Opening
<1>6. Files!Ask(c)
  <2> DEFINE k == AbsCalls'[c]
  <2>1. k = [st |-> "asked", op |-> r.op, fd |-> r.fd, arg |-> r.arg, res |-> None]
    BY <1>2, <1>4 DEF AbsCalls, Told
  <2>2. /\ k.st = "asked" /\ k.res = None
        /\ k.op \in {"open", "create", "read", "write", "trunc", "close", "seek"}
        /\ k.fd \in FD /\ k.arg \in Name \cup {None} \cup 0..MaxSize
        /\ (k.op \in {"open", "create"}) <=> (AbsDesc[c][k.fd] = None)
    BY <2>1, <1>3, <1>5 DEF Opening, OnFd
  <2>3. AbsCalls' = [AbsCalls EXCEPT ![c] = k]
    BY <1>3, SameCall DEF AbsCalls
  <2>4. AbsOpen' = AbsOpen
    BY <1>3, OpenType
  <2> QED BY <2>2, <2>3, <2>4, <1>2, <1>3 DEF Files!Ask
<1> QED BY <1>4, <1>6 DEF Files!Next, AbsCalls

\* seek() sets the position that all who share the descriptor see.
LEMMA SeekRefines ==
    ASSUME FileServerInv, FileServerInv', "seek_race" \notin Misuse, NEW c \in Client, Seek(c)
    PROVE  Files!Next
<1> DEFINE s == fds[c][cl[c].req.fd]
           x == cl[c].req.arg
<1>1. /\ cl[c].pc = "seek" /\ srv.who # c /\ UNCHANGED <<srv, opentab, size, fds>>
      /\ \A d \in Client \ {c} : cl'[d] = cl[d]
      /\ cl'[c].pc = "idle" /\ (srv.pc = "advance" => Request.id[1] # s)
      /\ page' = [page EXCEPT ![s].off = x]
  BY NotServed DEF Seek, Fresh, FileServerInv, TypeOK
<1>2. cl[c].req.fd \in FD /\ s \in Slot
  <2>1. cl[c].req \in Reqs /\ cl[c].req.op = "seek" /\ s # None
    BY <1>1 DEF FileServerInv, TypeOK, ClientState, CallInv
  <2>2. cl[c].req.fd \in FD
    BY <2>1, Constants DEF Reqs, NoReq, OnFd, Opening
  <2> QED BY <2>1, <2>2 DEF FileServerInv, TypeOK
<1>3. /\ \A d \in Client \ {c} : AbsCall(d)' = AbsCall(d)
      /\ ~Taken(c) /\ AbsDesc' = AbsDesc /\ AbsDesc[c] = fds[c]
      /\ \A t \in Slot :
           /\ AbsOpen[t] = OpenAt(AbsDesc, page, t)
           /\ AbsOpen'[t] = OpenAt(AbsDesc, page', t)
  <2>1. /\ \A d \in Client \ {c} : AbsCall(d)' = AbsCall(d)
        /\ ~Taken(c) /\ AbsDesc = DescOf(fds) /\ AbsDesc' = DescOf(fds') /\ AbsDesc[c] = fds[c]
    BY <1>1, Unserved
  <2>2. AbsDesc' = AbsDesc
    BY <1>1, <2>1
  <2>3. \A t \in Slot : /\ AbsOpen[t] = OpenAt(AbsDesc, page, t)
                       /\ AbsOpen'[t] = OpenAt(AbsDesc', page', t)
    BY <1>1, Unserved
  <2> QED BY <2>1, <2>2, <2>3
<1>4. AbsCall(c)' = Files!Quiet /\ AbsCall(c) = Told(c, "asked", None)
  BY <1>1, <1>3, CallOf, CallOfNext DEF CallsAreTold
<1>5. AbsOpen' = [AbsOpen EXCEPT ![s].off = x]
  <2>1. page \in [Slot -> [id : FileId, off : 0..MaxSize]]
    BY DEF FileServerInv, TypeOK
  <2>2. OffOf(s, page') = x
    BY <1>1, <1>2, <2>1 DEF OffOf
  <2>3. \A t \in Slot \ {s} : OffOf(t, page') = OffOf(t, page)
    BY <1>1, <1>2, <2>1 DEF OffOf
  <2>4. AbsOpen[s] = [file |-> opentab[s].file, off |-> OffOf(s, page)]
    <3>1. InUse(AbsDesc, s)
      BY <1>2, <1>3 DEF InUse
    <3> QED BY <3>1, <1>2, <1>3 DEF OpenAt
  <2>5. AbsOpen'[s] = [file |-> opentab[s].file, off |-> x]
    <3>1. InUse(AbsDesc, s)
      BY <1>2, <1>3 DEF InUse
    <3> QED BY <3>1, <1>2, <1>3, <2>2 DEF OpenAt
  <2>6. \A t \in Slot \ {s} : AbsOpen'[t] = AbsOpen[t]
    <3> SUFFICES ASSUME NEW t \in Slot \ {s} PROVE AbsOpen'[t] = AbsOpen[t]
      OBVIOUS
    <3>1. OffOf(t, page') = OffOf(t, page)
      BY <2>3
    <3> QED BY <1>3, <3>1 DEF OpenAt
  <2>7. [AbsOpen[s] EXCEPT !.off = x] = [file |-> opentab[s].file, off |-> x]
    <3> DEFINE o == AbsOpen[s]
               g == opentab[s].file
               y == OffOf(s, page)
    <3>1. o = [file |-> g, off |-> y]
      BY <2>4
    <3> HIDE DEF o, g, y, x
    <3>2. [o EXCEPT !.off = x] = [file |-> g, off |-> x]
      BY <3>1
    <3> QED BY <3>2 DEF o, g, y, x
  <2>8. AbsOpen' = [AbsOpen EXCEPT ![s] = [AbsOpen[s] EXCEPT !.off = x]]
    <3> HIDE DEF s, x
    <3> QED BY <2>5, <2>6, <2>7, <1>2, OpenType
  <2> QED BY <2>8
<1>6. Files!Seek(c)
  <2>1. AbsCalls[c].op = "seek" /\ AbsCalls[c].fd = cl[c].req.fd /\ AbsCalls[c].arg = x
    <3>1. AbsCalls[c] = Told(c, "asked", None)
      BY <1>4 DEF AbsCalls
    <3>2. cl[c].req.op = "seek"
      BY <1>1 DEF FileServerInv, CallInv
    <3> QED BY <3>1, <3>2 DEF Told
  <2>2. AbsCalls' = [AbsCalls EXCEPT ![c] = Files!Quiet]
    BY <1>3, <1>4, SameCall
  <2> QED BY <2>1, <2>2, <1>1, <1>3, <1>5 DEF Files!Seek, Files!Asked
<1>7. AbsCalls[c].st = "asked"
  BY <1>4 DEF AbsCalls, Told
<1> QED BY <1>6, <1>7 DEF Files!Next

\* Descriptors are taken away: files nobody has open any more are closed.
LEMMA Released ==
    ASSUME \A s \in Slot : AbsOpen[s] = OpenAt(AbsDesc, page, s),
           \A s \in Slot : AbsOpen'[s] = OpenAt(AbsDesc', page', s),
           page' = page, \A s \in Slot : InUse(AbsDesc', s) => InUse(AbsDesc, s)
    PROVE  Files!Release
<1>1. ASSUME NEW s \in Slot
      PROVE  AbsOpen'[s] = IF InUse(AbsDesc', s) THEN AbsOpen[s] ELSE None
  BY DEF OpenAt
<1>2. AbsOpen' = [s \in Slot |-> IF InUse(AbsDesc', s) THEN AbsOpen[s] ELSE None]
  BY <1>1, OpenType
<1> QED BY <1>2 DEF Files!Release, InUse

\* Descriptors are copied: no file is opened or closed.
LEMMA Kept ==
    ASSUME \A s \in Slot : AbsOpen[s] = OpenAt(AbsDesc, page, s),
           \A s \in Slot : AbsOpen'[s] = OpenAt(AbsDesc', page', s),
           page' = page, \A s \in Slot : InUse(AbsDesc', s) <=> InUse(AbsDesc, s)
    PROVE  AbsOpen' = AbsOpen
<1>1. ASSUME NEW s \in Slot PROVE AbsOpen'[s] = AbsOpen[s]
  BY DEF OpenAt
<1> QED BY <1>1, OpenType

\* One descriptor changes.
LEMMA OneDesc ==
    ASSUME FileServerInv, NEW c \in Client, NEW fd \in FD, NEW x, Pending => srv.who # c,
           fds' = [fds EXCEPT ![c][fd] = x]
    PROVE  DescOf(fds') = [DescOf(fds) EXCEPT ![c][fd] = x]
<1>1. fds \in [Client -> [FD -> Slot \cup {None}]]
  BY DEF FileServerInv, TypeOK
<1>2. DescOf(fds)[c] = [g \in FD |-> fds[c][g]]
  BY DEF DescOf
<1>3. DescOf(fds')[c] = [g \in FD |-> IF g = fd THEN x ELSE fds[c][g]]
  BY <1>1 DEF DescOf
<1>4. DescOf(fds')[c] = [DescOf(fds)[c] EXCEPT ![fd] = x]
  BY <1>2, <1>3
<1>5. ASSUME NEW d \in Client \ {c} PROVE DescOf(fds')[d] = DescOf(fds)[d]
  BY <1>1 DEF DescOf
<1> QED BY <1>4, <1>5 DEF DescOf

\* fd_close() ends the call to close().
LEMMA CloseRefines ==
    ASSUME FileServerInv, FileServerInv', NEW c \in Client, Close(c)
    PROVE  Files!Next
<1> DEFINE fd == cl[c].req.fd
<1>1. /\ cl[c].pc = "close" /\ srv.who # c /\ UNCHANGED <<srv, opentab, size, page>>
      /\ \A d \in Client \ {c} : cl'[d] = cl[d]
      /\ cl'[c].pc = "idle" /\ fds' = [fds EXCEPT ![c][fd] = None]
      /\ cl[c].req.op = "close"
  BY NotServed DEF Close, Fresh, FileServerInv, TypeOK, CallInv
<1>2. /\ \A d \in Client \ {c} : AbsCall(d)' = AbsCall(d)
      /\ AbsDesc = DescOf(fds) /\ AbsDesc' = DescOf(fds') /\ (Pending => srv.who # c)
      /\ \A s \in Slot : AbsOpen[s] = OpenAt(AbsDesc, page, s)
      /\ \A s \in Slot : AbsOpen'[s] = OpenAt(AbsDesc', page', s)
  BY <1>1, Unserved
<1>3. AbsDesc' = [AbsDesc EXCEPT ![c][fd] = None]
  <2>1. cl[c].req \in Reqs
    BY DEF FileServerInv, TypeOK, ClientState
  <2>2. fd \in FD
    BY <1>1, <2>1, Constants DEF Reqs, NoReq, OnFd, Opening
  <2> QED BY <1>1, <1>2, <2>2, OneDesc
<1>4. \A s \in Slot : InUse(AbsDesc', s) => InUse(AbsDesc, s)
  <2>1. ASSUME NEW s \in Slot, NEW d \in Client, NEW f \in FD, AbsDesc'[d][f] = s
        PROVE  AbsDesc[d][f] = s
    <3>1. ~(d = c /\ f = fd)
      BY <2>1, <1>2, <1>3, Constants DEF DescOf
    <3>2. fds'[d][f] = fds[d][f]
      <4>1. fds \in [Client -> [FD -> Slot \cup {None}]]
        BY DEF FileServerInv, TypeOK
      <4> HIDE DEF fd
      <4> QED BY <3>1, <4>1, <1>1
    <3>3. DescOf(fds')[d][f] = DescOf(fds)[d][f]
      BY <3>2 DEF DescOf
    <3> QED BY <2>1, <3>3, <1>2
  <2> QED BY <2>1 DEF InUse
<1>5. AbsCall(c)' = Files!Quiet /\ AbsCall(c) = Told(c, "done", cl[c].res)
  BY <1>1, CallOf, CallOfNext DEF CallsAreTold
<1>6. AbsCalls[c].st = "done" /\ AbsCalls[c].op = "close" /\ AbsCalls[c].fd = fd
  BY <1>1, <1>5 DEF AbsCalls, Told
<1>7. AbsCalls' = [AbsCalls EXCEPT ![c] = Files!Quiet]
  BY <1>2, <1>5, SameCall
<1>8. Files!Release
  BY <1>1, <1>2, <1>4, Released
<1> QED BY <1>1, <1>3, <1>6, <1>7, <1>8 DEF Files!Next, Files!Return

\* dup() makes a second descriptor for one open file.
LEMMA DupRefines ==
    ASSUME FileServerInv, FileServerInv', NEW c \in Client, Dup(c)
    PROVE  Files!Next
<1>1. /\ cl[c].pc = "idle" /\ srv.who # c /\ UNCHANGED <<cl, srv, opentab, size, page>>
      /\ \A d \in Client \ {c} : cl'[d] = cl[d]
  BY NotServed DEF Dup
<1>2. PICK f \in FD, g \in FD : fds[c][g] = None /\ fds' = [fds EXCEPT ![c][g] = fds[c][f]]
  BY DEF Dup
<1>3. /\ \A d \in Client \ {c} : AbsCall(d)' = AbsCall(d)
      /\ AbsDesc = DescOf(fds) /\ AbsDesc' = DescOf(fds') /\ (Pending => srv.who # c)
      /\ AbsDesc[c] = fds[c]
      /\ \A s \in Slot : AbsOpen[s] = OpenAt(AbsDesc, page, s)
      /\ \A s \in Slot : AbsOpen'[s] = OpenAt(AbsDesc', page', s)
  BY <1>1, Unserved
<1>4. AbsDesc' = [AbsDesc EXCEPT ![c][g] = AbsDesc[c][f]] /\ AbsDesc[c][g] = None
  <2>1. AbsDesc[c][f] = fds[c][f] /\ AbsDesc[c][g] = None
    BY <1>2, <1>3
  <2> DEFINE x == fds[c][f]
  <2>2. fds' = [fds EXCEPT ![c][g] = x]
    BY <1>2
  <2> HIDE DEF x
  <2>3. DescOf(fds') = [DescOf(fds) EXCEPT ![c][g] = x]
    BY <1>3, <2>2, OneDesc
  <2> QED BY <1>3, <2>1, <2>3 DEF x
<1>5. \A s \in Slot : InUse(AbsDesc', s) <=> InUse(AbsDesc, s)
  <2>1. ASSUME NEW s \in Slot, NEW d \in Client, NEW h \in FD, AbsDesc'[d][h] = s
        PROVE  AbsDesc[d][h] = s \/ AbsDesc[c][f] = s
    BY <2>1, <1>3, <1>4 DEF DescOf
  <2>2. ASSUME NEW s \in Slot, NEW d \in Client, NEW h \in FD, AbsDesc[d][h] = s
        PROVE  AbsDesc'[d][h] = s
    <3>1. ~(d = c /\ h = g)
      BY <2>2, <1>4, Constants
    <3> QED BY <2>2, <3>1, <1>3, <1>4 DEF DescOf
  <2> QED BY <2>1, <2>2 DEF InUse
<1>6. AbsCall(c) = Files!Quiet /\ AbsCall(c)' = Files!Quiet
  BY <1>1, CallOf, CallOfNext DEF CallsAreTold
<1>7. AbsCalls' = AbsCalls /\ AbsCalls[c] = Files!Quiet
  BY <1>3, <1>6 DEF AbsCalls
<1>8. AbsOpen' = AbsOpen
  BY <1>1, <1>3, <1>5, Kept
<1> QED BY <1>1, <1>4, <1>7, <1>8 DEF Files!Next, Files!Dup

\* fork() gives the child the parent's descriptors (PTE_SHARE).
LEMMA ForkRefines ==
    ASSUME FileServerInv, FileServerInv', NEW c \in Client, NEW child \in Client, Fork(c, child)
    PROVE  Files!Next
<1>1. /\ cl[c].pc = "idle" /\ srv.who # c /\ UNCHANGED <<srv, opentab, size, page>>
      /\ cl[child].pc = "unborn" /\ srv.who # child /\ cl'[child].pc = "idle"
      /\ \A d \in Client \ {child} : cl'[d] = cl[d]
      /\ fds' = [fds EXCEPT ![child] = fds[c]]
  BY NotServed DEF Fork, Fresh, FileServerInv, TypeOK
<1>2. /\ \A d \in Client \ {child} : AbsCall(d)' = AbsCall(d)
      /\ AbsDesc = DescOf(fds) /\ AbsDesc' = DescOf(fds') /\ (Pending => srv.who # child)
      /\ \A s \in Slot : AbsOpen[s] = OpenAt(AbsDesc, page, s)
      /\ \A s \in Slot : AbsOpen'[s] = OpenAt(AbsDesc', page', s)
      /\ AbsDesc[child] = fds[child]
  BY <1>1, Unserved
<1>3. AbsDesc[c] = fds[c]
  <2>1. fds[c] = [g \in FD |-> fds[c][g]]
    BY DEF FileServerInv, TypeOK
  <2>2. ~(Pending /\ srv.who = c)
    BY <1>1
  <2> QED BY <1>2, <2>1, <2>2 DEF DescOf
<1>4. AbsDesc' = [AbsDesc EXCEPT ![child] = AbsDesc[c]]
  <2>1. fds \in [Client -> [FD -> Slot \cup {None}]]
    BY DEF FileServerInv, TypeOK
  <2>2. DescOf(fds')[child] = fds[c]
    BY <1>1, <1>2, <2>1 DEF DescOf
  <2>3. \A d \in Client \ {child} : DescOf(fds')[d] = DescOf(fds)[d]
    BY <1>1, <2>1 DEF DescOf
  <2> QED BY <1>2, <1>3, <2>2, <2>3 DEF DescOf
<1>5. \A s \in Slot : InUse(AbsDesc', s) <=> InUse(AbsDesc, s)
  <2>1. \A f \in FD : AbsDesc[child][f] = None
    BY <1>1, <1>2 DEF FileServerInv, CallInv
  <2>2. ASSUME NEW s \in Slot, NEW d \in Client, NEW h \in FD, AbsDesc'[d][h] = s
        PROVE  AbsDesc[d][h] = s \/ AbsDesc[c][h] = s
    BY <2>2, <1>2, <1>4 DEF DescOf
  <2>3. ASSUME NEW s \in Slot, NEW d \in Client, NEW h \in FD, AbsDesc[d][h] = s
        PROVE  AbsDesc'[d][h] = s
    <3>1. d # child
      BY <2>1, <2>3, Constants
    <3> QED BY <2>3, <3>1, <1>2, <1>4 DEF DescOf
  <2> QED BY <2>2, <2>3 DEF InUse
<1>6. AbsCall(c) = Files!Quiet /\ AbsCall(child) = Files!Gone /\ AbsCall(child)' = Files!Quiet
  BY <1>1, CallOf, CallOfNext DEF CallsAreTold
<1>7. /\ AbsCalls' = [AbsCalls EXCEPT ![child] = Files!Quiet]
      /\ AbsCalls[c] = Files!Quiet /\ AbsCalls[child] = Files!Gone
  BY <1>2, <1>6, SameCall DEF AbsCalls
<1>8. AbsOpen' = AbsOpen
  BY <1>1, <1>2, <1>5, Kept
<1> QED BY <1>1, <1>4, <1>7, <1>8 DEF Files!Next, Files!Fork

\* env_free() closes what the client had open.
LEMMA KillRefines ==
    ASSUME FileServerInv, FileServerInv', "kill_waiting" \notin Misuse, NEW c \in Client, Kill(c)
    PROVE  Files!Next
<1>1. /\ srv.who # c /\ UNCHANGED <<srv, opentab, size, page>>
      /\ \A d \in Client \ {c} : cl'[d] = cl[d]
      /\ cl'[c].pc = "dead" /\ fds' = [fds EXCEPT ![c] = [f \in FD |-> None]]
  BY DEF Kill, FileServerInv, TypeOK, ClientState
<1>2. /\ \A d \in Client \ {c} : AbsCall(d)' = AbsCall(d)
      /\ AbsDesc = DescOf(fds) /\ AbsDesc' = DescOf(fds') /\ (Pending => srv.who # c)
      /\ \A s \in Slot : AbsOpen[s] = OpenAt(AbsDesc, page, s)
      /\ \A s \in Slot : AbsOpen'[s] = OpenAt(AbsDesc', page', s)
  BY <1>1, Unserved
<1>3. AbsDesc' = [AbsDesc EXCEPT ![c] = [f \in FD |-> None]]
  <2>1. fds \in [Client -> [FD -> Slot \cup {None}]]
    BY DEF FileServerInv, TypeOK
  <2>2. DescOf(fds')[c] = [f \in FD |-> None]
    BY <1>1, <1>2, <2>1 DEF DescOf
  <2>3. \A d \in Client \ {c} : DescOf(fds')[d] = DescOf(fds)[d]
    BY <1>1, <2>1 DEF DescOf
  <2> QED BY <1>2, <2>2, <2>3 DEF DescOf
<1>4. \A s \in Slot : InUse(AbsDesc', s) => InUse(AbsDesc, s)
  <2>1. ASSUME NEW s \in Slot, NEW d \in Client, NEW f \in FD, AbsDesc'[d][f] = s
        PROVE  AbsDesc[d][f] = s
    <3>1. d # c
      BY <2>1, <1>2, <1>3, Constants DEF DescOf
    <3> QED BY <2>1, <3>1, <1>2, <1>3 DEF DescOf
  <2> QED BY <2>1 DEF InUse
<1>5. AbsCall(c)' = Files!Gone
  BY <1>1, CallOf, CallOfNext DEF CallsAreTold
<1>6. AbsCalls' = [AbsCalls EXCEPT ![c] = Files!Gone]
  BY <1>2, <1>5, SameCall
<1>7. Files!Release
  BY <1>1, <1>2, <1>4, Released
<1> QED BY <1>1, <1>3, <1>6, <1>7 DEF Files!Next, Files!Exit

-----------------------------------------------------------------------------
(* Steps that involve the server.  The client it works for is there. *)

\* The server's client waits for it.
Attended == Working => cl[srv.who].pc \in {"sent", "wait"}

\* Nobody is destroyed while served, and only Reply lets a client go on.
LEMMA AttendedInv ==
    ASSUME FileServerInv, Attended, "kill_waiting" \notin Misuse, [Next]_vars
    PROVE  Attended'
<1>1. Working => srv.who \in Client
  BY RequestType
<1>2. cl \in [Client -> ClientState]
  BY DEF FileServerInv, TypeOK
<1>3. CASE Server
  <2>1. CASE Busy \/ Full \/ (\E s \in Slot : ServeOpen(s)) \/ Handle \/ Advance
    <3>1. /\ Working /\ UNCHANGED cl
      BY <2>1 DEF Busy, Full, ServeOpen, Handle, Advance, Working
    <3>2. srv \in ServerState
      BY DEF FileServerInv, TypeOK
    <3>3. srv'.who = srv.who
      BY <2>1, <3>2 DEF Busy, Full, ServeOpen, Handle, Advance, Answer, Moved, ServerState,
                        ServeRead, ServeWrite, ServeSetSize, ServeFlush
    <3> QED BY <3>1, <3>3 DEF Attended, Working
  <2>2. CASE Reply \/ Again
    BY <2>2 DEF Reply, Again, Idle, Attended, Working
  <2> QED BY <1>3, <2>1, <2>2 DEF Server
<1>4. ASSUME NEW c \in Client, Send(c) PROVE Attended'
  <2>1. cl'[c].pc = "sent" /\ srv'.who = c
    BY <1>2, <1>4 DEF Send, Idle
  <2> QED BY <2>1 DEF Attended
<1>5. ASSUME NEW c \in Client, Await(c) PROVE Attended'
  BY <1>1, <1>2, <1>5 DEF Await, Attended, Working
<1>6. ASSUME NEW c \in Client,
             \/ Open(c) \/ OnFile(c) \/ AskSeek(c) \/ Close(c)
             \/ Seek(c) \/ Dup(c) \/ Kill(c) \/ \E child \in Client : Fork(c, child)
      PROVE  Attended'
  <2>1. srv' = srv
    BY <1>6 DEF Open, OnFile, Ask, AskSeek, Close, Seek, Dup, Kill, Fork
  <2>2. CASE Open(c) \/ OnFile(c) \/ AskSeek(c)
    <3>1. cl[c].pc = "idle" /\ \A d \in Client \ {c} : cl'[d] = cl[d]
      BY <2>2, <1>2 DEF Open, OnFile, Ask, AskSeek
    <3> QED BY <1>1, <2>1, <3>1 DEF Attended, Working
  <2>3. CASE Close(c) \/ Seek(c)
    <3>1. cl[c].pc \in {"close", "seek"} /\ \A d \in Client \ {c} : cl'[d] = cl[d]
      BY <2>3, <1>2 DEF Close, Seek, Fresh
    <3> QED BY <1>1, <2>1, <3>1 DEF Attended, Working
  <2>4. CASE Dup(c)
    BY <2>1, <2>4 DEF Dup, Attended, Working
  <2>5. CASE Kill(c)
    <3>1. srv.who # c /\ \A d \in Client \ {c} : cl'[d] = cl[d]
      BY <2>5, <1>2 DEF Kill
    <3> QED BY <1>1, <2>1, <3>1 DEF Attended, Working
  <2>6. ASSUME NEW child \in Client, Fork(c, child) PROVE Attended'
    <3>1. cl[child].pc = "unborn" /\ \A d \in Client \ {child} : cl'[d] = cl[d]
      BY <2>6, <1>2 DEF Fork, Fresh
    <3> QED BY <1>1, <2>1, <3>1 DEF Attended, Working
  <2> QED BY <1>6, <2>2, <2>3, <2>4, <2>5, <2>6
<1>7. CASE UNCHANGED vars
  BY <1>7 DEF vars, Attended, Working
<1> QED BY <1>3, <1>4, <1>5, <1>6, <1>7 DEF Next

\* The open files are the slots that a descriptor stands for.
LEMMA OpenNow ==
    ASSUME FileServerInv, NEW s \in Slot
    PROVE  AbsOpen[s] = IF InUse(AbsDesc, s)
                          THEN [file |-> opentab[s].file, off |-> AbsOff(s)] ELSE None
BY Holders DEF HoldersAreCounted, InUse, AbsOpen

\* The same after a step.
LEMMA OpenNext ==
    ASSUME FileServerInv', NEW s \in Slot
    PROVE  AbsOpen'[s] = IF InUse(AbsDesc', s)
                           THEN [file |-> opentab'[s].file, off |-> AbsOff(s)'] ELSE None
<1>1. InUse(AbsDesc', s) <=> (Shared(s) \/ (Pending /\ srv.pg = s))'
  BY HoldersNext DEF HoldersAreCounted, InUse
<1> QED BY <1>1 DEF AbsOpen

\* Records with one field set; the provers need each field on its own.
LEMMA SetStatus ==
    ASSUME NEW op, NEW fd, NEW arg, NEW res, NEW st, NEW done
    PROVE  [[st |-> st, op |-> op, fd |-> fd, arg |-> arg, res |-> res] EXCEPT !.st = done]
             = [st |-> done, op |-> op, fd |-> fd, arg |-> arg, res |-> res]
OBVIOUS

\* The same for the result.
LEMMA SetResult ==
    ASSUME NEW op, NEW fd, NEW arg, NEW res, NEW st, NEW r
    PROVE  [[st |-> st, op |-> op, fd |-> fd, arg |-> arg, res |-> res] EXCEPT !.res = r]
             = [st |-> st, op |-> op, fd |-> fd, arg |-> arg, res |-> r]
OBVIOUS

\* Both, one after the other.
LEMMA SetBoth ==
    ASSUME NEW k, NEW st, NEW r
    PROVE  [k EXCEPT !.st = st, !.res = r] = [[k EXCEPT !.st = st] EXCEPT !.res = r]
OBVIOUS

\* A step of the server changes the call of the client it works for.
LEMMA Serviced ==
    ASSUME FileServerInv, Attended, Working, srv'.who = srv.who, UNCHANGED cl
    PROVE  /\ srv.who \in Client /\ cl[srv.who].pc \in {"sent", "wait"} /\ Request' = Request
           /\ \A d \in Client \ {srv.who} : AbsCall(d)' = AbsCall(d)
           /\ Taken(srv.who) <=> srv.pc \in {"advance", "reply"}
           /\ Taken(srv.who)' <=> srv'.pc \in {"advance", "reply"}
           /\ Pending <=> srv.pc = "reply" /\ srv.pg # None
           /\ Pending' <=> srv'.pc = "reply" /\ srv'.pg # None
<1>1. srv.who \in Client /\ cl[srv.who].pc \in {"sent", "wait"}
  BY RequestType DEF Attended
<1>2. Request' = Request
  BY DEF Request
<1>3. Serving(srv.who) /\ Serving(srv.who)'
  BY <1>1 DEF Serving
<1>4. \A d \in Client \ {srv.who} : ~Taken(d) /\ ~Taken(d)'
  BY DEF Taken, Serving
<1>5. \A d \in Client \ {srv.who} : AbsCall(d)' = AbsCall(d)
  BY <1>4 DEF AbsCall
<1> QED BY <1>1, <1>2, <1>3, <1>5 DEF Taken, Pending

\* The moment at which a call takes effect.
LEMMA Effect ==
    ASSUME FileServerInv, FileServerInv', Attended, srv.pc \in {"scan", "serve"},
           srv'.who = srv.who, srv'.pc \in {"advance", "reply"}, UNCHANGED <<cl, fds>>
    PROVE  /\ srv.who \in Client /\ cl[srv.who].pc \in {"sent", "wait"} /\ Request' = Request
           /\ AbsCalls[srv.who] = Told(srv.who, "asked", None) /\ Request = cl[srv.who].req
           /\ Files!Done(srv.who, srv'.res)
           /\ AbsDesc = fds
           /\ srv'.pg = None => AbsDesc' = fds
<1> DEFINE c == srv.who
<1>1. /\ c \in Client /\ cl[c].pc \in {"sent", "wait"} /\ Request' = Request
      /\ \A d \in Client \ {c} : AbsCall(d)' = AbsCall(d)
      /\ ~Taken(c) /\ Taken(c)' /\ ~Pending
      /\ srv'.pg = None => ~Pending'
  BY Serviced DEF Working
<1>2. AbsCall(c) = Told(c, "asked", None) /\ AbsCall(c)' = Told(c, "done", srv.res)'
  BY <1>1, CallOf, CallOfNext DEF CallsAreTold
<1>3. AbsCalls[c] = Told(c, "asked", None) /\ Request = cl[c].req
  BY <1>1, <1>2 DEF AbsCalls, Request
<1>4. AbsCall(c)' = [AbsCalls[c] EXCEPT !.st = "done", !.res = srv'.res]
  <2>1. AbsCall(c)' = [st |-> "done", op |-> cl[c].req.op, fd |-> cl[c].req.fd,
                       arg |-> cl[c].req.arg, res |-> srv'.res]
    BY <1>2 DEF Told
  <2>2. AbsCalls[c] = [st |-> "asked", op |-> cl[c].req.op, fd |-> cl[c].req.fd,
                       arg |-> cl[c].req.arg, res |-> None]
    BY <1>3 DEF Told
  <2>3. [AbsCalls[c] EXCEPT !.st = "done"]
          = [st |-> "done", op |-> cl[c].req.op, fd |-> cl[c].req.fd,
             arg |-> cl[c].req.arg, res |-> None]
    BY <2>2, SetStatus
  <2>4. [[st |-> "done", op |-> cl[c].req.op, fd |-> cl[c].req.fd,
          arg |-> cl[c].req.arg, res |-> None] EXCEPT !.res = srv'.res]
          = [st |-> "done", op |-> cl[c].req.op, fd |-> cl[c].req.fd,
             arg |-> cl[c].req.arg, res |-> srv'.res]
    BY SetResult
  <2> QED BY <2>1, <2>3, <2>4, SetBoth
<1>5. Files!Done(c, srv'.res)
  <2>1. AbsCalls' = [AbsCalls EXCEPT ![c] = [AbsCalls[c] EXCEPT !.st = "done", !.res = srv'.res]]
    BY <1>1, <1>4, SameCall
  <2> QED BY <1>1, <2>1 DEF Files!Done, AbsCalls
<1>6. fds = [d \in Client |-> [f \in FD |-> fds[d][f]]]
  <2>1. fds \in [Client -> [FD -> Slot \cup {None}]]
    BY DEF FileServerInv, TypeOK
  <2> QED BY <2>1
<1>7. AbsDesc = fds
  BY <1>1, <1>6 DEF AbsDesc
<1>8. srv'.pg = None => AbsDesc' = fds
  BY <1>1, <1>6 DEF AbsDesc
<1> QED BY <1>1, <1>3, <1>5, <1>7, <1>8

\* openfile_alloc() finds no slot: open() fails.
LEMMA FullRefines ==
    ASSUME FileServerInv, FileServerInv', Attended, Full
    PROVE  Files!Next
<1> DEFINE c == srv.who
<1>1. /\ srv.pc = "scan" /\ srv'.who = c
      /\ srv'.pc = "reply" /\ srv'.res = "error" /\ srv'.pg = None
      /\ UNCHANGED <<cl, fds, page, opentab, size>> /\ Request.op \in Opening
  BY DEF Full, Answer, FileServerInv, TypeOK, ServerState, ServerInv
<1>2. /\ c \in Client /\ AbsCalls[c] = Told(c, "asked", None) /\ Request = cl[c].req
      /\ Files!Done(c, "error") /\ AbsDesc' = AbsDesc
  BY <1>1, Effect
<1>3. AbsOpen' = AbsOpen
  <2>1. ASSUME NEW s \in Slot PROVE AbsOpen'[s] = AbsOpen[s]
    <3>1. AbsOff(s) = page[s].off /\ AbsOff(s)' = page[s].off
      BY <1>1 DEF AbsOff
    <3>2. opentab'[s] = opentab[s] /\ AbsDesc' = AbsDesc
      BY <1>1, <1>2
    <3> QED BY <3>1, <3>2, OpenNow, OpenNext
  <2> QED BY <2>1, OpenType
<1>4. AbsCalls[c].st = "asked" /\ AbsCalls[c].op \in {"open", "create"}
  BY <1>1, <1>2 DEF Told, Opening
<1>5. Files!Fail(c)
  BY <1>1, <1>2, <1>3, <1>4 DEF Files!Fail, Files!Asked
<1> QED BY <1>2, <1>4, <1>5 DEF Files!Next

\* serve_open(): the file is open from the moment its slot is filled in.
LEMMA ServeOpenRefines ==
    ASSUME FileServerInv, FileServerInv', Attended, NEW s \in Slot, ServeOpen(s)
    PROVE  Files!Next
<1> DEFINE c == srv.who
<1>1. /\ srv.pc = "scan" /\ ~Shared(s) /\ UNCHANGED <<cl, fds>> /\ Request.op \in Opening
      /\ srv'.who = c /\ srv'.pc = "reply"
  BY ZenonT(60) DEF ServeOpen, Answer, FileServerInv, TypeOK, ServerState, ServerInv
<1>2. /\ c \in Client /\ AbsCalls[c] = Told(c, "asked", None) /\ Request = cl[c].req
      /\ Files!Done(c, srv'.res) /\ AbsDesc = fds
      /\ srv'.pg = None => AbsDesc' = fds
      /\ Request' = Request
  BY <1>1, Effect
<1>3. /\ AbsCalls[c].st = "asked" /\ AbsCalls[c].op = Request.op
      /\ AbsCalls[c].fd = Request.fd /\ AbsCalls[c].arg = Request.arg
  BY <1>2 DEF Told
<1>4. \A t \in Slot : AbsOff(t) = page[t].off /\ AbsOff(t)' = page'[t].off
  BY <1>1 DEF AbsOff
<1>5. AbsOpen[s] = None
  <2>1. ~InUse(AbsDesc, s)
    BY <1>1, <1>2 DEF InUse, Shared
  <2> QED BY <2>1, OpenNow
<1>6. CASE /\ opentab' = [opentab EXCEPT ![s] = [id |-> NextId(s), file |-> Request.arg]]
           /\ page' = [page EXCEPT ![s] = [id |-> NextId(s), off |-> 0]]
           /\ size' = IF Request.op = "create" THEN [size EXCEPT ![Request.arg] = 0] ELSE size
           /\ Answer("ok", s)
  <2>1. srv'.res = "ok" /\ srv'.pg = s /\ s # None
    BY <1>6, Constants DEF Answer, FileServerInv, TypeOK, ServerState
  <2>2. Pending'
    BY <1>1, <2>1, Serviced DEF Working
  <2>3. Request.fd \in FD
    BY <1>1, RequestType DEF Working
  <2>4. AbsDesc' = [AbsDesc EXCEPT ![c][Request.fd] = s]
    <3>1. fds \in [Client -> [FD -> Slot \cup {None}]]
      BY DEF FileServerInv, TypeOK
    <3>2. AbsDesc' = [d \in Client |-> [f \in FD |->
                        IF c = d /\ Request.fd = f THEN s ELSE fds[d][f]]]
      BY <1>1, <1>2, <2>1, <2>2 DEF AbsDesc
    <3>3. AbsDesc'[c] = [fds[c] EXCEPT ![Request.fd] = s]
      BY <1>2, <3>1, <3>2
    <3>4. \A d \in Client \ {c} : AbsDesc'[d] = fds[d]
      BY <3>1, <3>2
    <3> QED BY <1>2, <3>1, <3>2, <3>3, <3>4
  <2>5. AbsOpen' = [AbsOpen EXCEPT ![s] = [file |-> Request.arg, off |-> 0]]
    <3>1. AbsOpen'[s] = [file |-> Request.arg, off |-> 0]
      <4>1. InUse(AbsDesc', s)
        <5>1. AbsDesc'[c][Request.fd] = s
          <6>1. fds \in [Client -> [FD -> Slot \cup {None}]]
            BY DEF FileServerInv, TypeOK
          <6> QED BY <1>2, <2>3, <2>4, <6>1
        <5> QED BY <1>2, <2>3, <5>1 DEF InUse
      <4>2. opentab'[s].file = Request.arg /\ page'[s].off = 0
        BY <1>6 DEF FileServerInv, TypeOK
      <4> QED BY <1>4, <4>1, <4>2, OpenNext
    <3>2. ASSUME NEW t \in Slot \ {s} PROVE AbsOpen'[t] = AbsOpen[t]
      <4>1. InUse(AbsDesc', t) <=> InUse(AbsDesc, t)
        <5>1. fds[c][Request.fd] = None
          BY <1>1, <1>2, Constants
             DEF FileServerInv, CallInv, Asking, Attended, Working, OnFd, Opening
        <5>2. fds \in [Client -> [FD -> Slot \cup {None}]]
          BY DEF FileServerInv, TypeOK
        <5> QED BY <1>2, <2>3, <2>4, <5>1, <5>2, Constants DEF InUse
      <4>2. opentab'[t] = opentab[t] /\ page'[t] = page[t]
        BY <1>6 DEF FileServerInv, TypeOK
      <4> QED BY <1>4, <4>1, <4>2, OpenNow, OpenNext
    <3> QED BY <3>1, <3>2, OpenType
  <2>6. Files!Open(c)
    BY <1>1, <1>2, <1>3, <1>5, <1>6, <2>1, <2>4, <2>5 DEF Files!Open, Files!Asked, Opening
  <2> QED BY <1>2, <1>3, <2>6 DEF Files!Next
<1>7. CASE /\ opentab' = [opentab EXCEPT ![s].id = NextId(s)]
           /\ page' = [page EXCEPT ![s] = [id |-> <<1, 0>>, off |-> 0]]
           /\ size' = size
           /\ Answer("error", None)
  <2>1. srv'.res = "error" /\ srv'.pg = None /\ AbsDesc' = AbsDesc
    BY <1>2, <1>7 DEF Answer, FileServerInv, TypeOK, ServerState
  <2>2. AbsOpen' = AbsOpen
    <3>1. ASSUME NEW t \in Slot \ {s} PROVE AbsOpen'[t] = AbsOpen[t]
      <4>1. opentab'[t] = opentab[t] /\ page'[t] = page[t]
        BY <1>7 DEF FileServerInv, TypeOK
      <4> QED BY <1>4, <2>1, <4>1, OpenNow, OpenNext
    <3>2. AbsOpen'[s] = None
      <4>1. ~InUse(AbsDesc, s)
        BY <1>1, <1>2 DEF InUse, Shared
      <4> QED BY <2>1, <4>1, OpenNext
    <3> QED BY <1>5, <3>1, <3>2, OpenType
  <2>3. Files!Fail(c)
    BY <1>1, <1>2, <1>3, <1>7, <2>1, <2>2 DEF Files!Fail, Files!Asked, Opening
  <2> QED BY <1>2, <1>3, <2>3 DEF Files!Next
<1> QED BY <1>6, <1>7 DEF ServeOpen

\* The file a request names is open: openfile_lookup() finds it.
LEMMA Found ==
    ASSUME FileServerInv, Attended, srv.pc = "serve"
    PROVE  /\ Request.op \in OnFd /\ Request.fd \in FD /\ Request.id[1] \in Slot
           /\ fds[srv.who][Request.fd] = Request.id[1] /\ OpenfileLookup(Request.id)
           /\ File \in Name /\ Offset \in 0..MaxSize
<1>1. /\ srv.who \in Client /\ cl[srv.who].pc \in {"sent", "wait"} /\ Request = cl[srv.who].req
      /\ Request.op \in OnFd /\ Request.fd \in FD /\ Request.id[1] \in Slot
  BY RequestType, LookupType DEF Attended, Working, Request
<1>2. fds[srv.who][Request.fd] = Request.id[1]
  BY <1>1 DEF FileServerInv, CallInv, Asking, OnFd, Opening
<1>3. opentab[Request.id[1]].id = Request.id
  BY <1>1, <1>2, Constants DEF FileServerInv, LiveFdsAreValid
<1>4. OpenfileLookup(Request.id)
  BY <1>1, <1>2, <1>3 DEF OpenfileLookup, Shared
<1> QED BY <1>1, <1>2, <1>4, LookupType

\* serve_read(), serve_write(), serve_set_size() and serve_flush() act on the
\* file of the caller's descriptor, at its seek position.
LEMMA HandleRefines ==
    ASSUME FileServerInv, FileServerInv', Attended, Handle
    PROVE  Files!Next
<1> DEFINE c == srv.who
           s == Request.id[1]
<1>1. /\ srv.pc = "serve" /\ UNCHANGED <<cl, fds, page, opentab>>
      /\ srv \in ServerState /\ srv.pg = None
  BY DEF Handle, FileServerInv, TypeOK, ServerInv
<1>2. /\ Request.op \in OnFd /\ Request.fd \in FD /\ s \in Slot /\ fds[c][Request.fd] = s
      /\ OpenfileLookup(Request.id) /\ File \in Name /\ Offset \in 0..MaxSize
  BY <1>1, Found
<1>3. /\ c \in Client /\ cl[c].pc \in {"sent", "wait"} /\ AbsDesc = fds
      /\ AbsCalls[c] = Told(c, "asked", None) /\ Request = cl[c].req
  <2>1. /\ c \in Client /\ cl[c].pc \in {"sent", "wait"} /\ Request = cl[c].req
        /\ ~Taken(c) /\ ~Pending
    BY <1>1, RequestType DEF Attended, Working, Request, Taken, Pending
  <2>2. fds \in [Client -> [FD -> Slot \cup {None}]]
    BY DEF FileServerInv, TypeOK
  <2>3. AbsDesc = fds
    BY <2>1, <2>2 DEF AbsDesc
  <2> QED BY <2>1, <2>3, CallOf DEF CallsAreTold, AbsCalls
<1>4. /\ AbsCalls[c].st = "asked" /\ AbsCalls[c].op = Request.op /\ AbsCalls[c].fd = Request.fd
  BY <1>3 DEF Told
<1>5. AbsOpen[s] = [file |-> File, off |-> Offset]
  <2>1. InUse(AbsDesc, s) /\ AbsOff(s) = Offset
    BY <1>1, <1>2, <1>3 DEF InUse, AbsOff, Offset
  <2> QED BY <1>2, <2>1, OpenNow DEF File
<1>6. ASSUME NEW r, Answer(r, None)
      PROVE  Files!Done(c, r) /\ AbsDesc' = AbsDesc /\ AbsOpen' = AbsOpen
  <2>1. srv'.pc = "reply" /\ srv'.who = c /\ srv'.res = r /\ srv'.pg = None
    BY <1>1, <1>6 DEF Answer, ServerState
  <2>2. Files!Done(c, r) /\ AbsDesc' = AbsDesc
    BY <1>1, <1>3, <2>1, Effect
  <2>3. ASSUME NEW t \in Slot PROVE AbsOpen'[t] = AbsOpen[t]
    <3>1. AbsOff(t)' = AbsOff(t) /\ opentab'[t] = opentab[t]
      BY <1>1, <2>1 DEF AbsOff
    <3> QED BY <2>2, <3>1, OpenNow, OpenNext
  <2> QED BY <2>2, <2>3, OpenType
<1>7. ASSUME NEW r, Moved(r)
      PROVE  /\ Files!Done(c, r) /\ AbsDesc' = AbsDesc
             /\ AbsOpen' = [AbsOpen EXCEPT ![s].off = Up(Offset)]
  <2>1. srv'.pc = "advance" /\ srv'.who = c /\ srv'.res = r /\ srv'.pg = None
    BY <1>1, <1>7 DEF Moved, ServerState
  <2>2. Files!Done(c, r) /\ AbsDesc' = AbsDesc /\ Request' = Request
    BY <1>1, <1>3, <2>1, Effect
  <2>3. ASSUME NEW t \in Slot \ {s} PROVE AbsOpen'[t] = AbsOpen[t]
    <3>1. AbsOff(t)' = AbsOff(t) /\ opentab'[t] = opentab[t]
      BY <1>1, <2>1, <2>2 DEF AbsOff
    <3> QED BY <2>2, <3>1, OpenNow, OpenNext
  <2>4. AbsOpen'[s] = [file |-> File, off |-> Up(Offset)]
    <3>1. PICK t \in Slot : t = s
      BY <1>2
    <3>2. InUse(AbsDesc', t)
      BY <1>2, <1>3, <2>2, <3>1 DEF InUse
    <3>3. AbsOff(t)' = Up(Offset) /\ opentab'[t].file = File
      BY <1>1, <2>1, <2>2, <3>1 DEF AbsOff, Offset, File
    <3>4. AbsOpen'[t] = [file |-> File, off |-> Up(Offset)]
      BY <3>2, <3>3, OpenNext
    <3> QED BY <3>1, <3>4
  <2>5. [AbsOpen[s] EXCEPT !.off = Up(Offset)] = [file |-> File, off |-> Up(Offset)]
    BY <1>5
  <2> QED BY <2>2, <2>3, <2>4, <2>5, <1>2, OpenType
<1>8. Offset < MaxSize => Up(Offset) = Offset + 1
  BY <1>2 DEF Up
<1>9. size \in [Name -> 0..MaxSize]
  BY DEF FileServerInv, TypeOK
<1>10. AbsDesc[c][AbsCalls[c].fd] = s /\ AbsOpen[s].file = File /\ AbsOpen[s].off = Offset
  BY <1>2, <1>3, <1>4, <1>5
<1>11. CASE ServeRead
  <2>1. Request.op = "read"
    BY <1>11 DEF ServeRead
  <2>2. CASE Offset < size[File]
    <3>1. Moved(<<File, Offset>>) /\ size' = size
      BY <1>11, <2>2 DEF ServeRead
    <3>2. Up(Offset) = Offset + 1
      BY <1>2, <1>8, <1>9, <2>2, Constants
    <3>3. Files!Do(c)
      BY <1>4, <1>7, <1>10, <2>1, <2>2, <3>1, <3>2 DEF Files!Do, Files!Asked
    <3> QED BY <1>3, <1>4, <3>3 DEF Files!Next
  <2>3. CASE ~(Offset < size[File])
    <3>1. Answer("eof", None) /\ size' = size
      BY <1>11, <2>3 DEF ServeRead
    <3>2. Offset >= size[File]
      BY <1>2, <1>9, <2>3, Constants
    <3>3. Files!Do(c)
      BY <1>4, <1>6, <1>10, <2>1, <3>1, <3>2 DEF Files!Do, Files!Asked
    <3> QED BY <1>3, <1>4, <3>3 DEF Files!Next
  <2> QED BY <2>2, <2>3
<1>12. CASE ServeWrite
  <2>1. /\ Request.op = "write"
        /\ size' = [size EXCEPT ![File] = Files!Grown(@, Offset)]
    BY <1>12 DEF ServeWrite, Files!Grown, Up, Files!Up
  <2>2. CASE Offset < MaxSize /\ Moved("ok")
    <3>1. Files!Do(c)
      BY <1>4, <1>7, <1>8, <1>10, <2>1, <2>2 DEF Files!Do, Files!Asked
    <3> QED BY <1>3, <1>4, <3>1 DEF Files!Next
  <2>3. CASE Answer("error", None)
    <3>1. Files!Fail(c)
      BY <1>4, <1>6, <1>10, <2>1, <2>3 DEF Files!Fail, Files!Asked
    <3> QED BY <1>3, <1>4, <3>1 DEF Files!Next
  <2> QED BY <1>12, <2>2, <2>3 DEF ServeWrite
<1>13. CASE ServeSetSize
  <2>1. Request.op = "trunc" /\ size' = [size EXCEPT ![File] = 0] /\ Answer("ok", None)
    BY <1>13 DEF ServeSetSize
  <2>2. Files!Do(c)
    BY <1>4, <1>6, <1>10, <2>1 DEF Files!Do, Files!Asked
  <2> QED BY <1>3, <1>4, <2>2 DEF Files!Next
<1>14. CASE ServeFlush
  <2>1. Request.op = "close" /\ size' = size /\ Answer("ok", None)
    BY <1>14 DEF ServeFlush
  <2>2. Files!Do(c)
    BY <1>4, <1>6, <1>10, <2>1 DEF Files!Do, Files!Asked
  <2> QED BY <1>3, <1>4, <2>2 DEF Files!Next
<1> QED BY <1>2, <1>11, <1>12, <1>13, <1>14 DEF Handle

\* What it takes for the abstract state to stay the same.
LEMMA FilesVars ==
    ASSUME FileServerInv, FileServerInv', UNCHANGED size, AbsDesc' = AbsDesc,
           \A c \in Client : AbsCall(c)' = AbsCall(c),
           \A s \in Slot : opentab'[s].file = opentab[s].file /\ AbsOff(s)' = AbsOff(s)
    PROVE  UNCHANGED Files!vars
<1>1. ASSUME NEW s \in Slot PROVE AbsOpen'[s] = AbsOpen[s]
  BY OpenNow, OpenNext
<1>2. AbsOpen' = AbsOpen
  BY <1>1, OpenType
<1>3. AbsCalls' = AbsCalls
  BY DEF AbsCalls
<1> QED BY <1>2, <1>3 DEF Files!vars

\* openfile_alloc() looks on.
LEMMA BusyStutters ==
    ASSUME FileServerInv, FileServerInv', Attended, Busy
    PROVE  UNCHANGED Files!vars
<1>1. /\ srv.pc = "scan" /\ srv'.pc = "scan" /\ srv'.who = srv.who
      /\ UNCHANGED <<cl, fds, page, opentab, size>>
  BY DEF Busy, FileServerInv, TypeOK, ServerState
<1>2. \A c \in Client : AbsCall(c)' = AbsCall(c)
  BY <1>1 DEF AbsCall, Taken
<1>3. AbsDesc' = AbsDesc
  BY <1>1 DEF AbsDesc, Pending
<1>4. \A s \in Slot : AbsOff(s)' = AbsOff(s)
  BY <1>1 DEF AbsOff
<1> QED BY <1>1, <1>2, <1>3, <1>4, FilesVars

\* The request is on its way.
LEMMA SendStutters ==
    ASSUME FileServerInv, FileServerInv', NEW c \in Client, Send(c)
    PROVE  UNCHANGED Files!vars
<1>1. /\ srv.pc = "recv" /\ srv'.pc \in {"scan", "serve"} /\ cl[c].pc = "send"
      /\ cl'[c].pc = "sent" /\ cl'[c].req = cl[c].req /\ cl'[c].res = cl[c].res
      /\ \A d \in Client \ {c} : cl'[d] = cl[d]
      /\ UNCHANGED <<fds, page, opentab, size>>
  BY DEF Send, Idle, FileServerInv, TypeOK, ClientState
<1>2. \A d \in Client : ~Taken(d) /\ ~Taken(d)'
  BY <1>1 DEF Taken
<1>3. ASSUME NEW d \in Client PROVE AbsCall(d)' = AbsCall(d)
  BY <1>1, <1>2 DEF AbsCall
<1>4. AbsDesc' = AbsDesc
  BY <1>1 DEF AbsDesc, Pending
<1>5. \A s \in Slot : AbsOff(s)' = AbsOff(s)
  BY <1>1 DEF AbsOff
<1> QED BY <1>1, <1>3, <1>4, <1>5, FilesVars

\* The client waits.
LEMMA AwaitStutters ==
    ASSUME FileServerInv, FileServerInv', NEW c \in Client, Await(c)
    PROVE  UNCHANGED Files!vars
<1>1. /\ cl[c].pc = "sent" /\ cl'[c].pc = "wait"
      /\ cl'[c].req = cl[c].req /\ cl'[c].res = cl[c].res
      /\ \A d \in Client \ {c} : cl'[d] = cl[d]
      /\ UNCHANGED <<fds, page, opentab, size, srv>>
  BY DEF Await, FileServerInv, TypeOK, ClientState
<1>2. \A d \in Client : Serving(d)' = Serving(d)
  BY <1>1 DEF Serving
<1>3. \A d \in Client : Taken(d)' = Taken(d)
  BY <1>1, <1>2 DEF Taken
<1>4. ASSUME NEW d \in Client PROVE AbsCall(d)' = AbsCall(d)
  BY <1>1, <1>3 DEF AbsCall
<1>5. Working => srv.who \in Client /\ Request' = Request
  BY <1>1, RequestType DEF Request
<1>6. AbsDesc' = AbsDesc
  <2>1. Pending' = Pending
    <3>1. srv.pc = "reply" => Serving(srv.who)' = Serving(srv.who)
      BY <1>1, <1>2, <1>5 DEF Working, Serving
    <3> QED BY <1>1, <3>1 DEF Pending
  <2>2. Pending => Request' = Request
    BY <1>5 DEF Pending, Working
  <2> QED BY <1>1, <2>1, <2>2 DEF AbsDesc
<1>7. \A s \in Slot : AbsOff(s)' = AbsOff(s)
  BY <1>1, <1>5 DEF AbsOff, Working
<1> QED BY <1>1, <1>4, <1>6, <1>7, FilesVars

\* fd_offset catches up with the position the call has left.
LEMMA AdvanceStutters ==
    ASSUME FileServerInv, FileServerInv', Attended, Advance
    PROVE  UNCHANGED Files!vars
<1>1. /\ srv.pc = "advance" /\ srv'.pc = "reply" /\ srv'.who = srv.who
      /\ srv'.res = srv.res /\ srv.pg = None /\ srv'.pg = None
      /\ UNCHANGED <<cl, fds, opentab, size>>
      /\ page' = [page EXCEPT ![Request.id[1]].off = Up(@)] /\ Request.id[1] \in Slot
  BY LookupType DEF Advance, Answer, FileServerInv, TypeOK, ServerState, ServerInv
<1>2. \A c \in Client : AbsCall(c)' = AbsCall(c)
  BY <1>1 DEF AbsCall, Taken, Serving
<1>3. AbsDesc' = AbsDesc
  BY <1>1 DEF AbsDesc, Pending
<1>4. ASSUME NEW s \in Slot PROVE AbsOff(s)' = AbsOff(s)
  <2>1. page \in [Slot -> [id : FileId, off : 0..MaxSize]]
    BY DEF FileServerInv, TypeOK
  <2>2. AbsOff(s)' = page'[s].off
    BY <1>1 DEF AbsOff
  <2>3. page'[s].off = IF Request.id[1] = s THEN Up(page[s].off) ELSE page[s].off
    BY <1>1, <2>1
  <2> QED BY <1>1, <2>2, <2>3 DEF AbsOff
<1> QED BY <1>1, <1>2, <1>3, <1>4, FilesVars

\* The server waits.
LEMMA AgainStutters ==
    ASSUME FileServerInv, FileServerInv', Again
    PROVE  UNCHANGED Files!vars
<1>1. srv.pc = "unmap" /\ srv'.pc = "recv" /\ UNCHANGED <<cl, fds, page, opentab, size>>
  BY DEF Again, Idle
<1>2. \A c \in Client : AbsCall(c)' = AbsCall(c)
  BY <1>1 DEF AbsCall, Taken
<1>3. AbsDesc' = AbsDesc
  BY <1>1 DEF AbsDesc, Pending
<1>4. \A s \in Slot : AbsOff(s)' = AbsOff(s)
  BY <1>1 DEF AbsOff
<1> QED BY <1>1, <1>2, <1>3, <1>4, FilesVars

\* The answer ends every call but close(), and maps the Fd page of an open().
LEMMA ReplyRefines ==
    ASSUME FileServerInv, FileServerInv', Attended, Reply
    PROVE  [Files!Next]_(Files!vars)
<1>0. PICK c \in Client : c = srv.who
  BY RequestType DEF Reply, Working
<1>1. /\ srv.pc = "reply" /\ c \in Client /\ cl[c].pc = "wait" /\ Request = cl[c].req
      /\ Request.fd \in FD /\ Request.op \in Opening \cup OnFd
      /\ UNCHANGED <<page, opentab, size>>
  BY <1>0, RequestType DEF Reply, Attended, Working, Request, FileServerInv, ServerInv
<1>2. /\ srv'.pc = "unmap" /\ srv'.who = None
      /\ \A d \in Client \ {c} : cl'[d] = cl[d]
      /\ fds' = IF srv.pg = None THEN fds ELSE [fds EXCEPT ![c][Request.fd] = srv.pg]
  BY <1>0, <1>1 DEF Reply, Idle, Fresh, FileServerInv, TypeOK
<1>3. /\ Taken(c) /\ (Pending <=> srv.pg # None) /\ ~Pending'
      /\ \A d \in Client \ {c} : ~Taken(d)
      /\ \A d \in Client : ~Taken(d)'
  BY <1>0, <1>1, <1>2 DEF Taken, Serving, Pending
<1>4. \A d \in Client \ {c} : AbsCall(d)' = AbsCall(d)
  BY <1>2, <1>3 DEF AbsCall
<1>5. AbsDesc' = AbsDesc
  <2>1. /\ fds \in [Client -> [FD -> Slot \cup {None}]]
        /\ fds' \in [Client -> [FD -> Slot \cup {None}]]
    BY DEF FileServerInv, TypeOK
  <2>2. AbsDesc' = fds'
    BY <1>3, <2>1 DEF AbsDesc
  <2>3. AbsDesc = fds'
    <3>1. CASE srv.pg = None
      BY <1>0, <1>2, <1>3, <2>1, <3>1 DEF AbsDesc
    <3>2. CASE srv.pg # None
      <4>1. ASSUME NEW d \in Client, NEW f \in FD PROVE AbsDesc[d][f] = fds'[d][f]
        BY <1>0, <1>1, <1>2, <1>3, <2>1, <3>2 DEF AbsDesc
      <4>2. AbsDesc = [d \in Client |-> [f \in FD |-> AbsDesc[d][f]]]
        BY DEF AbsDesc
      <4> QED BY <2>1, <4>1, <4>2
    <3> QED BY <3>1, <3>2
  <2> QED BY <2>2, <2>3
<1>6. \A s \in Slot : AbsOff(s)' = AbsOff(s)
  BY <1>1, <1>2 DEF AbsOff
<1>7. AbsCall(c) = Told(c, "done", srv.res)
  BY <1>1, <1>3, CallOf DEF CallsAreTold
<1>8. CASE Request.op = "close"
  <2>1. cl'[c].pc = "close" /\ cl'[c].res = srv.res /\ cl'[c].req = cl[c].req
    BY SMTT(30), <1>0, <1>1, <1>8 DEF Reply, FileServerInv, TypeOK, ClientState
  <2>2. AbsCall(c)' = Told(c, "done", cl[c].res)'
    BY <1>1, <2>1, CallOfNext DEF CallsAreTold
  <2>3. AbsCall(c)' = AbsCall(c)
    BY <1>7, <2>1, <2>2 DEF Told
  <2> QED BY <1>1, <1>4, <1>5, <1>6, <2>3, FilesVars
<1>9. CASE Request.op # "close"
  <2>1. cl'[c].pc = "idle"
    BY <1>0, <1>1, <1>9 DEF Reply, Fresh, FileServerInv, TypeOK
  <2>2. AbsCall(c)' = Files!Quiet
    BY <1>1, <2>1, CallOfNext DEF CallsAreTold
  <2>3. AbsCalls' = [AbsCalls EXCEPT ![c] = Files!Quiet]
    BY <1>1, <1>4, <2>2, SameCall
  <2>4. AbsCalls[c].st = "done" /\ AbsCalls[c].op # "close"
    BY <1>1, <1>7, <1>9 DEF AbsCalls, Told
  <2>5. Files!Release
    <3>1. ASSUME NEW s \in Slot
          PROVE  AbsOpen'[s] = IF InUse(AbsDesc', s) THEN AbsOpen[s] ELSE None
      <4>1. opentab'[s] = opentab[s] /\ AbsOff(s)' = AbsOff(s)
        BY <1>1, <1>6
      <4> QED BY <1>5, <4>1, OpenNow, OpenNext
    <3>2. AbsOpen' = [s \in Slot |-> IF InUse(AbsDesc', s) THEN AbsOpen[s] ELSE None]
      BY <3>1, OpenType
    <3> QED BY <3>2 DEF Files!Release, InUse
  <2>6. Files!Return(c)
    BY <1>1, <1>5, <2>3, <2>4, <2>5 DEF Files!Return
  <2> QED BY <1>1, <2>6 DEF Files!Next
<1> QED BY <1>8, <1>9

-----------------------------------------------------------------------------

\* Every step is a step of the open files, or no step.
LEMMA StepRefines ==
    ASSUME Misuse = {}
    PROVE  FileServerInv /\ FileServerInv' /\ Attended /\ [Next]_vars => [Files!Next]_(Files!vars)
<1> SUFFICES ASSUME FileServerInv, FileServerInv', Attended, [Next]_vars
             PROVE  [Files!Next]_(Files!vars)
  OBVIOUS
<1>1. CASE Server
  BY <1>1, BusyStutters, FullRefines, ServeOpenRefines, HandleRefines, AdvanceStutters,
     ReplyRefines, AgainStutters DEF Server
<1>2. ASSUME NEW c \in Client,
             \/ Open(c) \/ OnFile(c) \/ AskSeek(c) \/ Send(c) \/ Await(c) \/ Close(c)
             \/ Seek(c) \/ Dup(c) \/ Kill(c) \/ \E child \in Client : Fork(c, child)
      PROVE  [Files!Next]_(Files!vars)
  BY <1>2, AskRefines, SendStutters, AwaitStutters, CloseRefines, SeekRefines, DupRefines,
     KillRefines, ForkRefines
<1>3. CASE UNCHANGED vars
  <2>1. UNCHANGED <<AbsDesc, AbsOpen, AbsCalls, size>>
    <3>1. \A c \in Client : Serving(c)' = Serving(c) /\ Taken(c)' = Taken(c)
      BY <1>3 DEF vars, Serving, Taken
    <3>2. (\A c \in Client : AbsCall(c)' = AbsCall(c)) /\ Request' = Request
      BY <1>3, <3>1 DEF vars, AbsCall, Request
    <3>3. Pending' = Pending
      BY <1>3 DEF vars, Pending, Serving
    <3>4. \A s \in Slot : AbsOff(s)' = AbsOff(s) /\ Shared(s)' = Shared(s)
      BY <1>3, <3>2 DEF vars, AbsOff, Shared
    <3> QED BY <1>3, <3>2, <3>3, <3>4 DEF vars, AbsDesc, AbsOpen, AbsCalls
  <2> QED BY <2>1 DEF Files!vars
<1> QED BY <1>1, <1>2, <1>3 DEF Next

\* The server, its clients and the IPC between them implement open files:
\* each call takes effect at one moment between its start and its return, on
\* the open file its descriptor stands for, although file ids are used again,
\* Fd pages are shared and everybody runs in between (fs/serv.c, lib/file.c).
THEOREM FileServerIsOpenFiles ==
    ASSUME Misuse = {}
    PROVE  Spec => IsOpenFiles
<1>1. Init => Attended
  BY DEF Init, Idle, Attended, Working
<1>2. FileServerInv /\ Attended /\ [Next]_vars => Attended'
  BY AttendedInv
<1>3. Spec => []Attended
  BY <1>1, <1>2, FileServerInvariant, PTL DEF Spec
<1>4. FileServerInv /\ FileServerInv' /\ Attended /\ [Next]_vars => [Files!Next]_(Files!vars)
  BY StepRefines
<1> QED BY <1>3, <1>4, InitRefines, FileServerInvariant, PTL DEF Spec, IsOpenFiles, Files!Spec
=============================================================================
