----------------------------- MODULE NetServer -----------------------------
(***************************************************************************)
(* The network server, net/serv.c: its main thread takes requests and      *)
(* gives each a thread of its own, which does the request through lwIP and *)
(* answers it.  The threads talk to lwIP's thread through its mailbox and  *)
(* wait for it on the semaphore of their socket; packets come as requests  *)
(* too, and are put in the mailbox of a socket or, when they acknowledge   *)
(* data, let lwIP finish a write.  ipc_recv() stops the whole environment  *)
(* with all its threads.                                                   *)
(*                                                                         *)
(* What else lwIP does with packets and connections is left out: its       *)
(* thread finishes each call when it gets to it, except that a write to a  *)
(* slow socket may have to wait until there is room.  The threads for      *)
(* lwIP's timers are left out too: they wait on no address.                *)
(***************************************************************************)
EXTENDS NetThreads, FiniteSets

CONSTANTS
    main, tcpip,        \* the threads that exist from the start
    Worker,
    Client, Socket,
    SocketsOf,          \* the sockets each client uses
    Slow,               \* the sockets whose peer may be behind
    QUEUE_SIZE,         \* request buffers
    MaxPackets,         \* bound: packets in the server and not read
    MaxKept             \* bound: buffers that are lost

Buffer == 0..QUEUE_SIZE - 1
Wait   == [sem : Sem, val : [counter : Nat, waiters : {0, 1}]]
Args   == [op : {None, "send", "recv", "input", "ack", "timer", "bare"}, whom : Client \cup Worker \cup {None},
           sock : Socket \cup {None}, req : Buffer \cup {None}]

ASSUME Constants ==
    /\ Thread = {main, tcpip} \cup Worker
    /\ main # tcpip /\ main \notin Worker /\ tcpip \notin Worker
    /\ Mbox = {tcpip} \cup Socket /\ Event = Socket /\ tcpip \notin Socket
    /\ None \notin Thread \cup Client \cup Socket \cup Sem \cup Nat
    /\ None \notin Wait /\ None \notin Args
    /\ SocketsOf \in [Client -> SUBSET Socket] /\ Slow \subseteq Socket
    /\ MBOXSLOTS \in Nat \ {0} /\ QUEUE_SIZE \in Nat \ {0} /\ MaxPackets \in Nat /\ MaxKept \in Nat
    /\ IsFiniteSet(Worker) /\ Cardinality(Worker) = QUEUE_SIZE

VARIABLES
    pc,         \* where each thread is
    args,       \* of a worker: [op, whom, sock, req]; of lwIP's thread: its call
    write_msg,  \* of a socket: the worker whose write is not finished
    buse,       \* the request buffers in use
    ns,         \* of the main thread: [va, msg, i]
    cl,         \* what each client does
    ns_timer,   \* whether the timer environment waits for its answer
    env_ipc_perm,   \* of the server: whether a message with a page has come
    kept        \* history: the buffers of requests that got no thread

vars == <<tvars, pc, args, write_msg, buse, ns, cl, ns_timer, kept, env_ipc_perm>>

MaxYields == 32
NoArgs    == [op |-> None, whom |-> None, sock |-> None, req |-> None]
Start     == [va |-> None, msg |-> None, i |-> 0]
Live      == {w \in Worker : pc[w] # "none"}
NewWorker == CHOOSE w \in Worker \ Live : TRUE
Goto(p)   == pc' = [pc EXCEPT ![cur_tc] = p]
Me        == args[cur_tc]
Packets   == Cardinality({w \in Live : args[w].whom = None})
               + Cardinality({x \in Socket \X (0..MBOXSLOTS - 1) : mboxes[x[1]].msg[x[2]] # None})

Init ==
    /\ ThreadsInit(main, tcpip, tcpip)     \* serve_init() is over
    /\ pc = [t \in Thread |-> CASE t = main -> "flush" [] t = tcpip -> "fetch" [] OTHER -> "none"]
    /\ args = [t \in Thread |-> NoArgs]
    /\ write_msg = [s \in Socket |-> None]
    /\ buse = {} /\ kept = {}
    /\ ns = Start
    /\ cl = [c \in Client |-> "idle"]
    /\ ns_timer = "run" /\ env_ipc_perm = FALSE

-----------------------------------------------------------------------------
(* The environments around the server.  A message gets through when the    *)
(* main thread, and so the whole server, waits for one.  The kernel sets   *)
(* env_ipc_perm when a page comes with it, and leaves it when none does.   *)

Receiving == cur_tc = main /\ pc[main] = "recv"

Message(m) == pc' = [pc EXCEPT ![main] = "got"] /\ ns' = [ns EXCEPT !.msg = m]

Request(c) ==
    /\ cl[c] = "idle" /\ Receiving
    /\ \E op \in {"send", "recv"}, s \in SocketsOf[c] :
         Message([op |-> op, whom |-> c, sock |-> s, req |-> ns.va])
    /\ cl' = [cl EXCEPT ![c] = "sent"]
    /\ env_ipc_perm' = TRUE
    /\ UNCHANGED <<tvars, args, write_msg, buse, ns_timer, kept>>

\* A request without its argument page.
BareRequest(c) ==
    /\ cl[c] = "idle" /\ Receiving /\ Cardinality(kept) < MaxKept
    /\ Message([NoArgs EXCEPT !.op = "bare", !.whom = c])
    /\ cl' = [cl EXCEPT ![c] = "sent"]
    /\ UNCHANGED <<tvars, args, write_msg, buse, ns_timer, kept, env_ipc_perm>>

Await(c) ==
    /\ cl[c] = "sent"
    /\ cl' = [cl EXCEPT ![c] = "wait"]
    /\ UNCHANGED <<tvars, pc, args, write_msg, buse, ns, ns_timer, kept, env_ipc_perm>>

Input(s) ==
    /\ Receiving /\ Packets < MaxPackets
    /\ \E op \in {"input"} \cup {"ack" : r \in {s} \cap Slow} :
         Message([op |-> op, whom |-> None, sock |-> s, req |-> ns.va])
    /\ env_ipc_perm' = TRUE
    /\ UNCHANGED <<tvars, args, write_msg, buse, cl, ns_timer, kept>>

Tick ==
    /\ Receiving /\ ns_timer = "run"
    /\ Message([NoArgs EXCEPT !.op = "timer"])
    /\ ns_timer' = "wait"
    /\ UNCHANGED <<tvars, args, write_msg, buse, cl, kept, env_ipc_perm>>

-----------------------------------------------------------------------------
(* The main thread: serve(). *)

\* Let the others run before ipc_recv() stops them.
Flush ==
    /\ cur_tc = main /\ pc[main] = "flush"
    /\ thread_wakeups_pending /\ ns.i < MaxYields
    /\ ns' = [ns EXCEPT !.i = @ + 1]
    /\ thread_yield
    /\ UNCHANGED <<waits, tc_wakeup, sems, mboxes, pc, args, write_msg, buse, cl, ns_timer, kept, env_ipc_perm>>

Free == {b \in Buffer \ buse : \A a \in Buffer \ buse : b <= a}     \* the first one

\* Mutant: serve() receives at once.
get_buffer_at_once ==
    /\ cur_tc = main /\ pc[main] = "flush"
    /\ \E b \in Free :
         Goto("recv") /\ ns' = [Start EXCEPT !.va = b] /\ buse' = buse \cup {b}
    /\ UNCHANGED <<tvars, args, write_msg, cl, ns_timer, kept, env_ipc_perm>>

get_buffer ==
    /\ cur_tc = main /\ pc[main] = "flush"
    /\ ~thread_wakeups_pending \/ ns.i >= MaxYields
    /\ IF buse = Buffer THEN Goto("panic") /\ UNCHANGED <<ns, buse>>
       ELSE \E b \in Free :
              Goto("recv") /\ ns' = [Start EXCEPT !.va = b] /\ buse' = buse \cup {b}
    /\ UNCHANGED <<tvars, args, write_msg, cl, ns_timer, kept, env_ipc_perm>>

\* process_timer() yields, and then answers.
TimerYield ==
    /\ cur_tc = main /\ pc[main] = "got" /\ ns.msg.op = "timer"
    /\ Goto("timer")
    /\ thread_yield
    /\ UNCHANGED <<waits, tc_wakeup, sems, mboxes, args, write_msg, buse, ns, cl, ns_timer, kept, env_ipc_perm>>

\* Mutant: the buffer of a message without a page is not put back.
TimerAnswerKeeps ==
    /\ cur_tc = main /\ pc[main] = "timer"
    /\ ns_timer' = "run"
    /\ Goto("flush") /\ ns' = Start
    /\ UNCHANGED <<tvars, args, write_msg, buse, cl, kept, env_ipc_perm>>

TimerAnswer ==
    /\ cur_tc = main /\ pc[main] = "timer"
    /\ ns_timer' = "run"
    /\ buse' = buse \ {ns.va}
    /\ Goto("flush") /\ ns' = Start
    /\ UNCHANGED <<tvars, args, write_msg, cl, kept, env_ipc_perm>>

\* A request without a page is left hanging, if the server can tell: after one with
\* a page perm says that each has one, and the thread dies of the page fault, and the
\* server with it, before any other has done more than to look at what it waits for.
Unpaged ==
    /\ cur_tc = main /\ pc[main] = "got" /\ ns.msg.op = "bare"
    /\ Goto(IF env_ipc_perm THEN "panic" ELSE "flush")
    /\ kept' = kept \cup {ns.va} /\ ns' = Start
    /\ UNCHANGED <<tvars, args, write_msg, buse, cl, ns_timer, env_ipc_perm>>

\* There is no memory for the arguments, and the server panics, or none for the
\* thread, which serve() does not notice.
ThreadFails ==
    /\ cur_tc = main /\ pc[main] = "got" /\ ns.msg.op \notin {"timer", "bare"}
    /\ Cardinality(kept) < MaxKept
    /\ \/ Goto("panic") /\ UNCHANGED tvars
       \/ Goto("flush") /\ thread_yield /\ UNCHANGED <<waits, tc_wakeup, sems, mboxes>>
    /\ kept' = kept \cup {ns.va} /\ ns' = Start
    /\ UNCHANGED <<args, write_msg, buse, cl, ns_timer, env_ipc_perm>>

\* Any other message gets a thread, which runs after those in the queue.
Spawn ==
    /\ cur_tc = main /\ pc[main] = "got" /\ ns.msg.op \notin {"timer", "bare"}
    /\ \E w \in {NewWorker} :
         /\ args' = [args EXCEPT ![w] = ns.msg]
         /\ pc' = [pc EXCEPT ![main] = "flush",
                             ![w] = [send |-> "call", recv |-> "fetch", input |-> "deliver", ack |-> "ack"][ns.msg.op]]
         /\ CreateAndYield(w)
    /\ ns' = Start
    /\ UNCHANGED <<waits, tc_wakeup, sems, mboxes, write_msg, buse, cl, ns_timer, kept, env_ipc_perm>>

-----------------------------------------------------------------------------
(* lwIP's thread and the workers. *)

Ready(t, p) == cur_tc = t /\ pc[t] = p /\ waits[t] = None
Still       == UNCHANGED <<cur_tc, thread_queue>>

\* The semaphore that the thread needs to go on.
Needs(t) ==
    CASE pc[t] = "fetch"   -> queued_msg(IF t = tcpip THEN tcpip ELSE args[t].sock)
      [] pc[t] = "call"    -> free_msg(tcpip)
      [] pc[t] = "called"  -> <<"done", args[t].sock>>
      [] pc[t] = "deliver" -> free_msg(args[t].sock)
      [] OTHER             -> None

SemWait ==
    /\ cur_tc # main /\ waits[cur_tc] = None /\ Needs(cur_tc) # None
    /\ Block(Needs(cur_tc))
    /\ UNCHANGED <<pc, args, write_msg, buse, ns, cl, ns_timer, kept, env_ipc_perm>>

ThreadWait ==
    /\ Poll
    /\ UNCHANGED <<pc, args, write_msg, buse, ns, cl, ns_timer, kept, env_ipc_perm>>

\* tcpip_thread() takes a call out of its mailbox; the message is in the
\* frame of the worker that called.
TcpipFetch ==
    /\ Ready(tcpip, "fetch")
    /\ \E w \in Worker :
         /\ Fetch(tcpip, w)
         /\ args' = [args EXCEPT ![tcpip].whom = w]
    /\ Goto("serve")
    /\ Still /\ UNCHANGED <<write_msg, buse, ns, cl, ns_timer, kept, env_ipc_perm>>

\* Mutant: a call that fails is not acknowledged.
TcpipServeUnacked ==
    /\ Ready(tcpip, "serve")
    /\ args' = [args EXCEPT ![tcpip] = NoArgs]
    /\ Goto("fetch")
    /\ Still /\ UNCHANGED <<waits, tc_wakeup, sems, mboxes, write_msg, buse, ns, cl, ns_timer, kept, env_ipc_perm>>

Complete(s) == /\ sems' = Signal(sems, <<"done", s>>)
               /\ tc_wakeup' = tc_wakeup \cup Woken(<<"done", s>>)

\* It does the call and signals the caller's socket (TCPIP_APIMSG_ACK), or
\* leaves a write to be finished when the peer has caught up (do_write).
TcpipServe ==
    /\ Ready(tcpip, "serve")
    /\ \E w \in {Me.whom} : \E s \in {args[w].sock} :
         \/ Complete(s) /\ UNCHANGED write_msg
         \/ /\ args[w].op = "send" /\ s \in Slow
            /\ write_msg' = [write_msg EXCEPT ![s] = w]
            /\ UNCHANGED <<sems, tc_wakeup>>
    /\ args' = [args EXCEPT ![tcpip] = NoArgs]
    /\ Goto("fetch")
    /\ Still /\ UNCHANGED <<waits, mboxes, buse, ns, cl, ns_timer, kept, env_ipc_perm>>

\* lwip_recv(): take a packet, then tell lwIP so.
Recv(w) ==
    /\ Ready(w, "fetch")
    /\ \E s \in Socket : Fetch(Me.sock, s)
    /\ Goto("call")
    /\ Still /\ UNCHANGED <<args, write_msg, buse, ns, cl, ns_timer, kept, env_ipc_perm>>

\* tcpip_apimsg()
Call(w) ==
    /\ Ready(w, "call")
    /\ Post(tcpip, w)
    /\ Goto("called")
    /\ Still /\ UNCHANGED <<args, write_msg, buse, ns, cl, ns_timer, kept, env_ipc_perm>>

Called(w) ==
    /\ Ready(w, "called") /\ Down(<<"done", Me.sock>>)
    /\ sems' = Lower(<<"done", Me.sock>>)
    /\ Goto("reply")
    /\ Still /\ UNCHANGED <<waits, tc_wakeup, mboxes, args, write_msg, buse, ns, cl, ns_timer, kept, env_ipc_perm>>

\* jif_input() leads to recv_tcp(), which puts the packet in the mailbox.
Deliver(w) ==
    /\ Ready(w, "deliver")
    /\ Post(Me.sock, Me.sock)
    /\ Goto("halt")
    /\ Still /\ UNCHANGED <<args, write_msg, buse, ns, cl, ns_timer, kept, env_ipc_perm>>

\* Mutant: sent_tcp() does not look whether a write is waiting.
AckAlways(w) ==
    /\ Ready(w, "ack")
    /\ Complete(Me.sock)
    /\ write_msg' = [write_msg EXCEPT ![Me.sock] = None]
    /\ Goto("halt")
    /\ Still /\ UNCHANGED <<waits, mboxes, args, buse, ns, cl, ns_timer, kept, env_ipc_perm>>

\* An acknowledgement comes to sent_tcp(), which finishes the write.
Ack(w) ==
    /\ Ready(w, "ack")
    /\ IF write_msg[Me.sock] # None THEN Complete(Me.sock) ELSE UNCHANGED <<sems, tc_wakeup>>
    /\ write_msg' = [write_msg EXCEPT ![Me.sock] = None]
    /\ Goto("halt")
    /\ Still /\ UNCHANGED <<waits, mboxes, args, buse, ns, cl, ns_timer, kept, env_ipc_perm>>

\* ipc_send() spins until the client waits, and nothing else runs meanwhile.
Reply(w) ==
    /\ Ready(w, "reply") /\ cl[Me.whom] = "wait"
    /\ cl' = [cl EXCEPT ![Me.whom] = "idle"]
    /\ Goto("halt")
    /\ UNCHANGED <<tvars, args, write_msg, buse, ns, ns_timer, kept, env_ipc_perm>>

\* The end of serve_thread().
Halt(w) ==
    /\ Ready(w, "halt")
    /\ buse' = buse \ {Me.req}
    /\ Goto("none") /\ args' = [args EXCEPT ![w] = NoArgs]
    /\ thread_halt
    /\ UNCHANGED <<waits, tc_wakeup, sems, mboxes, write_msg, ns, cl, ns_timer, kept, env_ipc_perm>>

\* The server is gone.
Dead == pc[main] = "panic" /\ UNCHANGED vars

Run == \/ Flush \/ get_buffer \/ TimerYield \/ TimerAnswer
       \/ Unpaged \/ ThreadFails \/ Spawn
       \/ SemWait \/ ThreadWait \/ TcpipFetch \/ TcpipServe
       \/ \E w \in Worker : \/ Recv(w) \/ Call(w) \/ Called(w)
                            \/ Deliver(w) \/ Ack(w) \/ Reply(w) \/ Halt(w)

Next == \/ Run \/ Tick \/ Dead
        \/ \E c \in Client : Request(c) \/ BareRequest(c) \/ Await(c)
        \/ \E s \in Socket : Input(s)

Spec == Init /\ [][Next]_vars

\* The server runs when it is not waiting, clients get to wait for their
\* answers, and the clock ticks.  Nothing is assumed of requests and packets.
FairSpec == Spec /\ WF_vars(Run) /\ WF_vars(Tick) /\ \A c \in Client : WF_vars(Await(c))

\* A slow socket has one user: lwIP keeps one write of a connection at a time,
\* and on its own a client waits for the answer before it asks again.
OwnSlow == \A s \in Slow, c, d \in Client : s \in SocketsOf[c] /\ s \in SocketsOf[d] => c = d

-----------------------------------------------------------------------------
(* Properties. *)

InMailbox(m, x) == \E i \in 0..MBOXSLOTS - 1 : mboxes[m].msg[i] = x
Counted(m) == Cardinality({i \in 0..MBOXSLOTS - 1 : mboxes[m].msg[i] # None})

Types ==
    /\ waits \in [Thread -> {None} \cup Wait]
    /\ tc_wakeup \subseteq {t \in Thread : waits[t] # None}
    /\ sems \in [Sem -> [counter : Nat, waiters : {0, 1}]]
    /\ mboxes \in [Mbox -> [head : -1..MBOXSLOTS - 1, nextq : 0..MBOXSLOTS - 1,
                            msg : [0..MBOXSLOTS - 1 -> Worker \cup Socket \cup {None}]]]
    /\ pc \in [Thread -> {"flush", "recv", "got", "timer", "panic", "fetch", "serve", "call",
                          "called", "deliver", "ack", "reply", "halt", "none"}]
    /\ args \in [Thread -> Args]
    /\ write_msg \in [Socket -> Worker \cup {None}]
    /\ buse \subseteq Buffer /\ kept \subseteq Buffer /\ env_ipc_perm \in BOOLEAN
    /\ ns \in [va : Buffer \cup {None}, msg : Args \cup {None}, i : 0..MaxYields]
    /\ cl \in [Client -> {"idle", "sent", "wait"}] /\ ns_timer \in {"run", "wait"}

\* Every thread but the one that runs is in the queue once.
Queue ==
    /\ cur_tc \in {main, tcpip} \cup Live /\ thread_queue \in Seq(Thread)
    /\ \A t \in Thread : (\E i \in DOMAIN thread_queue : thread_queue[i] = t)
                         <=> t \in ({main, tcpip} \cup Live) \ {cur_tc}
    /\ \A i, j \in DOMAIN thread_queue : thread_queue[i] = thread_queue[j] => i = j

\* The types, the shape of the thread queue, and that the semaphores of a
\* mailbox count what is in its ring.
TypeOK ==
    /\ Types /\ Queue
    /\ \A m \in Mbox : /\ sems[queued_msg(m)].counter = Counted(m)
                       /\ sems[free_msg(m)].counter = MBOXSLOTS - Counted(m)

\* Every buffer in use is that of one thread, which will put it back, so no page of
\* a request is replaced while somebody works on it (get_buffer and put_buffer,
\* net/serv.c), or it is lost: that happens only to the buffer of a request that got no
\* thread, for it had no page or there was no memory, and it is never handed out again.
BuffersAreOwned ==
    /\ \A v, w \in Live : v # w => args[v].req # args[w].req
    /\ \A w \in Live : args[w].req # ns.va /\ args[w].req \notin kept
    /\ ns.va \notin kept
    /\ buse = {args[w].req : w \in Live} \cup ({ns.va} \ {None}) \cup kept

\* When the main thread stops the server to wait for a message, no thread
\* could have gone on (the loop of serve() and the flag of sys_sem_signal()):
\* whatever has been done for it, its client has been told.
NoLostWakeup ==
    Receiving => \A t \in Live \cup {tcpip} : waits[t] # None /\ ~Down(Needs(t))

\* A call in lwIP's mailbox, or in its hands, or a write that it has not
\* finished, is in the frame of a thread that is still waiting for it: nobody
\* returns on the completion of another call on the same socket (tcpip_apimsg,
\* net/lwip/api/tcpip.c; do_writemore, net/lwip/api/api_msg.c).
CallsOutliveMessages ==
    \A w \in Worker :
        InMailbox(tcpip, w) \/ args[tcpip].whom = w \/ (\E s \in Socket : write_msg[s] = w)
            => pc[w] = "called"

\* A client whose data there is room for, to send or to finish a receive, is
\* answered, whatever the other threads wait for.
Calls(c) == \E w \in Live : args[w].whom = c /\ args[w].sock \notin Slow /\ pc[w] = "call"

SendsAreAnswered == \A c \in Client : Calls(c) ~> cl[c] = "idle"
=============================================================================
