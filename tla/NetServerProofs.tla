-------------------------- MODULE NetServerProofs --------------------------
(***************************************************************************)
(* Proofs about the network server for any number of workers, clients and  *)
(* sockets and mailboxes of any size.                                      *)
(*                                                                         *)
(* That nobody takes the completion of somebody else's call, and that no   *)
(* thread is left behind when the server stops to wait for a message, both *)
(* come from one fact about the whole server: after a message is taken     *)
(* there is at most one thing that can make the server go on, a Token,     *)
(* which passes from thread to thread until all of them wait (OneToken).   *)
(* RoundInv says in which round of thread_yield() it has come how far: the *)
(* loop of serve() ends because all is done and not because MaxYields      *)
(* rounds are over.                                                        *)
(***************************************************************************)
EXTENDS NetServer, FiniteSetTheorems, SequenceTheorems, TLAPS

Lwip   == Live \cup {tcpip}
q(m)   == sems[queued_msg(m)].counter
free(m) == sems[free_msg(m)].counter
done(s) == sems[<<"done", s>>].counter

\* A thread that has still to run before the main thread does.
Ahead(t) ==
    /\ t # main
    /\ \/ t = cur_tc
       \/ \E i, j \in DOMAIN thread_queue :
             i < j /\ thread_queue[i] = t /\ thread_queue[j] = main

\* The places of the threads.
MainInv ==
    /\ pc[main] \in {"flush", "recv", "got", "timer", "panic"}
    /\ cur_tc # main => pc[main] \in {"flush", "timer"}
    /\ waits[main] = None
    /\ pc[main] \in {"recv", "got", "timer"} <=> ns.va # None
    /\ pc[main] \in {"got", "timer"} <=> ns.msg # None
    /\ pc[main] \in {"recv", "got", "timer"} => ns.i = 0
    /\ pc[main] = "got" /\ ns.msg.op \notin {"timer", "bare"} =>
         /\ ns.msg.op \in {"send", "recv", "input", "ack"}
         /\ ns.msg.req = ns.va /\ ns.msg.sock \in Socket
         /\ ns.msg.op \in {"send", "recv"} =>
              ns.msg.whom \in Client /\ ns.msg.sock \in SocketsOf[ns.msg.whom]
         /\ ns.msg.op \in {"input", "ack"} => ns.msg.whom = None
         /\ ns.msg.op = "ack" => ns.msg.sock \in Slow
LwipInv ==
    /\ pc[tcpip] \in {"fetch", "serve"}
    /\ pc[tcpip] = "serve" => cur_tc = tcpip /\ waits[tcpip] = None /\ args[tcpip].whom \in Worker
    /\ pc[tcpip] = "fetch" => args[tcpip].whom = None
WorkerInv ==
    \A w \in Worker :
       /\ pc[w] \in {"fetch", "call", "called", "deliver", "ack", "reply", "halt", "none"}
       /\ pc[w] = "none" => waits[w] = None
       /\ pc[w] # "none" => args[w].sock \in Socket /\ args[w].req \in Buffer
       /\ pc[w] \in {"fetch", "call", "called", "reply"} =>
            args[w].whom \in Client /\ args[w].sock \in SocketsOf[args[w].whom]
       /\ pc[w] = "ack" => args[w].sock \in Slow

\* The ring of a mailbox: n messages from head on.
Offset(h, i) == IF i >= h THEN i - h ELSE i - h + MBOXSLOTS
Slots == 0..MBOXSLOTS - 1
RingInv ==
    \A m \in Mbox :
       /\ q(m) \in 0..MBOXSLOTS /\ free(m) = MBOXSLOTS - q(m)
       /\ mboxes[m].head = -1 <=> q(m) = 0
       /\ q(m) = 0 => \A i \in Slots : mboxes[m].msg[i] = None
       /\ q(m) > 0 => /\ IF q(m) = MBOXSLOTS THEN mboxes[m].nextq = mboxes[m].head
                         ELSE Offset(mboxes[m].head, mboxes[m].nextq) = q(m)
                      /\ \A i \in Slots :
                           mboxes[m].msg[i] # None <=> Offset(mboxes[m].head, i) < q(m)

\* Who waits was blocked on what he needs, and is woken when it is there.
WaitInv ==
    \A t \in Lwip :
       /\ waits[t] # None =>
            /\ Needs(t) \in Sem /\ waits[t].sem = Needs(t)
            /\ t \in tc_wakeup \/ (~Down(Needs(t)) /\ sems[Needs(t)].waiters = 1)
       /\ waits[t] = None => Ahead(t)

\* Nothing can go on.
Quiet == \A t \in Lwip : waits[t] # None /\ ~Down(Needs(t))
QuietInv == pc[main] \in {"recv", "got"} => cur_tc = main /\ Quiet

\* A client has one request, and is answered once.
For(c) == {w \in Live : args[w].whom = c /\ pc[w] # "halt"}
ClientInv ==
    \A c \in Client :
       /\ \A v, w \in For(c) : v = w
       /\ pc[main] = "got" /\ ns.msg.whom = c => For(c) = {} /\ cl[c] # "idle"
       /\ For(c) # {} => cl[c] # "idle"

\* The calls that lwIP has not answered.
InFlight(w) == InMailbox(tcpip, w) \/ args[tcpip].whom = w
Calling(s) == {w \in Worker : pc[w] = "called" /\ args[w].sock = s}
CallInv ==
    /\ q(tcpip) <= 1
    /\ \A i \in Slots : mboxes[tcpip].msg[i] \in Worker \cup {None}
    /\ \A w \in Worker : InFlight(w) => pc[w] = "called"
    /\ \A s \in Socket :
         /\ done(s) <= 1
         /\ done(s) = 1 => /\ \E w \in Calling(s) : TRUE
                           /\ \A v, w \in Calling(s) : v = w
         /\ write_msg[s] # None =>
              /\ s \in Slow /\ done(s) = 0
              /\ write_msg[s] \in Calling(s) /\ ~InFlight(write_msg[s])
         /\ \A w \in Calling(s) : InFlight(w) \/ write_msg[s] = w \/ done(s) = 1

\* What makes the server go on.
Receivers(s)  == {w \in Worker : pc[w] = "fetch" /\ args[w].sock = s}
Deliverers(s) == {w \in Worker : pc[w] = "deliver" /\ args[w].sock = s}
Kind == {"call", "queued", "serve", "done", "sock", "ack"}
Token(k, x) ==
    \/ k = "call" /\ x \in Worker /\ pc[x] = "call"
    \/ k = "queued" /\ x = tcpip /\ q(tcpip) > 0
    \/ k = "serve" /\ x = tcpip /\ pc[tcpip] = "serve"
    \/ k = "done" /\ x \in Socket /\ done(x) > 0
    \/ k = "sock" /\ x \in Socket /\ Receivers(x) # {} /\ (q(x) > 0 \/ Deliverers(x) # {})
    \/ k = "ack" /\ x \in Worker /\ pc[x] = "ack"
Thing == Worker \cup Socket \cup {tcpip}
OneToken ==
    \A k, l \in Kind, x, y \in Thing : Token(k, x) /\ Token(l, y) => k = l /\ x = y

\* If two wait for packets there is at most one.
PacketInv ==
    \A s \in Socket : \A v, w \in Receivers(s) : v # w =>
       /\ q(s) <= 1
       /\ q(s) = 1 => Deliverers(s) = {}
       /\ \A c, d \in Deliverers(s) : c = d

\* How far things are in each round.
RoundInv ==
    /\ \A w \in Worker : pc[w] = "call" => ns.i <= 1 /\ Ahead(w)
    /\ q(tcpip) > 0 => ns.i <= 1 \/ (ns.i <= 2 /\ Ahead(tcpip))
    /\ pc[tcpip] = "serve" => ns.i <= 2
    /\ \A s \in Socket :
         /\ done(s) > 0 => ns.i <= 2 \/ (ns.i <= 3 /\ \A w \in Calling(s) : Ahead(w))
         /\ Receivers(s) # {} /\ q(s) > 0 =>
              ns.i = 0 \/ (ns.i = 1 /\ \A w \in Receivers(s) : Ahead(w))
         /\ Receivers(s) # {} /\ q(s) = 0 =>
              \A w \in Deliverers(s) : ns.i = 0 /\ Ahead(w)
    /\ \A w \in Worker : pc[w] = "ack" => ns.i = 0 /\ Ahead(w)
    /\ \A t \in tc_wakeup : ns.i <= 3 \/ (ns.i <= 4 /\ Ahead(t))

-----------------------------------------------------------------------------
(* The queue. *)

LEMMA Names ==
    /\ main \in Thread /\ tcpip \in Thread /\ Worker \subseteq Thread
    /\ main # tcpip /\ main \notin Worker /\ tcpip \notin Worker
    /\ \A t \in Thread : t = main \/ t = tcpip \/ t \in Worker
    /\ None \notin Thread /\ None \notin Worker /\ None \notin Client /\ None \notin Socket
    /\ None \notin Sem /\ None \notin Buffer /\ None \notin Wait /\ None \notin Args
BY Constants DEF Buffer

\* The first of the queue runs next, and x goes to its end.
LEMMA Turn ==
    ASSUME NEW T, NEW s \in Seq(T), NEW c \in T, s # <<>>
    PROVE  /\ Head(Append(s, c)) = s[1]
           /\ Tail(Append(s, c)) \in Seq(T) /\ Len(Tail(Append(s, c))) = Len(s)
           /\ \A i \in 1..Len(s) - 1 : Tail(Append(s, c))[i] = s[i + 1]
           /\ Tail(Append(s, c))[Len(s)] = c
<1>1. Len(s) \in Nat /\ Len(s) >= 1
  OBVIOUS
<1>2. /\ Append(s, c) \in Seq(T) /\ Len(Append(s, c)) = Len(s) + 1
      /\ \A i \in 1..Len(s) : Append(s, c)[i] = s[i]
      /\ Append(s, c)[Len(s) + 1] = c
  BY <1>1
<1>3. Head(Append(s, c)) = Append(s, c)[1]
  BY <1>1, <1>2
<1>4. /\ Tail(Append(s, c)) \in Seq(T) /\ Len(Tail(Append(s, c))) = Len(s)
      /\ \A i \in 1..Len(s) : Tail(Append(s, c))[i] = Append(s, c)[i + 1]
  BY <1>1, <1>2
<1>. QED  BY <1>1, <1>2, <1>3, <1>4

\* The main thread, or who runs, is in the queue when another runs.
LEMMA NotEmpty ==
    ASSUME Queue
    PROVE  /\ Len(thread_queue) \in Nat /\ thread_queue # <<>> /\ Len(thread_queue) >= 1
           /\ DOMAIN thread_queue = 1..Len(thread_queue)
           /\ cur_tc \in Thread
           /\ \A i \in 1..Len(thread_queue) : thread_queue[i] \in Thread
<1>1. \E i \in DOMAIN thread_queue : TRUE
  <2>1. \E t \in Thread : t \in ({main, tcpip} \cup Live) \ {cur_tc}
    BY Names
  <2>. QED  BY <2>1 DEF Queue
<1>2. cur_tc \in Thread
  BY Names DEF Queue, Live
<1>. QED  BY <1>1, <1>2 DEF Queue

LEMMA YieldQueue ==
    ASSUME Queue, thread_yield
    PROVE  LET n == Len(thread_queue) IN
           /\ cur_tc' = thread_queue[1]
           /\ thread_queue' \in Seq(Thread)
           /\ DOMAIN thread_queue' = 1..n
           /\ \A i \in 1..n - 1 : thread_queue'[i] = thread_queue[i + 1]
           /\ thread_queue'[n] = cur_tc
<1>. DEFINE n == Len(thread_queue)
<1>1. thread_queue \in Seq(Thread) /\ thread_queue # <<>> /\ cur_tc \in Thread /\ n \in Nat
  BY NotEmpty DEF Queue
<1>2. cur_tc' = Head(Append(thread_queue, cur_tc)) /\ thread_queue' = Tail(Append(thread_queue, cur_tc))
  BY DEF thread_yield, RunNext
<1>3. /\ cur_tc' = thread_queue[1]
      /\ thread_queue' \in Seq(Thread) /\ Len(thread_queue') = n
      /\ \A i \in 1..n - 1 : thread_queue'[i] = thread_queue[i + 1]
      /\ thread_queue'[n] = cur_tc
  BY <1>1, <1>2, Turn
<1>. QED  BY <1>3

LEMMA YieldKeepsQueue ==
    ASSUME Queue, thread_yield, Live' = Live
    PROVE  Queue'
<1>. DEFINE n == Len(thread_queue)
            All == {main, tcpip} \cup Live
<1>1. /\ n \in Nat /\ n >= 1 /\ DOMAIN thread_queue = 1..n /\ cur_tc \in Thread
      /\ \A i \in 1..n : thread_queue[i] \in Thread
  BY NotEmpty
<1>2. /\ cur_tc' = thread_queue[1] /\ thread_queue' \in Seq(Thread) /\ DOMAIN thread_queue' = 1..n
      /\ \A i \in 1..n - 1 : thread_queue'[i] = thread_queue[i + 1]
      /\ thread_queue'[n] = cur_tc
  BY YieldQueue
<1>3. /\ \A t \in Thread : (\E i \in 1..n : thread_queue[i] = t) <=> t \in All \ {cur_tc}
      /\ \A i, j \in 1..n : thread_queue[i] = thread_queue[j] => i = j
      /\ cur_tc \in All
  BY <1>1 DEF Queue
<1>. HIDE DEF n, All
<1>4. cur_tc' \in All /\ cur_tc' # cur_tc
  BY <1>1, <1>2, <1>3
<1>5. \A i \in 1..n : thread_queue'[i] = IF i = n THEN cur_tc ELSE thread_queue[i + 1]
  <2>1. \A i \in 1..n : i # n => i \in 1..n - 1
    BY <1>1
  <2>. QED  BY <1>1, <1>2, <2>1
<1>6. ASSUME NEW t \in Thread
      PROVE  (\E i \in 1..n : thread_queue'[i] = t) <=> t \in All \ {cur_tc'}
  <2>1. ASSUME NEW i \in 1..n, thread_queue'[i] = t
        PROVE  t \in All \ {cur_tc'}
    <3>1. CASE i = n
      BY <3>1, <2>1, <1>3, <1>4, <1>5
    <3>2. CASE i # n
      <4>1. i + 1 \in 1..n /\ i + 1 # 1 /\ 1 \in 1..n
        BY <3>2, <1>1
      <4>2. t = thread_queue[i + 1] /\ t # thread_queue[1]
        BY <4>1, <2>1, <3>2, <1>3, <1>5
      <4>. QED  BY <4>1, <4>2, <1>2, <1>3
    <3>. QED  BY <3>1, <3>2
  <2>2. ASSUME t \in All \ {cur_tc'}
        PROVE  \E i \in 1..n : thread_queue'[i] = t
    <3>1. CASE t = cur_tc
      BY <3>1, <1>1, <1>5
    <3>2. CASE t # cur_tc
      <4>1. PICK i \in 1..n : thread_queue[i] = t
        BY <3>2, <2>2, <1>3
      <4>2. i # 1
        BY <4>1, <2>2, <1>2
      <4>3. i - 1 \in 1..n /\ i - 1 # n /\ (i - 1) + 1 = i
        BY <4>2, <1>1
      <4>. QED  BY <4>1, <4>3, <1>5
    <3>. QED  BY <3>1, <3>2
  <2>. QED  BY <2>1, <2>2
<1>7. ASSUME NEW i \in 1..n, NEW j \in 1..n, thread_queue'[i] = thread_queue'[j]
      PROVE  i = j
  <2>1. \A k \in 1..n : k # n => k + 1 \in 1..n /\ thread_queue'[k] = thread_queue[k + 1] /\ thread_queue[k + 1] # cur_tc
    <3>1. ASSUME NEW k \in 1..n, k # n
          PROVE  k + 1 \in 1..n
      BY <3>1, <1>1
    <3>. QED  BY <3>1, <1>1, <1>3, <1>5
  <2>2. CASE i = n
    BY <2>1, <2>2, <1>5, <1>7
  <2>3. CASE j = n
    BY <2>1, <2>3, <1>5, <1>7
  <2>4. CASE i # n /\ j # n
    <3>1. i + 1 = j + 1
      BY <2>1, <2>4, <1>3, <1>7
    <3>. QED  BY <3>1
  <2>. QED  BY <2>2, <2>3, <2>4
<1>. QED  BY <1>2, <1>4, <1>6, <1>7 DEF Queue, All

\* While the main thread runs nobody is ahead of it.
LEMMA Nobody ==
    ASSUME Queue, cur_tc = main, NEW t
    PROVE  ~Ahead(t)
<1>1. ~\E j \in DOMAIN thread_queue : thread_queue[j] = main
  BY Names DEF Queue
<1>. QED  BY <1>1 DEF Ahead

\* Who yields goes behind the main thread; the others stay where they are.
LEMMA YieldAhead ==
    ASSUME Queue, thread_yield, cur_tc # main, NEW t, Ahead(t), t # cur_tc
    PROVE  Ahead(t)'
<1>. DEFINE n == Len(thread_queue)
<1>1. /\ n \in Nat /\ n >= 1 /\ DOMAIN thread_queue = 1..n
  BY NotEmpty
<1>2. /\ cur_tc' = thread_queue[1] /\ DOMAIN thread_queue' = 1..n
      /\ \A i \in 1..n - 1 : thread_queue'[i] = thread_queue[i + 1]
  BY YieldQueue
<1>3. PICK i \in 1..n, j \in 1..n : i < j /\ thread_queue[i] = t /\ thread_queue[j] = main
  BY <1>1 DEF Ahead
<1>4. CASE i = 1
  BY <1>2, <1>3, <1>4 DEF Ahead
<1>5. CASE i # 1
  <2>1. i - 1 \in 1..n - 1 /\ j - 1 \in 1..n - 1 /\ i - 1 < j - 1 /\ (i - 1) + 1 = i /\ (j - 1) + 1 = j
        /\ i - 1 \in 1..n /\ j - 1 \in 1..n
    BY <1>1, <1>3, <1>5
  <2>2. thread_queue'[i - 1] = t /\ thread_queue'[j - 1] = main
    BY <2>1, <1>2, <1>3
  <2>. QED  BY <2>1, <2>2, <1>2 DEF Ahead
<1>. QED  BY <1>4, <1>5

\* When the main thread yields all the others go ahead of it.
LEMMA MainYields ==
    ASSUME Queue, thread_yield, cur_tc = main, NEW t \in Lwip
    PROVE  Ahead(t)'
<1>. DEFINE n == Len(thread_queue)
<1>1. /\ n \in Nat /\ n >= 1 /\ DOMAIN thread_queue = 1..n
  BY NotEmpty
<1>2. /\ cur_tc' = thread_queue[1] /\ DOMAIN thread_queue' = 1..n
      /\ \A i \in 1..n - 1 : thread_queue'[i] = thread_queue[i + 1]
      /\ thread_queue'[n] = main
  BY YieldQueue
<1>3. t \in Thread /\ t # main
  BY Names DEF Lwip, Live
<1>4. PICK i \in 1..n : thread_queue[i] = t
  BY <1>1, <1>3 DEF Queue, Lwip
<1>5. CASE i = 1
  BY <1>2, <1>3, <1>4, <1>5 DEF Ahead
<1>6. CASE i # 1
  <2>1. i - 1 \in 1..n - 1 /\ i - 1 < n /\ (i - 1) + 1 = i /\ i - 1 \in 1..n /\ n \in 1..n
    BY <1>1, <1>4, <1>6
  <2>2. thread_queue'[i - 1] = t
    BY <2>1, <1>2, <1>4
  <2>. QED  BY <2>1, <2>2, <1>2, <1>3 DEF Ahead
<1>. QED  BY <1>5, <1>6

LEMMA HaltQueue ==
    ASSUME Queue, thread_halt, cur_tc # main, cur_tc # tcpip, Live' = Live \ {cur_tc}
    PROVE  /\ Queue'
           /\ \A t : Ahead(t) /\ t # cur_tc => Ahead(t)'
<1>. DEFINE n == Len(thread_queue)
            All == {main, tcpip} \cup Live
<1>1. /\ n \in Nat /\ n >= 1 /\ DOMAIN thread_queue = 1..n /\ cur_tc \in Thread
      /\ \A i \in 1..n : thread_queue[i] \in Thread
  BY NotEmpty
<1>2. /\ cur_tc' = thread_queue[1] /\ thread_queue' \in Seq(Thread) /\ DOMAIN thread_queue' = 1..n - 1
      /\ \A i \in 1..n - 1 : thread_queue'[i] = thread_queue[i + 1]
  <2>1. thread_queue \in Seq(Thread) /\ thread_queue # <<>>
    BY NotEmpty DEF Queue
  <2>2. cur_tc' = Head(thread_queue) /\ thread_queue' = Tail(thread_queue)
    BY DEF thread_halt, RunNext
  <2>3. /\ Head(thread_queue) = thread_queue[1]
        /\ Tail(thread_queue) \in Seq(Thread) /\ Len(Tail(thread_queue)) = n - 1
        /\ \A i \in 1..n - 1 : Tail(thread_queue)[i] = thread_queue[i + 1]
    BY <2>1, <1>1
  <2>. QED  BY <2>2, <2>3
<1>3. /\ \A t \in Thread : (\E i \in 1..n : thread_queue[i] = t) <=> t \in All \ {cur_tc}
      /\ \A i, j \in 1..n : thread_queue[i] = thread_queue[j] => i = j
      /\ cur_tc \in All
  BY <1>1 DEF Queue
<1>4. ({main, tcpip} \cup Live') = All \ {cur_tc}
  OBVIOUS
<1>. HIDE DEF n, All
<1>5. \A i \in 1..n : i # 1 => i - 1 \in 1..n - 1 /\ (i - 1) + 1 = i
  BY <1>1
<1>6. \A i \in 1..n - 1 : i + 1 \in 1..n /\ i + 1 # 1 /\ i \in 1..n
  BY <1>1
<1>7. cur_tc' \in All \ {cur_tc} /\ 1 \in 1..n
  BY <1>1, <1>2, <1>3
<1>8. ASSUME NEW t \in Thread
      PROVE  (\E i \in 1..n - 1 : thread_queue'[i] = t) <=> t \in (All \ {cur_tc}) \ {cur_tc'}
  <2>1. ASSUME NEW i \in 1..n - 1, thread_queue'[i] = t
        PROVE  t \in (All \ {cur_tc}) \ {cur_tc'}
    BY <2>1, <1>2, <1>3, <1>6, <1>7
  <2>2. ASSUME t \in (All \ {cur_tc}) \ {cur_tc'}
        PROVE  \E i \in 1..n - 1 : thread_queue'[i] = t
    <3>1. PICK i \in 1..n : thread_queue[i] = t /\ i # 1
      BY <2>2, <1>2, <1>3
    <3>. QED  BY <3>1, <1>2, <1>5
  <2>. QED  BY <2>1, <2>2
<1>9. \A i, j \in 1..n - 1 : thread_queue'[i] = thread_queue'[j] => i = j
  <2>1. ASSUME NEW i \in 1..n - 1, NEW j \in 1..n - 1, thread_queue'[i] = thread_queue'[j]
        PROVE  i = j
    <3>1. i + 1 = j + 1
      BY <2>1, <1>2, <1>3, <1>6
    <3>. QED  BY <3>1, <1>1
  <2>. QED  BY <2>1
<1>10. Queue'
  BY <1>2, <1>4, <1>7, <1>8, <1>9 DEF Queue
<1>11. ASSUME NEW t, Ahead(t), t # cur_tc
       PROVE  Ahead(t)'
  <2>1. PICK i \in 1..n, j \in 1..n : t # main /\ i < j /\ thread_queue[i] = t /\ thread_queue[j] = main
    BY <1>11, <1>1 DEF Ahead, n
  <2>2. CASE i = 1
    BY <1>2, <2>1, <2>2 DEF Ahead
  <2>3. CASE i # 1
    <3>1. j # 1 /\ i - 1 < j - 1
      BY <1>1, <2>1, <2>3
    <3>2. thread_queue'[i - 1] = t /\ thread_queue'[j - 1] = main
      BY <2>1, <2>3, <3>1, <1>2, <1>5
    <3>. QED  BY <3>1, <3>2, <2>1, <2>3, <1>2, <1>5 DEF Ahead
  <2>. QED  BY <2>2, <2>3
<1>. QED  BY <1>10, <1>11

\* A new thread goes behind those in the queue, and the main thread behind it.
LEMMA CreateQueue ==
    ASSUME Queue, cur_tc = main, NEW w \in Worker \ Live, Live' = Live \cup {w}, CreateAndYield(w)
    PROVE  /\ Queue'
           /\ \A t \in Lwip' : Ahead(t)'
<1>. DEFINE n == Len(thread_queue)
            All == {main, tcpip} \cup Live
            long == thread_queue \o <<w, main>>
<1>1. /\ n \in Nat /\ n >= 1 /\ DOMAIN thread_queue = 1..n /\ main \in Thread /\ w \in Thread
      /\ \A i \in 1..n : thread_queue[i] \in Thread
  BY NotEmpty, Names
<1>2. /\ cur_tc' = thread_queue[1] /\ thread_queue' \in Seq(Thread) /\ DOMAIN thread_queue' = 1..n + 1
      /\ \A i \in 1..n - 1 : thread_queue'[i] = thread_queue[i + 1]
      /\ thread_queue'[n] = w /\ thread_queue'[n + 1] = main
  <2>1. thread_queue \in Seq(Thread)
    BY DEF Queue
  <2>2. cur_tc' = Head(long) /\ thread_queue' = Tail(long)
    BY DEF CreateAndYield, RunNext
  <2>3. <<w, main>> \in Seq(Thread) /\ Len(<<w, main>>) = 2 /\ <<w, main>>[1] = w /\ <<w, main>>[2] = main
    BY <1>1
  <2>4. /\ long \in Seq(Thread) /\ Len(long) = n + 2
        /\ \A i \in 1..n : long[i] = thread_queue[i]
        /\ long[n + 1] = w /\ long[n + 2] = main
    BY <2>1, <2>3, <1>1
  <2>. HIDE DEF long, n
  <2>5. /\ Head(long) = long[1] /\ Tail(long) \in Seq(Thread) /\ Len(Tail(long)) = n + 1
        /\ \A i \in 1..n + 1 : Tail(long)[i] = long[i + 1]
    BY <2>4, <1>1
  <2>6. DOMAIN Tail(long) = 1..n + 1 /\ Head(long) = thread_queue[1]
    BY <2>5, <2>4, <1>1
  <2>7. \A i \in 1..n - 1 : Tail(long)[i] = thread_queue[i + 1]
    BY <2>5, <2>4, <1>1
  <2>8. Tail(long)[n] = w /\ Tail(long)[n + 1] = main
    BY <2>5, <2>4, <1>1
  <2>. QED  BY <2>2, <2>5, <2>6, <2>7, <2>8 DEF long, n
<1>3. /\ \A t \in Thread : (\E i \in 1..n : thread_queue[i] = t) <=> t \in All \ {main}
      /\ \A i, j \in 1..n : thread_queue[i] = thread_queue[j] => i = j
  BY <1>1 DEF Queue
<1>4. ({main, tcpip} \cup Live') = All \cup {w} /\ w \notin All /\ w # main /\ main \in All
      /\ w \in Live'
  BY Names DEF Live
<1>. HIDE DEF n, All
<1>5. \A i \in 1..n : i # 1 => i - 1 \in 1..n - 1 /\ (i - 1) + 1 = i
  BY <1>1
<1>6. \A i \in 1..n - 1 : i + 1 \in 1..n /\ i + 1 # 1
  BY <1>1
<1>7. \A i \in 1..n + 1 : i \in 1..n - 1 \/ i = n \/ i = n + 1
  BY <1>1
<1>8. /\ 1..n - 1 \subseteq 1..n + 1 /\ n \in 1..n + 1 /\ n + 1 \in 1..n + 1 /\ 1 \in 1..n
      /\ n # n + 1 /\ n < n + 1 /\ \A i \in 1..n - 1 : i < n + 1
  BY <1>1
<1>9. cur_tc' \in All \ {main} /\ cur_tc' \in Thread
  BY <1>1, <1>2, <1>3, <1>8
<1>10. ASSUME NEW t \in Thread
       PROVE  (\E i \in 1..n + 1 : thread_queue'[i] = t) <=> t \in (All \cup {w}) \ {cur_tc'}
  <2>1. ASSUME NEW i \in 1..n + 1, thread_queue'[i] = t
        PROVE  t \in (All \cup {w}) \ {cur_tc'}
    <3>1. CASE i \in 1..n - 1
      BY <3>1, <2>1, <1>2, <1>3, <1>6, <1>8
    <3>2. CASE i = n
      BY <3>2, <2>1, <1>2, <1>4, <1>9
    <3>3. CASE i = n + 1
      BY <3>3, <2>1, <1>2, <1>4, <1>9
    <3>. QED  BY <3>1, <3>2, <3>3, <1>7
  <2>2. ASSUME t \in (All \cup {w}) \ {cur_tc'}
        PROVE  \E i \in 1..n + 1 : thread_queue'[i] = t
    <3>1. CASE t = w \/ t = main
      BY <3>1, <1>2, <1>8
    <3>2. CASE t # w /\ t # main
      <4>1. PICK i \in 1..n : thread_queue[i] = t /\ i # 1
        BY <2>2, <3>2, <1>2, <1>3
      <4>. QED  BY <4>1, <1>2, <1>5, <1>8
    <3>. QED  BY <3>1, <3>2
  <2>. QED  BY <2>1, <2>2
<1>11. ASSUME NEW i \in 1..n + 1, NEW j \in 1..n + 1, thread_queue'[i] = thread_queue'[j]
       PROVE  i = j
  <2>1. \A k \in 1..n - 1 : thread_queue'[k] \in All \ {main}
    BY <1>1, <1>2, <1>3, <1>6
  <2>2. CASE i \in 1..n - 1 /\ j \in 1..n - 1
    <3>1. i + 1 = j + 1
      BY <2>2, <1>2, <1>3, <1>6, <1>11
    <3>. QED  BY <3>1, <2>2, <1>1
  <2>3. CASE ~(i \in 1..n - 1 /\ j \in 1..n - 1)
    BY <2>1, <2>3, <1>2, <1>4, <1>7, <1>11
  <2>. QED  BY <2>2, <2>3
<1>12. Queue'
  BY <1>2, <1>4, <1>9, <1>10, <1>11 DEF Queue
<1>13. ASSUME NEW t \in Lwip'
       PROVE  Ahead(t)'
  <2>1. t \in (All \cup {w}) \ {main} /\ t \in Thread
    BY <1>4, <1>13, Names DEF Lwip, Live
  <2>2. CASE t = cur_tc'
    BY <2>1, <2>2, <1>4 DEF Ahead
  <2>3. CASE t # cur_tc'
    <3>1. PICK i \in 1..n + 1 : thread_queue'[i] = t
      BY <2>1, <2>3, <1>10
    <3>2. i # n + 1
      BY <3>1, <2>1, <1>2
    <3>3. i < n + 1
      BY <3>2, <1>7, <1>8
    <3>. QED  BY <3>1, <3>3, <2>1, <1>2, <1>8 DEF Ahead
  <2>. QED  BY <2>2, <2>3
<1>. QED  BY <1>12, <1>13

-----------------------------------------------------------------------------
(* The mailboxes. *)

LEMMA Wrap ==
    ASSUME NEW n \in Slots
    PROVE  (n + 1) % MBOXSLOTS = IF n + 1 = MBOXSLOTS THEN 0 ELSE n + 1
<1>1. MBOXSLOTS \in Nat /\ MBOXSLOTS > 0 /\ n \in Nat /\ n < MBOXSLOTS
  BY Constants DEF Slots
<1>2. CASE n + 1 = MBOXSLOTS
  BY <1>1, <1>2
<1>3. CASE n + 1 < MBOXSLOTS
  BY <1>1, <1>3
<1>. QED  BY <1>1, <1>2, <1>3

LEMMA RingAdd ==
    ASSUME NEW h \in Slots, NEW n \in Slots, NEW k \in 1..MBOXSLOTS - 1, Offset(h, n) = k
    PROVE  /\ k + 1 = MBOXSLOTS => (n + 1) % MBOXSLOTS = h
           /\ k + 1 # MBOXSLOTS => Offset(h, (n + 1) % MBOXSLOTS) = k + 1
           /\ \A i \in Slots : Offset(h, i) < k + 1 <=> Offset(h, i) < k \/ i = n
           /\ ~(Offset(h, n) < k)
<1>1. MBOXSLOTS \in Nat
  BY Constants
<1>. QED  BY <1>1, Wrap DEF Slots, Offset

LEMMA RingTake ==
    ASSUME NEW h \in Slots, NEW n \in Slots, NEW k \in 1..MBOXSLOTS,
           IF k = MBOXSLOTS THEN n = h ELSE Offset(h, n) = k
    PROVE  LET g == (h + 1) % MBOXSLOTS IN
           /\ k = 1 <=> g = n
           /\ g \in Slots /\ 0 # -1 /\ k - 1 # MBOXSLOTS
           /\ k # 1 => Offset(g, n) = k - 1
           /\ \A i \in Slots : k # 1 => (Offset(g, i) < k - 1 <=> Offset(h, i) < k /\ i # h)
           /\ \A i \in Slots : Offset(h, i) < 1 <=> i = h
           /\ Offset(h, h) < k
<1>1. MBOXSLOTS \in Nat
  BY Constants
<1>. QED  BY <1>1, Wrap DEF Slots, Offset

LEMMA Sems ==
    /\ tcpip \in Mbox /\ Socket \subseteq Mbox /\ tcpip \notin Socket
    /\ \A m \in Mbox : m = tcpip \/ m \in Socket
    /\ \A m \in Mbox : queued_msg(m) \in Sem /\ free_msg(m) \in Sem
    /\ \A s \in Socket : <<"done", s>> \in Sem
    /\ \A m, n : queued_msg(m) # free_msg(n) /\ queued_msg(m) # <<"done", n>> /\ free_msg(m) # <<"done", n>>
    /\ \A m, n : (queued_msg(m) = queued_msg(n) => m = n) /\ (free_msg(m) = free_msg(n) => m = n)
    /\ \A m, n : <<"done", m>> = <<"done", n>> => m = n
BY Constants DEF Sem, queued_msg, free_msg

LEMMA Counters ==
    ASSUME Types
    PROVE  /\ \A m \in Mbox : q(m) \in Nat /\ free(m) \in Nat
           /\ \A s \in Socket : done(s) \in Nat
           /\ \A m \in Mbox : mboxes[m].msg \in [Slots -> Worker \cup Socket \cup {None}]
           /\ MBOXSLOTS \in Nat \ {0}
BY Sems, Constants DEF Types, q, free, done, Slots

Counts ==
    \A m \in Mbox : /\ sems[queued_msg(m)].counter = Counted(m)
                    /\ sems[free_msg(m)].counter = MBOXSLOTS - Counted(m)

\* What a step on the semaphores and mailboxes leaves well formed.
Formed == /\ sems \in [Sem -> [counter : Nat, waiters : {0, 1}]]
          /\ mboxes \in [Mbox -> [head : -1..MBOXSLOTS - 1, nextq : 0..MBOXSLOTS - 1,
                                  msg : [0..MBOXSLOTS - 1 -> Worker \cup Socket \cup {None}]]]

LEMMA PostStep ==
    ASSUME Types, RingInv, Counts, NEW m \in Mbox, NEW x \in Worker \cup Socket, Post(m, x)
    PROVE  /\ Formed' /\ RingInv' /\ Counts'
           /\ q(m) < MBOXSLOTS
           /\ \A n \in Mbox : q(n)' = IF n = m THEN q(n) + 1 ELSE q(n)
           /\ \A n \in Mbox : free(n)' = IF n = m THEN free(n) - 1 ELSE free(n)
           /\ \A s \in Socket : done(s)' = done(s)
           /\ \A n \in Mbox : \A y : y # None =>
                (InMailbox(n, y)' <=> InMailbox(n, y) \/ (n = m /\ y = x))
           /\ \A s \in Sem : s # queued_msg(m) => sems'[s].waiters = sems[s].waiters
           /\ \A n \in Mbox, i \in Slots : mboxes'[n].msg[i] = mboxes[n].msg[i] \/ (n = m /\ mboxes'[n].msg[i] = x)
<1>. DEFINE b  == mboxes[m]
            k  == q(m)
            M  == MBOXSLOTS
            nx == (b.nextq + 1) % M
<1>1. /\ queued_msg(m) \in Sem /\ free_msg(m) \in Sem /\ queued_msg(m) # free_msg(m)
      /\ M \in Nat \ {0} /\ x # None
  BY Sems, Names, Counters
<1>2. /\ sems' = Signal(Lower(free_msg(m)), queued_msg(m))
      /\ free(m) > 0 /\ b.nextq # b.head
      /\ mboxes' = [mboxes EXCEPT ![m] = [head  |-> IF b.head = -1 THEN b.nextq ELSE b.head,
                                          nextq |-> nx,
                                          msg   |-> [b.msg EXCEPT ![b.nextq] = x]]]
  BY DEF Post, Down, free, Types
<1>3. /\ b \in [head : -1..M - 1, nextq : 0..M - 1, msg : [0..M - 1 -> Worker \cup Socket \cup {None}]]
      /\ sems \in [Sem -> [counter : Nat, waiters : {0, 1}]]
  BY DEF Types
<1>4. /\ sems' = [sems EXCEPT ![free_msg(m)] = [counter |-> free(m) - 1, waiters |-> @.waiters],
                              ![queued_msg(m)] = [counter |-> k + 1, waiters |-> 0]]
  <2>1. /\ sems[free_msg(m)] \in [counter : Nat, waiters : {0, 1}]
        /\ sems[queued_msg(m)] \in [counter : Nat, waiters : {0, 1}]
    BY <1>1, <1>3
  <2>2. [sems[free_msg(m)] EXCEPT !.counter = @ - 1] = [counter |-> free(m) - 1, waiters |-> sems[free_msg(m)].waiters]
    BY <2>1 DEF free
  <2>3. Lower(free_msg(m)) = [sems EXCEPT ![free_msg(m)] = [counter |-> free(m) - 1, waiters |-> @.waiters]]
    BY <2>2, <1>1, <1>3 DEF Lower
  <2>4. /\ Lower(free_msg(m))[queued_msg(m)] = sems[queued_msg(m)]
        /\ DOMAIN Lower(free_msg(m)) = Sem
    BY <2>3, <1>1, <1>3
  <2>5. sems' = [Lower(free_msg(m)) EXCEPT ![queued_msg(m)] = [counter |-> k + 1, waiters |-> 0]]
    BY <2>4, <1>1, <1>2 DEF Signal, q
  <2>. QED  BY <2>3, <2>5
<1>5. /\ k \in 0..M /\ free(m) = M - k
      /\ b.head = -1 <=> k = 0
      /\ k = 0 => \A i \in Slots : b.msg[i] = None
      /\ k > 0 => /\ IF k = M THEN b.nextq = b.head ELSE Offset(b.head, b.nextq) = k
                  /\ \A i \in Slots : b.msg[i] # None <=> Offset(b.head, i) < k
  BY DEF RingInv
<1>6. k < M /\ k \in Nat
  BY <1>1, <1>2, <1>5
<1>7. b.nextq \in Slots /\ nx \in Slots /\ b.msg[b.nextq] = None
  <2>1. b.nextq \in Slots
    BY <1>3 DEF Slots
  <2>2. nx \in Slots
    BY <2>1, <1>1, Wrap DEF Slots
  <2>3. b.msg[b.nextq] = None
    BY <2>1, <1>1, <1>5, <1>6
  <2>. QED  BY <2>1, <2>2, <2>3
<1>8. /\ \A n \in Mbox : q(n)' = IF n = m THEN q(n) + 1 ELSE q(n)
      /\ \A n \in Mbox : free(n)' = IF n = m THEN free(n) - 1 ELSE free(n)
      /\ \A s \in Socket : done(s)' = done(s)
  BY <1>1, <1>3, <1>4, Sems DEF q, free, done
<1>9. sems' \in [Sem -> [counter : Nat, waiters : {0, 1}]]
  <2>1. free(m) - 1 \in Nat /\ k + 1 \in Nat
    BY <1>1, <1>5, <1>6
  <2>. QED  BY <2>1, <1>1, <1>3, <1>4
<1>10. /\ mboxes' \in [Mbox -> [head : -1..M - 1, nextq : 0..M - 1, msg : [0..M - 1 -> Worker \cup Socket \cup {None}]]]
       /\ \A n \in Mbox : n # m => mboxes'[n] = mboxes[n]
       /\ mboxes'[m].head = (IF b.head = -1 THEN b.nextq ELSE b.head) /\ mboxes'[m].nextq = nx
       /\ mboxes'[m].msg = [b.msg EXCEPT ![b.nextq] = x]
  <2>1. [head |-> IF b.head = -1 THEN b.nextq ELSE b.head, nextq |-> nx, msg |-> [b.msg EXCEPT ![b.nextq] = x]]
          \in [head : -1..M - 1, nextq : 0..M - 1, msg : [0..M - 1 -> Worker \cup Socket \cup {None}]]
    BY <1>3, <1>7 DEF Slots
  <2>. QED  BY <2>1, <1>2 DEF Types
<1>11. \A i \in Slots : mboxes'[m].msg[i] = IF i = b.nextq THEN x ELSE b.msg[i]
  BY <1>3, <1>10 DEF Slots
<1>. HIDE DEF b, k, nx, M
<1>12. /\ IF k + 1 = M THEN mboxes'[m].nextq = mboxes'[m].head
          ELSE Offset(mboxes'[m].head, mboxes'[m].nextq) = k + 1
       /\ \A i \in Slots : mboxes'[m].msg[i] # None <=> Offset(mboxes'[m].head, i) < k + 1
       /\ mboxes'[m].head # -1
  <2>1. CASE k = 0
    <3>1. mboxes'[m].head = b.nextq /\ mboxes'[m].nextq = nx
      BY <2>1, <1>5, <1>10
    <3>2. /\ IF 1 = M THEN nx = b.nextq ELSE Offset(b.nextq, nx) = 1
          /\ \A i \in Slots : Offset(b.nextq, i) < 1 <=> i = b.nextq
          /\ b.nextq # -1
      BY <1>1, <1>7, Wrap DEF Slots, Offset, nx, M
    <3>3. \A i \in Slots : mboxes'[m].msg[i] # None <=> i = b.nextq
      BY <2>1, <1>1, <1>5, <1>11
    <3>. QED  BY <2>1, <3>1, <3>2, <3>3
  <2>2. CASE k # 0
    <3>1. b.head # -1 /\ b.head \in Slots /\ mboxes'[m].head = b.head /\ mboxes'[m].nextq = nx
      BY <2>2, <1>3, <1>5, <1>10 DEF Slots, b, M
    <3>2. k \in 1..M - 1 /\ Offset(b.head, b.nextq) = k /\ k > 0
      BY <2>2, <1>1, <1>5, <1>6
    <3>3. /\ k + 1 = M => nx = b.head
          /\ k + 1 # M => Offset(b.head, nx) = k + 1
          /\ \A i \in Slots : Offset(b.head, i) < k + 1 <=> Offset(b.head, i) < k \/ i = b.nextq
      BY <3>1, <3>2, <1>7, RingAdd DEF nx, M
    <3>4. \A i \in Slots : mboxes'[m].msg[i] # None <=> Offset(b.head, i) < k \/ i = b.nextq
      BY <3>2, <1>1, <1>5, <1>11
    <3>. QED  BY <3>1, <3>3, <3>4
  <2>. QED  BY <2>1, <2>2
<1>13. RingInv'
  <2>1. ASSUME NEW n \in Mbox, n # m
        PROVE  q(n)' = q(n) /\ free(n)' = free(n) /\ mboxes'[n] = mboxes[n]
    BY <2>1, <1>8, <1>10
  <2>2. q(m)' = k + 1 /\ k + 1 \in 0..M /\ k + 1 # 0 /\ k + 1 > 0
    BY <1>1, <1>6, <1>8 DEF k
  <2>3. free(m)' = M - (k + 1)
    BY <1>1, <1>5, <1>6, <1>8
  <2>4. ASSUME NEW n \in Mbox
        PROVE  /\ q(n)' \in 0..M /\ free(n)' = M - q(n)'
               /\ mboxes'[n].head = -1 <=> q(n)' = 0
               /\ q(n)' = 0 => \A i \in Slots : mboxes'[n].msg[i] = None
               /\ q(n)' > 0 => /\ IF q(n)' = M THEN mboxes'[n].nextq = mboxes'[n].head
                                  ELSE Offset(mboxes'[n].head, mboxes'[n].nextq) = q(n)'
                               /\ \A i \in Slots : mboxes'[n].msg[i] # None <=> Offset(mboxes'[n].head, i) < q(n)'
    <3>1. CASE n = m
      BY <3>1, <2>2, <2>3, <1>12
    <3>2. CASE n # m
      BY <3>2, <2>1 DEF RingInv, M
    <3>. QED  BY <3>1, <3>2
  <2>. QED  BY <2>4 DEF RingInv, M
<1>14. Counts'
  <2>1. \A n \in Mbox : n # m => Counted(n)' = Counted(n)
    BY <1>10 DEF Counted
  <2>2. Counted(m)' = Counted(m) + 1
    <3>. DEFINE S == {i \in 0..MBOXSLOTS - 1 : b.msg[i] # None}
    <3>1. {i \in 0..MBOXSLOTS - 1 : mboxes'[m].msg[i] # None} = S \cup {b.nextq}
      BY <1>1, <1>7, <1>11 DEF Slots
    <3>2. b.nextq \notin S
      BY <1>7
    <3>3. IsFiniteSet(S)
      <4>1. IsFiniteSet(0..MBOXSLOTS - 1)
        BY <1>1, FS_Interval DEF M
      <4>. QED  BY <4>1, FS_Subset
    <3>4. Cardinality(S \cup {b.nextq}) = Cardinality(S) + 1
      BY <3>2, <3>3, FS_AddElement
    <3>. QED  BY <3>1, <3>4 DEF Counted, b
  <2>3. q(m) = Counted(m) /\ free(m) = M - Counted(m)
    BY DEF Counts, q, free, M
  <2>. QED  BY <2>1, <2>2, <2>3, <1>1, <1>5, <1>6, <1>8 DEF Counts, q, free, k, M
<1>15. ASSUME NEW n \in Mbox, NEW y, y # None
       PROVE  InMailbox(n, y)' <=> InMailbox(n, y) \/ (n = m /\ y = x)
  <2>1. CASE n # m
    BY <2>1, <1>10 DEF InMailbox
  <2>2. CASE n = m
    BY <2>2, <1>7, <1>11, <1>15 DEF InMailbox, Slots, b
  <2>. QED  BY <2>1, <2>2
<1>16. \A s \in Sem : s # queued_msg(m) => sems'[s].waiters = sems[s].waiters
  BY <1>1, <1>3, <1>4
<1>17. \A n \in Mbox, i \in Slots : mboxes'[n].msg[i] = mboxes[n].msg[i] \/ (n = m /\ mboxes'[n].msg[i] = x)
  BY <1>10, <1>11 DEF b
<1>18. Formed'
  BY <1>9, <1>10 DEF Formed, M
<1>. QED  BY <1>6, <1>8, <1>13, <1>14, <1>15, <1>16, <1>17, <1>18 DEF k, M

LEMMA FetchStep ==
    ASSUME Types, RingInv, Counts, NEW m \in Mbox, NEW x, Fetch(m, x)
    PROVE  /\ Formed' /\ RingInv' /\ Counts'
           /\ q(m) > 0 /\ x # None /\ InMailbox(m, x)
           /\ \A n \in Mbox : q(n)' = IF n = m THEN q(n) - 1 ELSE q(n)
           /\ \A n \in Mbox : free(n)' = IF n = m THEN free(n) + 1 ELSE free(n)
           /\ \A s \in Socket : done(s)' = done(s)
           /\ \A n \in Mbox : \A y : n # m => (InMailbox(n, y)' <=> InMailbox(n, y))
           /\ q(m) = 1 => \A y : y # None => ~InMailbox(m, y)' /\ (InMailbox(m, y) => y = x)
           /\ \A s \in Sem : s # free_msg(m) => sems'[s].waiters = sems[s].waiters
           /\ \A n \in Mbox, i \in Slots : mboxes'[n].msg[i] = mboxes[n].msg[i] \/ (n = m /\ mboxes'[n].msg[i] = None)
<1>. DEFINE b  == mboxes[m]
            k  == q(m)
            M  == MBOXSLOTS
            hx == (b.head + 1) % M
<1>1. /\ queued_msg(m) \in Sem /\ free_msg(m) \in Sem /\ queued_msg(m) # free_msg(m)
      /\ M \in Nat \ {0}
  BY Sems, Names, Counters
<1>2. /\ sems' = Signal(Lower(queued_msg(m)), free_msg(m))
      /\ k > 0 /\ b.head # -1 /\ x = b.msg[b.head]
      /\ mboxes' = [mboxes EXCEPT ![m] = [head  |-> IF hx = b.nextq THEN -1 ELSE hx,
                                          nextq |-> b.nextq,
                                          msg   |-> [b.msg EXCEPT ![b.head] = None]]]
  BY DEF Fetch, Down, q, Types
<1>3. /\ b \in [head : -1..M - 1, nextq : 0..M - 1, msg : [0..M - 1 -> Worker \cup Socket \cup {None}]]
      /\ sems \in [Sem -> [counter : Nat, waiters : {0, 1}]]
  BY DEF Types
<1>4. /\ sems' = [sems EXCEPT ![queued_msg(m)] = [counter |-> k - 1, waiters |-> @.waiters],
                              ![free_msg(m)] = [counter |-> free(m) + 1, waiters |-> 0]]
  <2>1. /\ sems[free_msg(m)] \in [counter : Nat, waiters : {0, 1}]
        /\ sems[queued_msg(m)] \in [counter : Nat, waiters : {0, 1}]
    BY <1>1, <1>3
  <2>2. [sems[queued_msg(m)] EXCEPT !.counter = @ - 1] = [counter |-> k - 1, waiters |-> sems[queued_msg(m)].waiters]
    BY <2>1 DEF q
  <2>3. Lower(queued_msg(m)) = [sems EXCEPT ![queued_msg(m)] = [counter |-> k - 1, waiters |-> @.waiters]]
    BY <2>2, <1>1, <1>3 DEF Lower
  <2>4. /\ Lower(queued_msg(m))[free_msg(m)] = sems[free_msg(m)]
        /\ DOMAIN Lower(queued_msg(m)) = Sem
    BY <2>3, <1>1, <1>3
  <2>5. sems' = [Lower(queued_msg(m)) EXCEPT ![free_msg(m)] = [counter |-> free(m) + 1, waiters |-> 0]]
    BY <2>4, <1>1, <1>2 DEF Signal, free
  <2>. QED  BY <2>3, <2>5
<1>5. /\ k \in 0..M /\ free(m) = M - k
      /\ IF k = M THEN b.nextq = b.head ELSE Offset(b.head, b.nextq) = k
      /\ \A i \in Slots : b.msg[i] # None <=> Offset(b.head, i) < k
  BY <1>2 DEF RingInv
<1>6. k \in 1..M
  BY <1>1, <1>2, <1>5
<1>7. b.head \in Slots /\ b.nextq \in Slots
  BY <1>2, <1>3 DEF Slots
<1>8. /\ k = 1 <=> hx = b.nextq
      /\ hx \in Slots
      /\ k # 1 => Offset(hx, b.nextq) = k - 1
      /\ \A i \in Slots : k # 1 => (Offset(hx, i) < k - 1 <=> Offset(b.head, i) < k /\ i # b.head)
      /\ \A i \in Slots : Offset(b.head, i) < 1 <=> i = b.head
      /\ Offset(b.head, b.head) < k
  BY <1>5, <1>6, <1>7, RingTake
<1>9. /\ \A n \in Mbox : q(n)' = IF n = m THEN q(n) - 1 ELSE q(n)
      /\ \A n \in Mbox : free(n)' = IF n = m THEN free(n) + 1 ELSE free(n)
      /\ \A s \in Socket : done(s)' = done(s)
  BY <1>1, <1>3, <1>4, Sems DEF q, free, done
<1>10. sems' \in [Sem -> [counter : Nat, waiters : {0, 1}]]
  <2>1. free(m) + 1 \in Nat /\ k - 1 \in Nat
    BY <1>1, <1>5, <1>6
  <2>. QED  BY <2>1, <1>1, <1>3, <1>4
<1>11. /\ mboxes' \in [Mbox -> [head : -1..M - 1, nextq : 0..M - 1, msg : [0..M - 1 -> Worker \cup Socket \cup {None}]]]
       /\ \A n \in Mbox : n # m => mboxes'[n] = mboxes[n]
       /\ mboxes'[m].head = (IF hx = b.nextq THEN -1 ELSE hx) /\ mboxes'[m].nextq = b.nextq
       /\ mboxes'[m].msg = [b.msg EXCEPT ![b.head] = None]
  <2>. DEFINE new == [head |-> IF hx = b.nextq THEN -1 ELSE hx, nextq |-> b.nextq, msg |-> [b.msg EXCEPT ![b.head] = None]]
  <2>1. new \in [head : -1..M - 1, nextq : 0..M - 1, msg : [0..M - 1 -> Worker \cup Socket \cup {None}]]
    <3>1. hx \in 0..M - 1
      BY <1>8 DEF Slots
    <3>2. (IF hx = b.nextq THEN -1 ELSE hx) \in -1..M - 1
      BY <3>1, <1>1
    <3>. QED  BY <1>3, <3>2
  <2>4. mboxes' = [mboxes EXCEPT ![m] = new]
    BY <1>2
  <2>. HIDE DEF b, hx, M
  <2>5. DOMAIN mboxes = Mbox /\ mboxes \in [Mbox -> [head : -1..M - 1, nextq : 0..M - 1,
                                                   msg : [0..M - 1 -> Worker \cup Socket \cup {None}]]]
    BY DEF Types, M
  <2>6. mboxes'[m] = new /\ \A n \in Mbox : n # m => mboxes'[n] = mboxes[n]
    BY <2>4, <2>5
  <2>7. mboxes' \in [Mbox -> [head : -1..M - 1, nextq : 0..M - 1,
                            msg : [0..M - 1 -> Worker \cup Socket \cup {None}]]]
    BY <2>1, <2>4, <2>5
  <2>. QED  BY <2>6, <2>7
<1>12. \A i \in Slots : mboxes'[m].msg[i] = IF i = b.head THEN None ELSE b.msg[i]
  BY <1>3, <1>11 DEF Slots
<1>. HIDE DEF b, k, hx, M
<1>13. ASSUME k = 1
       PROVE  /\ mboxes'[m].head = -1
              /\ \A i \in Slots : mboxes'[m].msg[i] = None /\ (b.msg[i] # None <=> i = b.head)
  BY <1>13, <1>5, <1>8, <1>11, <1>12
<1>14. ASSUME k # 1
       PROVE  /\ mboxes'[m].head # -1 /\ Offset(mboxes'[m].head, mboxes'[m].nextq) = k - 1
              /\ \A i \in Slots : mboxes'[m].msg[i] # None <=> Offset(mboxes'[m].head, i) < k - 1
  <2>1. mboxes'[m].head = hx /\ mboxes'[m].nextq = b.nextq /\ hx # -1
    BY <1>14, <1>1, <1>8, <1>11 DEF Slots, M
  <2>2. \A i \in Slots : mboxes'[m].msg[i] # None <=> Offset(b.head, i) < k /\ i # b.head
    BY <1>5, <1>12
  <2>. QED  BY <2>1, <2>2, <1>8, <1>14
<1>15. RingInv'
  <2>1. ASSUME NEW n \in Mbox, n # m
        PROVE  q(n)' = q(n) /\ free(n)' = free(n) /\ mboxes'[n] = mboxes[n]
    BY <2>1, <1>9, <1>11
  <2>2. q(m)' = k - 1 /\ k - 1 \in 0..M /\ k - 1 # M /\ (k - 1 > 0 <=> k # 1) /\ (k - 1 = 0 <=> k = 1)
    BY <1>1, <1>6, <1>9 DEF k
  <2>3. free(m)' = M - (k - 1)
    BY <1>1, <1>5, <1>6, <1>9
  <2>4. ASSUME NEW n \in Mbox
        PROVE  /\ q(n)' \in 0..M /\ free(n)' = M - q(n)'
               /\ mboxes'[n].head = -1 <=> q(n)' = 0
               /\ q(n)' = 0 => \A i \in Slots : mboxes'[n].msg[i] = None
               /\ q(n)' > 0 => /\ IF q(n)' = M THEN mboxes'[n].nextq = mboxes'[n].head
                                  ELSE Offset(mboxes'[n].head, mboxes'[n].nextq) = q(n)'
                               /\ \A i \in Slots : mboxes'[n].msg[i] # None <=> Offset(mboxes'[n].head, i) < q(n)'
    <3>1. CASE n = m
      BY <3>1, <2>2, <2>3, <1>13, <1>14
    <3>2. CASE n # m
      BY <3>2, <2>1 DEF RingInv, M
    <3>. QED  BY <3>1, <3>2
  <2>. QED  BY <2>4 DEF RingInv, M
<1>16. b.msg[b.head] # None
  BY <1>5, <1>7, <1>8
<1>17. Counts'
  <2>1. \A n \in Mbox : n # m => Counted(n)' = Counted(n)
    BY <1>11 DEF Counted
  <2>2. Counted(m)' = Counted(m) - 1
    <3>. DEFINE S == {i \in 0..MBOXSLOTS - 1 : b.msg[i] # None}
    <3>1. {i \in 0..MBOXSLOTS - 1 : mboxes'[m].msg[i] # None} = S \ {b.head}
      BY <1>12 DEF Slots
    <3>2. b.head \in S
      BY <1>7, <1>16 DEF Slots
    <3>3. IsFiniteSet(S)
      <4>1. IsFiniteSet(0..MBOXSLOTS - 1)
        BY <1>1, FS_Interval DEF M
      <4>. QED  BY <4>1, FS_Subset
    <3>4. Cardinality(S \ {b.head}) = Cardinality(S) - 1
      BY <3>2, <3>3, FS_RemoveElement
    <3>. QED  BY <3>1, <3>4 DEF Counted, b
  <2>3. q(m) = Counted(m) /\ free(m) = M - Counted(m)
    BY DEF Counts, q, free, M
  <2>. QED  BY <2>1, <2>2, <2>3, <1>1, <1>5, <1>6, <1>9 DEF Counts, q, free, k, M
<1>18. ASSUME NEW n \in Mbox, n # m, NEW y
       PROVE  InMailbox(n, y)' <=> InMailbox(n, y)
  BY <1>18, <1>11 DEF InMailbox
<1>19. ASSUME k = 1, NEW y, y # None
       PROVE  ~InMailbox(m, y)' /\ (InMailbox(m, y) => y = x)
  BY <1>2, <1>13, <1>19 DEF InMailbox, Slots, b
<1>20. \A s \in Sem : s # free_msg(m) => sems'[s].waiters = sems[s].waiters
  BY <1>1, <1>3, <1>4
<1>21. \A n \in Mbox, i \in Slots : mboxes'[n].msg[i] = mboxes[n].msg[i] \/ (n = m /\ mboxes'[n].msg[i] = None)
  BY <1>11, <1>12 DEF b
<1>22. Formed'
  BY <1>10, <1>11 DEF Formed, M
<1>23. k > 0 /\ x # None /\ InMailbox(m, x)
  BY <1>2, <1>7, <1>16 DEF InMailbox, Slots, b
<1>. QED  BY <1>9, <1>15, <1>17, <1>18, <1>19, <1>20, <1>21, <1>22, <1>23 DEF k

-----------------------------------------------------------------------------
(* The types, the queue, the rings, the places and the buffers: what needs *)
(* no assumption on who uses which socket.                                 *)

BaseInv == Types /\ Queue /\ Counts /\ RingInv /\ MainInv /\ LwipInv /\ WorkerInv /\ BuffersAreOwned

LEMMA RingKept ==
    ASSUME RingInv, Counts, UNCHANGED <<sems, mboxes>>
    PROVE  RingInv' /\ Counts'
BY DEF RingInv, Counts, Counted, q, free

LEMMA QueueKept ==
    ASSUME Queue, UNCHANGED <<cur_tc, thread_queue>>, Live' = Live
    PROVE  Queue'
BY DEF Queue

\* Who runs goes on to p.
LEMMA Going ==
    ASSUME BaseInv, NEW p \in {"flush", "recv", "got", "timer", "panic", "fetch", "serve", "call",
                               "called", "deliver", "ack", "reply", "halt"}, Goto(p)
    PROVE  /\ pc' \in [Thread -> {"flush", "recv", "got", "timer", "panic", "fetch", "serve", "call",
                                  "called", "deliver", "ack", "reply", "halt", "none"}]
           /\ pc'[cur_tc] = p
           /\ \A t \in Thread : t # cur_tc => pc'[t] = pc[t]
           /\ Live' = Live
<1>1. /\ pc \in [Thread -> {"flush", "recv", "got", "timer", "panic", "fetch", "serve", "call",
                            "called", "deliver", "ack", "reply", "halt", "none"}]
      /\ cur_tc \in Thread /\ cur_tc \in {main, tcpip} \cup Live
  BY Names DEF BaseInv, Types, Queue, Live
<1>2. /\ pc' \in [Thread -> {"flush", "recv", "got", "timer", "panic", "fetch", "serve", "call",
                             "called", "deliver", "ack", "reply", "halt", "none"}]
      /\ pc'[cur_tc] = p
      /\ \A t \in Thread : t # cur_tc => pc'[t] = pc[t]
  BY <1>1 DEF Goto
<1>3. Live' = Live
  BY <1>1, <1>2, Names DEF Live
<1>. QED  BY <1>2, <1>3

\* The main thread has taken a message.
LEMMA MessageBase ==
    ASSUME BaseInv, Receiving, NEW m \in Args, Message(m), m # None,
           m.op \notin {"timer", "bare"} =>
             /\ m.op \in {"send", "recv", "input", "ack"}
             /\ m.req = ns.va /\ m.sock \in Socket
             /\ m.op \in {"send", "recv"} => m.whom \in Client /\ m.sock \in SocketsOf[m.whom]
             /\ m.op \in {"input", "ack"} => m.whom = None
             /\ m.op = "ack" => m.sock \in Slow,
           UNCHANGED <<tvars, args, write_msg, buse, kept>>, env_ipc_perm' \in BOOLEAN,
           cl' \in [Client -> {"idle", "sent", "wait"}], ns_timer' \in {"run", "wait"}
    PROVE  BaseInv'
<1>1. cur_tc = main /\ pc[main] = "recv" /\ Goto("got")
  BY DEF Receiving, Message, Goto
<1>2. /\ pc' \in [Thread -> {"flush", "recv", "got", "timer", "panic", "fetch", "serve", "call",
                             "called", "deliver", "ack", "reply", "halt", "none"}]
      /\ pc'[main] = "got" /\ Live' = Live
      /\ \A t \in Thread : t # main => pc'[t] = pc[t]
  BY <1>1, Going
<1>3. /\ ns' \in [va : Buffer \cup {None}, msg : Args \cup {None}, i : 0..MaxYields]
      /\ ns'.va = ns.va /\ ns'.msg = m /\ ns'.i = ns.i
  BY DEF Message, BaseInv, Types
<1>4. Types'
  BY <1>2, <1>3 DEF BaseInv, Types, tvars
<1>5. Queue' /\ RingInv' /\ Counts'
  BY <1>2, RingKept, QueueKept DEF BaseInv, tvars
<1>6. MainInv'
  BY <1>1, <1>2, <1>3 DEF BaseInv, MainInv, tvars
<1>7. LwipInv'
  BY <1>1, <1>2, Names DEF BaseInv, LwipInv, tvars
<1>8. WorkerInv'
  BY <1>1, <1>2, Names DEF BaseInv, WorkerInv, tvars
<1>9. BuffersAreOwned'
  BY <1>2, <1>3 DEF BaseInv, BuffersAreOwned
<1>. QED  BY <1>4, <1>5, <1>6, <1>7, <1>8, <1>9 DEF BaseInv

LEMMA RequestBase == ASSUME BaseInv, NEW c \in Client, Request(c) PROVE BaseInv'
<1>1. PICK op \in {"send", "recv"}, s \in SocketsOf[c] : Message([op |-> op, whom |-> c, sock |-> s, req |-> ns.va])
  BY DEF Request
<1>. DEFINE m == [op |-> op, whom |-> c, sock |-> s, req |-> ns.va]
<1>2. s \in Socket /\ ns.va \in Buffer \cup {None}
  BY Constants DEF BaseInv, Types
<1>3. m \in Args /\ m # None
  <2>1. m \in Args
    BY <1>2 DEF Args
  <2>. QED  BY <2>1, Names
<1>4. cl' \in [Client -> {"idle", "sent", "wait"}] /\ ns_timer' \in {"run", "wait"}
  BY DEF Request, BaseInv, Types
<1>5. env_ipc_perm' \in BOOLEAN
  BY DEF Request
<1>. QED  BY <1>1, <1>2, <1>3, <1>4, <1>5, MessageBase DEF Request

LEMMA BareRequestBase == ASSUME BaseInv, NEW c \in Client, BareRequest(c) PROVE BaseInv'
<1>. DEFINE m == [NoArgs EXCEPT !.op = "bare", !.whom = c]
<1>1. m \in Args /\ m.op = "bare"
  BY DEF Args, NoArgs
<1>2. m # None
  BY <1>1, Names
<1>3. cl' \in [Client -> {"idle", "sent", "wait"}] /\ ns_timer' \in {"run", "wait"}
  BY DEF BareRequest, BaseInv, Types
<1>. HIDE DEF m
<1>4. Message(m) /\ Receiving /\ UNCHANGED <<tvars, args, write_msg, buse, kept, env_ipc_perm>>
  BY DEF BareRequest, m
<1>5. env_ipc_perm' \in BOOLEAN
  BY <1>4 DEF BaseInv, Types
<1>. QED  BY <1>1, <1>2, <1>3, <1>4, <1>5, MessageBase

LEMMA InputBase == ASSUME BaseInv, NEW s \in Socket, Input(s) PROVE BaseInv'
<1>1. PICK op \in {"input"} \cup {"ack" : r \in {s} \cap Slow} :
        Message([op |-> op, whom |-> None, sock |-> s, req |-> ns.va])
  BY DEF Input
<1>. DEFINE m == [op |-> op, whom |-> None, sock |-> s, req |-> ns.va]
<1>2. ns.va \in Buffer \cup {None} /\ op \in {"input", "ack"} /\ (op = "ack" => s \in Slow)
  BY <1>1 DEF BaseInv, Types
<1>3. m \in Args /\ m # None
  <2>1. m \in Args
    BY <1>2 DEF Args
  <2>. QED  BY <2>1, Names
<1>4. cl' \in [Client -> {"idle", "sent", "wait"}] /\ ns_timer' \in {"run", "wait"}
  BY DEF Input, BaseInv, Types
<1>5. env_ipc_perm' \in BOOLEAN
  BY DEF Input
<1>. QED  BY <1>1, <1>2, <1>3, <1>4, <1>5, MessageBase DEF Input

LEMMA TickBase == ASSUME BaseInv, Tick PROVE BaseInv'
<1>. DEFINE m == [NoArgs EXCEPT !.op = "timer"]
<1>1. m \in Args /\ m.op = "timer"
  BY DEF Args, NoArgs
<1>2. m # None
  BY <1>1, Names
<1>3. cl' \in [Client -> {"idle", "sent", "wait"}] /\ ns_timer' \in {"run", "wait"}
  BY DEF Tick, BaseInv, Types
<1>. HIDE DEF m
<1>4. Message(m) /\ Receiving /\ UNCHANGED <<tvars, args, write_msg, buse, kept, env_ipc_perm>>
  BY DEF Tick, m
<1>5. env_ipc_perm' \in BOOLEAN
  BY <1>4 DEF BaseInv, Types
<1>. QED  BY <1>1, <1>2, <1>3, <1>4, <1>5, MessageBase

LEMMA AwaitBase == ASSUME BaseInv, NEW c \in Client, Await(c) PROVE BaseInv'
<1>1. Types' /\ Live' = Live
  BY DEF Await, BaseInv, Types, Live, tvars
<1>2. Queue' /\ RingInv' /\ Counts'
  BY <1>1, RingKept, QueueKept DEF BaseInv, Await, tvars
<1>3. MainInv' /\ LwipInv' /\ WorkerInv'
  BY DEF Await, BaseInv, MainInv, LwipInv, WorkerInv, tvars
<1>4. BuffersAreOwned'
  BY <1>1 DEF Await, BaseInv, BuffersAreOwned
<1>. QED  BY <1>1, <1>2, <1>3, <1>4 DEF BaseInv

LEMMA FlushBase == ASSUME BaseInv, Flush PROVE BaseInv'
<1>1. cur_tc = main /\ pc[main] = "flush" /\ ns.i < MaxYields /\ thread_yield
  BY DEF Flush
<1>2. ns' \in [va : Buffer \cup {None}, msg : Args \cup {None}, i : 0..MaxYields] /\ ns'.va = ns.va /\ ns'.msg = ns.msg
  <2>1. ns \in [va : Buffer \cup {None}, msg : Args \cup {None}, i : 0..MaxYields]
    BY DEF BaseInv, Types
  <2>2. ns.i + 1 \in 0..MaxYields /\ ns' = [ns EXCEPT !.i = ns.i + 1]
    BY <2>1, <1>1 DEF Flush, MaxYields
  <2>. QED  BY <2>1, <2>2
<1>3. Types' /\ Live' = Live
  BY <1>2 DEF Flush, BaseInv, Types, Live
<1>4. Queue'
  BY <1>1, <1>3, YieldKeepsQueue DEF BaseInv
<1>5. RingInv' /\ Counts'
  BY RingKept DEF Flush, BaseInv
<1>6. MainInv'
  BY <1>1, <1>2 DEF Flush, BaseInv, MainInv
<1>7. LwipInv'
  BY <1>1, Names DEF Flush, BaseInv, LwipInv
<1>8. WorkerInv' /\ BuffersAreOwned'
  BY <1>2, <1>3 DEF Flush, BaseInv, WorkerInv, BuffersAreOwned
<1>. QED  BY <1>3, <1>4, <1>5, <1>6, <1>7, <1>8 DEF BaseInv

LEMMA StartFacts ==
    /\ Start \in [va : Buffer \cup {None}, msg : Args \cup {None}, i : 0..MaxYields]
    /\ Start.va = None /\ Start.msg = None /\ Start.i = 0
BY DEF Start, MaxYields

LEMMA get_bufferBase == ASSUME BaseInv, get_buffer PROVE BaseInv'
<1>1. cur_tc = main /\ pc[main] = "flush"
  BY DEF get_buffer
<1>2. CASE buse = Buffer
  <2>1. Goto("panic") /\ UNCHANGED <<tvars, ns, buse, args, write_msg, cl, ns_timer, kept, env_ipc_perm>>
    BY <1>2 DEF get_buffer
  <2>2. /\ pc' \in [Thread -> {"flush", "recv", "got", "timer", "panic", "fetch", "serve", "call",
                               "called", "deliver", "ack", "reply", "halt", "none"}]
        /\ pc'[main] = "panic" /\ Live' = Live
        /\ \A t \in Thread : t # main => pc'[t] = pc[t]
    BY <1>1, <2>1, Going
  <2>3. Types' /\ Queue' /\ RingInv' /\ Counts'
    BY <2>1, <2>2, RingKept, QueueKept DEF BaseInv, Types, tvars
  <2>5. LwipInv' /\ WorkerInv'
    BY <1>1, <2>1, <2>2, Names DEF BaseInv, LwipInv, WorkerInv, tvars
  <2>6. BuffersAreOwned'
    BY <2>1, <2>2 DEF BaseInv, BuffersAreOwned
  <2>7. MainInv'
    BY <1>1, <2>1, <2>2 DEF BaseInv, MainInv, tvars
  <2>. QED  BY <2>3, <2>5, <2>6, <2>7 DEF BaseInv
<1>3. CASE buse # Buffer
  <2>1. PICK b \in Free : Goto("recv") /\ ns' = [Start EXCEPT !.va = b] /\ buse' = buse \cup {b}
    BY <1>3 DEF get_buffer
  <2>2. b \in Buffer /\ b \notin buse /\ b # None
    BY <2>1, Names DEF Free
  <2>3. UNCHANGED <<tvars, args, write_msg, cl, ns_timer, kept, env_ipc_perm>>
    BY DEF get_buffer
  <2>4. /\ pc' \in [Thread -> {"flush", "recv", "got", "timer", "panic", "fetch", "serve", "call",
                               "called", "deliver", "ack", "reply", "halt", "none"}]
        /\ pc'[main] = "recv" /\ Live' = Live
        /\ \A t \in Thread : t # main => pc'[t] = pc[t]
    BY <1>1, <2>1, Going
  <2>5. /\ ns' \in [va : Buffer \cup {None}, msg : Args \cup {None}, i : 0..MaxYields]
        /\ ns'.va = b /\ ns'.msg = None /\ ns'.i = 0
    BY <2>1, <2>2, StartFacts
  <2>6. Types' /\ Queue' /\ RingInv' /\ Counts'
    BY <2>1, <2>2, <2>3, <2>4, <2>5, RingKept, QueueKept DEF BaseInv, Types, tvars
  <2>7. LwipInv' /\ WorkerInv'
    BY <1>1, <2>3, <2>4, Names DEF BaseInv, LwipInv, WorkerInv, tvars
  <2>8. MainInv'
    BY <1>1, <2>2, <2>3, <2>4, <2>5 DEF BaseInv, MainInv, tvars
  <2>9. BuffersAreOwned'
    <3>1. ns.va = None
      BY <1>1 DEF BaseInv, MainInv, Types
    <3>2. /\ \A v, w \in Live : v # w => args[v].req # args[w].req
          /\ \A w \in Live : args[w].req \notin kept
          /\ buse = {args[w].req : w \in Live} \cup kept
      BY <3>1 DEF BaseInv, BuffersAreOwned
    <3>3. b \notin kept /\ \A w \in Live : args[w].req # b
      BY <2>2, <3>2
    <3>4. buse' = {args'[w].req : w \in Live'} \cup ({ns'.va} \ {None}) \cup kept'
      BY <2>1, <2>2, <2>3, <2>4, <2>5, <3>2
    <3>. QED  BY <2>3, <2>4, <2>5, <3>2, <3>3, <3>4 DEF BuffersAreOwned
  <2>. QED  BY <2>6, <2>7, <2>8, <2>9 DEF BaseInv
<1>. QED  BY <1>2, <1>3

LEMMA TimerYieldBase == ASSUME BaseInv, TimerYield PROVE BaseInv'
<1>1. cur_tc = main /\ pc[main] = "got" /\ Goto("timer") /\ thread_yield
  BY DEF TimerYield
<1>2. /\ pc' \in [Thread -> {"flush", "recv", "got", "timer", "panic", "fetch", "serve", "call",
                             "called", "deliver", "ack", "reply", "halt", "none"}]
      /\ pc'[main] = "timer" /\ Live' = Live
      /\ \A t \in Thread : t # main => pc'[t] = pc[t]
  BY <1>1, Going
<1>3. Queue' /\ RingInv' /\ Counts'
  BY <1>1, <1>2, YieldKeepsQueue, RingKept DEF TimerYield, BaseInv
<1>4. Types'
  BY <1>2 DEF TimerYield, BaseInv, Types
<1>5. LwipInv' /\ WorkerInv'
  BY <1>1, <1>2, Names DEF TimerYield, BaseInv, LwipInv, WorkerInv
<1>6. MainInv'
  BY <1>1, <1>2 DEF TimerYield, BaseInv, MainInv
<1>7. BuffersAreOwned'
  BY <1>2 DEF TimerYield, BaseInv, BuffersAreOwned
<1>. QED  BY <1>3, <1>4, <1>5, <1>6, <1>7 DEF BaseInv

LEMMA TimerAnswerBase == ASSUME BaseInv, TimerAnswer PROVE BaseInv'
<1>1. /\ cur_tc = main /\ pc[main] = "timer" /\ Goto("flush") /\ ns' = Start
      /\ buse' = buse \ {ns.va} /\ ns_timer' = "run"
      /\ UNCHANGED <<tvars, args, write_msg, cl, kept, env_ipc_perm>>
  BY DEF TimerAnswer
<1>2. /\ pc' \in [Thread -> {"flush", "recv", "got", "timer", "panic", "fetch", "serve", "call",
                             "called", "deliver", "ack", "reply", "halt", "none"}]
      /\ pc'[main] = "flush" /\ Live' = Live
      /\ \A t \in Thread : t # main => pc'[t] = pc[t]
  BY <1>1, Going
<1>3. Queue' /\ RingInv' /\ Counts'
  BY <1>1, <1>2, QueueKept, RingKept DEF BaseInv, tvars
<1>4. Types'
  BY <1>1, <1>2, StartFacts DEF BaseInv, Types, tvars
<1>5. LwipInv' /\ WorkerInv'
  BY <1>1, <1>2, Names DEF BaseInv, LwipInv, WorkerInv, tvars
<1>6. MainInv'
  BY <1>1, <1>2, StartFacts DEF BaseInv, MainInv, tvars
<1>7. BuffersAreOwned'
  <2>1. /\ \A v, w \in Live : v # w => args[v].req # args[w].req
        /\ buse = {args[w].req : w \in Live} \cup ({ns.va} \ {None}) \cup kept
        /\ \A w \in Live : args[w].req # ns.va /\ args[w].req \notin kept
        /\ ns.va # None /\ ns.va \notin kept
    BY <1>1 DEF BaseInv, BuffersAreOwned, MainInv
  <2>2. None \notin kept /\ \A w \in Live : args[w].req # None
    BY Names DEF BaseInv, WorkerInv, Types, Live
  <2>3. buse' = {args'[w].req : w \in Live'} \cup ({ns'.va} \ {None}) \cup kept'
    BY <1>1, <1>2, <2>1, StartFacts
  <2>. QED  BY <1>1, <1>2, <2>1, <2>2, <2>3, StartFacts DEF BuffersAreOwned
<1>. QED  BY <1>3, <1>4, <1>5, <1>6, <1>7 DEF BaseInv

\* There are as many workers as buffers, and the main thread has one.
LEMMA Spare == ASSUME BaseInv, ns.va # None PROVE NewWorker \in Worker \ Live
<1>1. \E w \in Worker : w \notin Live
  <2>1. SUFFICES ASSUME Live = Worker PROVE FALSE
    BY DEF Live
  <2>. DEFINE f == [w \in Worker |-> args[w].req]
              B == Buffer \ {ns.va}
  <2>2. ns.va \in Buffer /\ \A w \in Worker : args[w].req \in Buffer /\ args[w].req # ns.va
    BY <2>1 DEF BaseInv, Types, WorkerInv, BuffersAreOwned, Live
  <2>3. \A v, w \in Worker : args[v].req = args[w].req => v = w
    BY <2>1 DEF BaseInv, BuffersAreOwned
  <2>4. f \in Injection(Worker, B)
    BY <2>2, <2>3 DEF Injection, IsInjective
  <2>5. IsFiniteSet(Buffer) /\ Cardinality(Buffer) = QUEUE_SIZE /\ QUEUE_SIZE \in Nat
    BY Constants, FS_Interval DEF Buffer
  <2>6. IsFiniteSet(B) /\ Cardinality(B) = QUEUE_SIZE - 1
    BY <2>2, <2>5, FS_RemoveElement
  <2>. HIDE DEF f, B
  <2>7. Cardinality(Worker) <= Cardinality(B)
    BY <2>4, <2>6, FS_Injection
  <2>. QED  BY <2>5, <2>6, <2>7, Constants
<1>. QED  BY <1>1 DEF NewWorker

LEMMA SpawnFacts ==
    ASSUME BaseInv, Spawn
    PROVE  \E w \in Worker \ Live :
             /\ cur_tc = main /\ pc[main] = "got" /\ CreateAndYield(w)
             /\ ns.msg \in Args /\ ns.msg.op \in {"send", "recv", "input", "ack"} /\ ns.msg.sock \in Socket
             /\ ns.msg.req = ns.va /\ ns.va \in Buffer
             /\ ns.msg.op \in {"send", "recv"} => ns.msg.whom \in Client /\ ns.msg.sock \in SocketsOf[ns.msg.whom]
             /\ ns.msg.op \in {"input", "ack"} => ns.msg.whom = None
             /\ ns.msg.op = "ack" => ns.msg.sock \in Slow
             /\ Live' = Live \cup {w}
             /\ pc' \in [Thread -> {"flush", "recv", "got", "timer", "panic", "fetch", "serve", "call",
                                    "called", "deliver", "ack", "reply", "halt", "none"}]
             /\ pc'[main] = "flush"
             /\ pc'[w] = CASE ns.msg.op = "send" -> "call" [] ns.msg.op = "recv" -> "fetch"
                           [] ns.msg.op = "input" -> "deliver" [] ns.msg.op = "ack" -> "ack"
             /\ \A t \in Thread : t # main /\ t # w => pc'[t] = pc[t]
             /\ args' = [args EXCEPT ![w] = ns.msg]
<1>. DEFINE w == NewWorker
            place == [send |-> "call", recv |-> "fetch", input |-> "deliver", ack |-> "ack"]
<1>1. /\ cur_tc = main /\ pc[main] = "got" /\ ns.msg.op \notin {"timer", "bare"} /\ CreateAndYield(w)
      /\ args' = [args EXCEPT ![w] = ns.msg]
      /\ pc' = [pc EXCEPT ![main] = "flush", ![w] = place[ns.msg.op]]
  BY DEF Spawn
<1>2. /\ ns.msg \in Args /\ ns.msg.op \in {"send", "recv", "input", "ack"} /\ ns.msg.sock \in Socket
      /\ ns.msg.req = ns.va /\ ns.va \in Buffer /\ ns.va # None
      /\ ns.msg.op \in {"send", "recv"} => ns.msg.whom \in Client /\ ns.msg.sock \in SocketsOf[ns.msg.whom]
      /\ ns.msg.op \in {"input", "ack"} => ns.msg.whom = None
      /\ ns.msg.op = "ack" => ns.msg.sock \in Slow
  BY <1>1 DEF BaseInv, MainInv, Types
<1>3. w \in Worker \ Live
  BY <1>2, Spare
<1>. HIDE DEF w
<1>4. place["send"] = "call" /\ place["recv"] = "fetch" /\ place["input"] = "deliver" /\ place["ack"] = "ack"
  OBVIOUS
<1>5. place[ns.msg.op] \in {"call", "fetch", "deliver", "ack"}
  BY <1>2, <1>4
<1>6. place[ns.msg.op] = CASE ns.msg.op = "send" -> "call" [] ns.msg.op = "recv" -> "fetch"
                           [] ns.msg.op = "input" -> "deliver" [] ns.msg.op = "ack" -> "ack"
  BY <1>2, <1>4
<1>. HIDE DEF place
<1>7. pc \in [Thread -> {"flush", "recv", "got", "timer", "panic", "fetch", "serve", "call",
                         "called", "deliver", "ack", "reply", "halt", "none"}]
  BY DEF BaseInv, Types
<1>8. /\ pc' \in [Thread -> {"flush", "recv", "got", "timer", "panic", "fetch", "serve", "call",
                             "called", "deliver", "ack", "reply", "halt", "none"}]
      /\ pc'[main] = "flush" /\ pc'[w] = place[ns.msg.op]
      /\ \A t \in Thread : t # main /\ t # w => pc'[t] = pc[t]
  BY <1>1, <1>3, <1>5, <1>7, Names
<1>9. Live' = Live \cup {w}
  BY <1>3, <1>5, <1>8, Names DEF Live
<1>. QED  BY <1>1, <1>2, <1>3, <1>6, <1>8, <1>9

LEMMA SpawnBase == ASSUME BaseInv, Spawn PROVE BaseInv'
<1>1. PICK w \in Worker \ Live :
             /\ cur_tc = main /\ pc[main] = "got" /\ CreateAndYield(w)
             /\ ns.msg \in Args /\ ns.msg.op \in {"send", "recv", "input", "ack"} /\ ns.msg.sock \in Socket
             /\ ns.msg.req = ns.va /\ ns.va \in Buffer
             /\ ns.msg.op \in {"send", "recv"} => ns.msg.whom \in Client /\ ns.msg.sock \in SocketsOf[ns.msg.whom]
             /\ ns.msg.op \in {"input", "ack"} => ns.msg.whom = None
             /\ ns.msg.op = "ack" => ns.msg.sock \in Slow
             /\ Live' = Live \cup {w}
             /\ pc' \in [Thread -> {"flush", "recv", "got", "timer", "panic", "fetch", "serve", "call",
                                    "called", "deliver", "ack", "reply", "halt", "none"}]
             /\ pc'[main] = "flush"
             /\ pc'[w] = CASE ns.msg.op = "send" -> "call" [] ns.msg.op = "recv" -> "fetch"
                           [] ns.msg.op = "input" -> "deliver" [] ns.msg.op = "ack" -> "ack"
             /\ \A t \in Thread : t # main /\ t # w => pc'[t] = pc[t]
             /\ args' = [args EXCEPT ![w] = ns.msg]
  BY SpawnFacts
<1>2. ns' = Start /\ UNCHANGED <<waits, tc_wakeup, sems, mboxes, write_msg, buse, cl, ns_timer, kept, env_ipc_perm>>
  BY DEF Spawn
<1>3. /\ args' \in [Thread -> Args] /\ args'[w] = ns.msg
      /\ \A t \in Thread : t # w => args'[t] = args[t]
  BY <1>1, Names DEF BaseInv, Types
<1>4. Types'
  BY <1>1, <1>2, <1>3, StartFacts DEF BaseInv, Types
<1>5. Queue' /\ RingInv' /\ Counts'
  BY <1>1, <1>2, CreateQueue, RingKept DEF BaseInv
<1>6. MainInv'
  BY <1>1, <1>2, StartFacts DEF BaseInv, MainInv
<1>7. LwipInv'
  BY <1>1, <1>2, <1>3, Names DEF BaseInv, LwipInv
<1>8. WorkerInv'
  <2>1. ASSUME NEW v \in Worker, v # w
        PROVE  pc'[v] = pc[v] /\ args'[v] = args[v] /\ waits'[v] = waits[v]
    BY <2>1, <1>1, <1>2, <1>3, Names
  <2>2. /\ pc'[w] \in {"call", "fetch", "deliver", "ack"}
        /\ pc'[w] \in {"call", "fetch"} => ns.msg.op \in {"send", "recv"}
        /\ pc'[w] = "ack" => ns.msg.op = "ack"
    BY <1>1
  <2>. QED  BY <2>1, <2>2, <1>1, <1>3 DEF BaseInv, WorkerInv
<1>9. BuffersAreOwned'
  <2>1. /\ \A v, u \in Live : v # u => args[v].req # args[u].req
        /\ buse = {args[v].req : v \in Live} \cup {ns.va} \cup kept
        /\ \A v \in Live : args[v].req # ns.va /\ args[v].req \notin kept
        /\ ns.va \notin kept /\ None \notin kept
    BY <1>1, Names DEF BaseInv, BuffersAreOwned, Types
  <2>2. /\ args'[w].req = ns.va
        /\ \A v \in Live : args'[v] = args[v] /\ v # w
    BY <1>1, <1>3, Names DEF Live
  <2>3. \A v, u \in Live' : v # u => args'[v].req # args'[u].req
    BY <2>1, <2>2, <1>1
  <2>4. {args'[v].req : v \in Live'} = {args[v].req : v \in Live} \cup {ns.va}
    BY <2>2, <1>1
  <2>6. \A v \in Live' : args'[v].req \notin kept
    BY <2>1, <2>2, <1>1
  <2>5. \A v \in Live' : args'[v].req # None
    <3>1. \A v \in Live : args[v].req # None
      BY Names DEF BaseInv, WorkerInv, Live
    <3>. QED  BY <3>1, <2>2, <1>1, Names
  <2>. QED  BY <2>1, <2>3, <2>4, <2>5, <2>6, <1>2, StartFacts DEF BuffersAreOwned
<1>. QED  BY <1>4, <1>5, <1>6, <1>7, <1>8, <1>9 DEF BaseInv

\* The message is dropped, and its buffer is lost.
LEMMA DropBase ==
    ASSUME BaseInv, cur_tc = main, pc[main] = "got", NEW p \in {"flush", "panic"}, Goto(p),
           kept' = kept \cup {ns.va}, ns' = Start,
           UNCHANGED <<waits, tc_wakeup, sems, mboxes, args, write_msg, buse, cl, ns_timer, env_ipc_perm>>,
           \/ UNCHANGED <<cur_tc, thread_queue>>
           \/ thread_yield /\ p = "flush"
    PROVE  BaseInv'
<1>1. /\ pc' \in [Thread -> {"flush", "recv", "got", "timer", "panic", "fetch", "serve", "call",
                             "called", "deliver", "ack", "reply", "halt", "none"}]
      /\ pc'[main] = p /\ Live' = Live
      /\ \A t \in Thread : t # main => pc'[t] = pc[t]
  BY Going
<1>2. ns.va # None /\ ns.va \in Buffer
  BY DEF BaseInv, MainInv, Types
<1>3. Queue' /\ RingInv' /\ Counts'
  BY <1>1, YieldKeepsQueue, QueueKept, RingKept DEF BaseInv
<1>4. Types'
  BY <1>1, <1>2, StartFacts DEF BaseInv, Types
<1>5. LwipInv' /\ WorkerInv'
  BY <1>1, Names DEF BaseInv, LwipInv, WorkerInv
<1>6. MainInv'
  BY <1>1, StartFacts DEF BaseInv, MainInv
<1>7. BuffersAreOwned'
  <2>1. /\ \A v, w \in Live : v # w => args[v].req # args[w].req
        /\ buse = {args[w].req : w \in Live} \cup {ns.va} \cup kept
        /\ \A w \in Live : args[w].req # ns.va /\ args[w].req \notin kept
    BY <1>2 DEF BaseInv, BuffersAreOwned
  <2>2. \A w \in Live : args[w].req # None
    BY Names DEF BaseInv, WorkerInv, Live
  <2>3. None \notin kept'
    BY <1>2, Names DEF BaseInv, Types
  <2>4. buse' = {args'[w].req : w \in Live'} \cup ({ns'.va} \ {None}) \cup kept'
    BY <1>1, <2>1, StartFacts
  <2>. QED  BY <1>1, <2>1, <2>2, <2>3, <2>4, StartFacts DEF BuffersAreOwned
<1>. QED  BY <1>3, <1>4, <1>5, <1>6, <1>7 DEF BaseInv

LEMMA UnpagedBase == ASSUME BaseInv, Unpaged PROVE BaseInv'
<1>1. PICK p \in {"flush", "panic"} : Goto(p)
  BY DEF Unpaged
<1>2. /\ cur_tc = main /\ pc[main] = "got" /\ kept' = kept \cup {ns.va} /\ ns' = Start
      /\ UNCHANGED <<cur_tc, thread_queue, waits, tc_wakeup, sems, mboxes, args, write_msg, buse, cl, ns_timer, env_ipc_perm>>
  BY DEF Unpaged, tvars
<1>. QED  BY <1>1, <1>2, DropBase

LEMMA ThreadFailsBase == ASSUME BaseInv, ThreadFails PROVE BaseInv'
<1>1. /\ cur_tc = main /\ pc[main] = "got" /\ kept' = kept \cup {ns.va} /\ ns' = Start
      /\ UNCHANGED <<waits, tc_wakeup, sems, mboxes, args, write_msg, buse, cl, ns_timer, env_ipc_perm>>
  BY DEF ThreadFails, tvars
<1>2. CASE Goto("panic") /\ UNCHANGED tvars
  BY <1>1, <1>2, DropBase DEF tvars
<1>3. CASE Goto("flush") /\ thread_yield
  BY <1>1, <1>3, DropBase
<1>. QED  BY <1>2, <1>3 DEF ThreadFails

LEMMA Runner ==
    ASSUME BaseInv
    PROVE  /\ cur_tc \in Thread /\ (cur_tc # main => cur_tc \in Lwip)
           /\ Lwip \subseteq Thread /\ tcpip \in Lwip /\ main \notin Lwip
           /\ \A w \in Worker : w \in Lwip <=> pc[w] # "none"
           /\ \A t \in Lwip : t = tcpip \/ (t \in Worker /\ t # tcpip)
BY Names DEF BaseInv, Queue, Lwip, Live

LEMMA NeedsAre ==
    ASSUME BaseInv
    PROVE  /\ pc[tcpip] = "fetch" => Needs(tcpip) = queued_msg(tcpip)
           /\ \A w \in Worker : pc[w] = "fetch" => Needs(w) = queued_msg(args[w].sock)
           /\ \A w \in Worker : pc[w] = "call" => Needs(w) = free_msg(tcpip)
           /\ \A w \in Worker : pc[w] = "called" => Needs(w) = <<"done", args[w].sock>>
           /\ \A w \in Worker : pc[w] = "deliver" => Needs(w) = free_msg(args[w].sock)
           /\ \A t \in Lwip : pc[t] \notin {"fetch", "call", "called", "deliver"} => Needs(t) = None
           /\ \A t \in Lwip : Needs(t) # None => Needs(t) \in Sem /\ pc[t] \in {"fetch", "call", "called", "deliver"}
           /\ \A t \in Lwip : pc[t] \in {"fetch", "call", "called", "deliver"} => Needs(t) \in Sem /\ Needs(t) # None
<1>1. /\ \A w \in Worker : w # tcpip
      /\ \A w \in Worker : pc[w] # "none" => args[w].sock \in Socket
      /\ pc[tcpip] \in {"fetch", "serve"}
  BY Names DEF BaseInv, WorkerInv, LwipInv
<1>2. /\ pc[tcpip] = "fetch" => Needs(tcpip) = queued_msg(tcpip)
      /\ pc[tcpip] # "fetch" => Needs(tcpip) = None
  BY <1>1 DEF Needs
<1>3. ASSUME NEW w \in Worker
      PROVE  /\ pc[w] = "fetch" => Needs(w) = queued_msg(args[w].sock)
             /\ pc[w] = "call" => Needs(w) = free_msg(tcpip)
             /\ pc[w] = "called" => Needs(w) = <<"done", args[w].sock>>
             /\ pc[w] = "deliver" => Needs(w) = free_msg(args[w].sock)
             /\ pc[w] \notin {"fetch", "call", "called", "deliver"} => Needs(w) = None
  BY <1>1, <1>3 DEF Needs
<1>4. ASSUME NEW t \in Lwip
      PROVE  /\ pc[t] \notin {"fetch", "call", "called", "deliver"} => Needs(t) = None
             /\ pc[t] \in {"fetch", "call", "called", "deliver"} => Needs(t) \in Sem /\ Needs(t) # None
  <2>1. None \notin Sem
    BY Names
  <2>2. CASE t = tcpip
    BY <2>1, <2>2, <1>1, <1>2, Sems
  <2>3. CASE t # tcpip
    <3>1. t \in Worker /\ pc[t] # "none"
      BY <2>3, Runner
    <3>2. args[t].sock \in Socket /\ args[t].sock \in Mbox /\ tcpip \in Mbox
      BY <3>1, <1>1, Sems
    <3>. QED  BY <2>1, <3>1, <3>2, <1>3, Sems
  <2>. QED  BY <2>2, <2>3
<1>. QED  BY <1>2, <1>3, <1>4

\* What a thread that waits does to the semaphores.
LEMMA BlockStep ==
    ASSUME BaseInv, NEW s \in Sem, cur_tc # main, Block(s)
    PROVE  /\ sems' \in [Sem -> [counter : Nat, waiters : {0, 1}]]
           /\ \A r \in Sem : sems'[r].counter = sems[r].counter
           /\ \A r \in Sem : sems'[r].waiters = IF r = s THEN 1 ELSE sems[r].waiters
           /\ waits' \in [Thread -> {None} \cup Wait]
           /\ waits'[cur_tc] # None /\ waits'[cur_tc].sem = s
           /\ \A t \in Thread : t # cur_tc => waits'[t] = waits[t]
           /\ tc_wakeup' = tc_wakeup \ {cur_tc}
           /\ thread_yield /\ UNCHANGED mboxes /\ ~Down(s)
<1>1. sems[s] \in [counter : Nat, waiters : {0, 1}] /\ sems \in [Sem -> [counter : Nat, waiters : {0, 1}]]
  BY DEF BaseInv, Types
<1>2. sems' = [sems EXCEPT ![s] = [sems[s] EXCEPT !.waiters = 1]]
  BY DEF Block
<1>3. [sems[s] EXCEPT !.waiters = 1] = [counter |-> sems[s].counter, waiters |-> 1]
  BY <1>1
<1>4. /\ sems' \in [Sem -> [counter : Nat, waiters : {0, 1}]]
      /\ \A r \in Sem : sems'[r].counter = sems[r].counter
      /\ \A r \in Sem : sems'[r].waiters = IF r = s THEN 1 ELSE sems[r].waiters
  BY <1>1, <1>2, <1>3
<1>. DEFINE x == [sem |-> s, val |-> [sems[s] EXCEPT !.waiters = 1]]
<1>5. x \in Wait /\ x # None /\ x.sem = s
  BY <1>1, <1>3, Names DEF Wait
<1>6. waits \in [Thread -> {None} \cup Wait] /\ cur_tc \in Thread
  BY Runner DEF BaseInv, Types
<1>7. waits' = [waits EXCEPT ![cur_tc] = x]
  BY DEF Block
<1>. HIDE DEF x
<1>8. waits' \in [Thread -> {None} \cup Wait] /\ waits'[cur_tc] = x
      /\ \A t \in Thread : t # cur_tc => waits'[t] = waits[t]
  BY <1>5, <1>6, <1>7
<1>. QED  BY <1>4, <1>5, <1>8 DEF Block

LEMMA RingCounters ==
    ASSUME RingInv, Counts, UNCHANGED mboxes, \A m \in Mbox : q(m)' = q(m) /\ free(m)' = free(m)
    PROVE  RingInv' /\ Counts'
<1>1. Counts'
  BY DEF Counts, Counted, q, free
<1>2. RingInv'
  BY DEF RingInv
<1>. QED  BY <1>1, <1>2

LEMMA SemWaitBase == ASSUME BaseInv, SemWait PROVE BaseInv'
<1>1. /\ cur_tc # main /\ waits[cur_tc] = None /\ Needs(cur_tc) # None /\ Block(Needs(cur_tc))
      /\ UNCHANGED <<pc, args, write_msg, buse, ns, cl, ns_timer, kept, env_ipc_perm>>
  BY DEF SemWait
<1>2. cur_tc \in Lwip /\ Needs(cur_tc) \in Sem /\ pc[cur_tc] \in {"fetch", "call", "called", "deliver"}
  BY <1>1, Runner, NeedsAre
<1>3. /\ sems' \in [Sem -> [counter : Nat, waiters : {0, 1}]]
      /\ \A r \in Sem : sems'[r].counter = sems[r].counter
      /\ waits' \in [Thread -> {None} \cup Wait]
      /\ waits'[cur_tc] # None
      /\ \A t \in Thread : t # cur_tc => waits'[t] = waits[t]
      /\ tc_wakeup' = tc_wakeup \ {cur_tc}
      /\ thread_yield /\ UNCHANGED mboxes
  BY <1>1, <1>2, BlockStep
<1>4. Types' /\ Live' = Live
  BY <1>1, <1>3 DEF BaseInv, Types, Live
<1>5. Queue'
  BY <1>3, <1>4, YieldKeepsQueue DEF BaseInv
<1>6. RingInv' /\ Counts'
  <2>1. \A m \in Mbox : q(m)' = q(m) /\ free(m)' = free(m)
    BY <1>3, Sems DEF q, free
  <2>. QED  BY <2>1, <1>3, RingCounters DEF BaseInv
<1>7. MainInv'
  BY <1>1, <1>3, Names DEF BaseInv, MainInv
<1>8. LwipInv'
  BY <1>1, <1>2, <1>3, Names DEF BaseInv, LwipInv
<1>9. WorkerInv'
  BY <1>1, <1>2, <1>3, Names DEF BaseInv, WorkerInv
<1>10. BuffersAreOwned'
  BY <1>1, <1>4 DEF BaseInv, BuffersAreOwned
<1>. QED  BY <1>4, <1>5, <1>6, <1>7, <1>8, <1>9, <1>10 DEF BaseInv

LEMMA ThreadWaitBase == ASSUME BaseInv, ThreadWait PROVE BaseInv'
<1>1. /\ waits[cur_tc] # None /\ UNCHANGED <<sems, mboxes, pc, args, write_msg, buse, ns, cl, ns_timer, kept, env_ipc_perm>>
      /\ IF Over THEN /\ waits' = [waits EXCEPT ![cur_tc] = None] /\ tc_wakeup' = tc_wakeup \ {cur_tc}
                      /\ UNCHANGED <<cur_tc, thread_queue>>
         ELSE thread_yield /\ UNCHANGED <<waits, tc_wakeup>>
  BY DEF ThreadWait, Poll
<1>2. cur_tc # main
  BY <1>1 DEF BaseInv, MainInv
<1>3. cur_tc \in Lwip /\ cur_tc \in Thread
  BY <1>2, Runner
<1>4. /\ waits' \in [Thread -> {None} \cup Wait]
      /\ \A t \in Thread : t # cur_tc => waits'[t] = waits[t]
      /\ waits'[cur_tc] \in {None, waits[cur_tc]}
      /\ tc_wakeup' \subseteq {t \in Thread : waits'[t] # None}
  BY <1>1, <1>3 DEF BaseInv, Types
<1>5. Types' /\ Live' = Live
  BY <1>1, <1>4 DEF BaseInv, Types, Live
<1>6. Queue'
  BY <1>1, <1>5, YieldKeepsQueue, QueueKept DEF BaseInv
<1>7. RingInv' /\ Counts'
  BY <1>1, RingKept DEF BaseInv
<1>8. pc[tcpip] # "serve"
  BY <1>1 DEF BaseInv, LwipInv
<1>9. MainInv'
  BY <1>1, <1>2, <1>4, Names DEF BaseInv, MainInv
<1>10. LwipInv'
  BY <1>1, <1>8 DEF BaseInv, LwipInv
<1>11. WorkerInv'
  BY <1>1, <1>4, Names DEF BaseInv, WorkerInv
<1>12. BuffersAreOwned'
  BY <1>1, <1>5 DEF BaseInv, BuffersAreOwned
<1>. QED  BY <1>5, <1>6, <1>7, <1>9, <1>10, <1>11, <1>12 DEF BaseInv

\* A thread that goes on while it has the processor.
LEMMA StepBase ==
    ASSUME BaseInv, NEW t \in Lwip, cur_tc = t, waits[t] = None,
           NEW p \in {"fetch", "serve", "call", "called", "reply", "halt"}, Goto(p),
           UNCHANGED <<cur_tc, thread_queue, waits, buse, ns, ns_timer, kept, env_ipc_perm>>,
           Formed', RingInv', Counts', tc_wakeup' \subseteq {x \in Thread : waits[x] # None},
           args' \in [Thread -> Args], \A w \in Worker : args'[w] = args[w],
           write_msg' \in [Socket -> Worker \cup {None}], cl' \in [Client -> {"idle", "sent", "wait"}],
           t \in Worker => /\ args' = args /\ p # "serve"
                           /\ p # "halt" => pc[t] \in {"fetch", "call", "called"},
           t = tcpip => \/ p = "serve" /\ args'[tcpip].whom \in Worker
                        \/ p = "fetch" /\ args'[tcpip].whom = None
    PROVE  BaseInv'
<1>1. t \in Thread /\ t # main /\ (t = tcpip \/ (t \in Worker /\ t # tcpip)) /\ (t \in Worker => pc[t] # "none")
  BY Runner, Names
<1>2. /\ pc' \in [Thread -> {"flush", "recv", "got", "timer", "panic", "fetch", "serve", "call",
                             "called", "deliver", "ack", "reply", "halt", "none"}]
      /\ pc'[t] = p /\ Live' = Live
      /\ \A x \in Thread : x # t => pc'[x] = pc[x]
  BY Going
<1>3. Types'
  BY <1>2 DEF Formed, BaseInv, Types
<1>4. Queue'
  BY <1>2, QueueKept DEF BaseInv
<1>5. MainInv'
  BY <1>1, <1>2, Names DEF BaseInv, MainInv
<1>6. LwipInv'
  <2>1. CASE t = tcpip
    BY <2>1, <1>2 DEF BaseInv, LwipInv
  <2>2. CASE t \in Worker /\ t # tcpip
    BY <2>2, <1>2, Names DEF BaseInv, LwipInv
  <2>. QED  BY <2>1, <2>2, <1>1
<1>7. WorkerInv'
  <2>1. ASSUME NEW w \in Worker, w # t
        PROVE  pc'[w] = pc[w] /\ args'[w] = args[w] /\ waits'[w] = waits[w]
    BY <2>1, <1>2, Names
  <2>2. ASSUME t \in Worker
        PROVE  /\ pc'[t] = p /\ p \in {"fetch", "call", "called", "reply", "halt"} /\ args'[t] = args[t] /\ waits'[t] = None
               /\ args[t].sock \in Socket /\ args[t].req \in Buffer
               /\ p # "halt" => args[t].whom \in Client /\ args[t].sock \in SocketsOf[args[t].whom]
    BY <2>2, <1>1, <1>2 DEF BaseInv, WorkerInv
  <2>. QED  BY <2>1, <2>2 DEF BaseInv, WorkerInv
<1>8. BuffersAreOwned'
  <2>1. \A w \in Live : args'[w] = args[w]
    BY DEF Live
  <2>2. {args'[w].req : w \in Live'} = {args[w].req : w \in Live}
    BY <2>1, <1>2
  <2>. QED  BY <2>1, <2>2, <1>2 DEF BaseInv, BuffersAreOwned
<1>. QED  BY <1>3, <1>4, <1>5, <1>6, <1>7, <1>8 DEF BaseInv

LEMMA WokenWait == ASSUME NEW s PROVE Woken(s) \subseteq {t \in Thread : waits[t] # None}
BY DEF Woken

LEMMA Waiting == ASSUME BaseInv PROVE tc_wakeup \subseteq {t \in Thread : waits[t] # None} /\ Formed
BY DEF BaseInv, Types, Formed

LEMMA TcpipFetchBase == ASSUME BaseInv, TcpipFetch PROVE BaseInv'
<1>1. PICK w \in Worker : Fetch(tcpip, w) /\ args' = [args EXCEPT ![tcpip].whom = w]
  BY DEF TcpipFetch
<1>2. /\ cur_tc = tcpip /\ pc[tcpip] = "fetch" /\ waits[tcpip] = None /\ Goto("serve")
      /\ UNCHANGED <<cur_tc, thread_queue, write_msg, buse, ns, cl, ns_timer, kept, env_ipc_perm>>
  BY DEF TcpipFetch, Ready, Still
<1>3. /\ tc_wakeup' = tc_wakeup \cup Woken(free_msg(tcpip)) /\ waits' = waits
  BY <1>1 DEF Fetch
<1>4. Formed' /\ RingInv' /\ Counts'
  BY <1>1, FetchStep, Sems DEF BaseInv
<1>5. /\ args \in [Thread -> Args] /\ write_msg \in [Socket -> Worker \cup {None}]
      /\ cl \in [Client -> {"idle", "sent", "wait"}]
  BY DEF BaseInv, Types
<1>6. /\ args' \in [Thread -> Args] /\ args'[tcpip].whom = w
      /\ \A v \in Worker : args'[v] = args[v]
  <2>1. args[tcpip] \in Args
    BY <1>5, Names
  <2>2. [args[tcpip] EXCEPT !.whom = w] \in Args /\ [args[tcpip] EXCEPT !.whom = w].whom = w
    BY <2>1 DEF Args
  <2>3. args' = [args EXCEPT ![tcpip] = [args[tcpip] EXCEPT !.whom = w]]
    BY <1>1
  <2>. QED  BY <2>2, <2>3, <1>5, Names
<1>7. tc_wakeup' \subseteq {x \in Thread : waits[x] # None}
  BY <1>3, WokenWait, Waiting
<1>8. tcpip \in Lwip /\ tcpip \notin Worker
  BY Names DEF Lwip
<1>. QED  BY <1>2, <1>3, <1>4, <1>5, <1>6, <1>7, <1>8, StepBase

\* A completion is signalled.
LEMMA CompleteStep ==
    ASSUME BaseInv, NEW s \in Socket, Complete(s), mboxes' = mboxes
    PROVE  /\ Formed' /\ RingInv' /\ Counts'
           /\ \A m \in Mbox : q(m)' = q(m) /\ free(m)' = free(m)
           /\ \A r \in Socket : done(r)' = IF r = s THEN done(r) + 1 ELSE done(r)
           /\ \A r \in Sem : r # <<"done", s>> => sems'[r].waiters = sems[r].waiters
           /\ tc_wakeup' = tc_wakeup \cup Woken(<<"done", s>>)
<1>1. <<"done", s>> \in Sem
  BY Sems
<1>2. /\ sems' = [sems EXCEPT ![<<"done", s>>] = [counter |-> done(s) + 1, waiters |-> 0]]
      /\ tc_wakeup' = tc_wakeup \cup Woken(<<"done", s>>)
  BY DEF Complete, Signal, done
<1>3. done(s) + 1 \in Nat /\ sems \in [Sem -> [counter : Nat, waiters : {0, 1}]]
  BY Counters DEF BaseInv, Types
<1>4. /\ sems' \in [Sem -> [counter : Nat, waiters : {0, 1}]]
      /\ sems'[<<"done", s>>].counter = done(s) + 1
      /\ \A r \in Sem : r # <<"done", s>> => sems'[r] = sems[r]
  BY <1>1, <1>2, <1>3
<1>5. \A m \in Mbox : q(m)' = q(m) /\ free(m)' = free(m)
  BY <1>4, Sems DEF q, free
<1>6. \A r \in Socket : done(r)' = IF r = s THEN done(r) + 1 ELSE done(r)
  BY <1>4, Sems DEF done
<1>7. Formed'
  BY <1>4 DEF Formed, BaseInv, Types
<1>. QED  BY <1>2, <1>4, <1>5, <1>6, <1>7, RingCounters DEF BaseInv

\* The call that lwIP's thread has in hand.
LEMMA ServeFacts ==
    ASSUME BaseInv, TcpipServe
    PROVE  \E w \in Worker :
             /\ w = args[tcpip].whom /\ args[w].sock \in Socket \cup {None}
             /\ cur_tc = tcpip /\ pc[tcpip] = "serve" /\ waits[tcpip] = None /\ Goto("fetch")
             /\ args' = [args EXCEPT ![tcpip] = NoArgs]
             /\ UNCHANGED <<cur_tc, thread_queue, waits, mboxes, buse, ns, cl, ns_timer, kept, env_ipc_perm>>
             /\ \/ Complete(args[w].sock) /\ UNCHANGED write_msg
                \/ /\ args[w].op = "send" /\ args[w].sock \in Slow
                   /\ write_msg' = [write_msg EXCEPT ![args[w].sock] = w]
                   /\ UNCHANGED <<sems, tc_wakeup>>
<1>1. cur_tc = tcpip /\ pc[tcpip] = "serve" /\ waits[tcpip] = None
  BY DEF TcpipServe, Ready
<1>2. args[tcpip].whom \in Worker
  BY <1>1 DEF BaseInv, LwipInv
<1>3. args[args[tcpip].whom].sock \in Socket \cup {None}
  <2>1. args[args[tcpip].whom] \in Args
    BY <1>2, Names DEF BaseInv, Types
  <2>. QED  BY <2>1 DEF Args
<1>. QED  BY <1>1, <1>2, <1>3 DEF TcpipServe, Me, Still

LEMMA TcpipServeBase == ASSUME BaseInv, TcpipServe PROVE BaseInv'
<1>1. PICK w \in Worker :
        /\ w = args[tcpip].whom /\ args[w].sock \in Socket \cup {None}
        /\ cur_tc = tcpip /\ pc[tcpip] = "serve" /\ waits[tcpip] = None /\ Goto("fetch")
        /\ args' = [args EXCEPT ![tcpip] = NoArgs]
        /\ UNCHANGED <<cur_tc, thread_queue, waits, mboxes, buse, ns, cl, ns_timer, kept, env_ipc_perm>>
        /\ \/ Complete(args[w].sock) /\ UNCHANGED write_msg
           \/ /\ args[w].op = "send" /\ args[w].sock \in Slow
              /\ write_msg' = [write_msg EXCEPT ![args[w].sock] = w]
              /\ UNCHANGED <<sems, tc_wakeup>>
  BY ServeFacts
<1>2. Formed' /\ RingInv' /\ Counts' /\ tc_wakeup' \subseteq {x \in Thread : waits[x] # None}
  <2>1. CASE Complete(args[w].sock) /\ args[w].sock \in Socket
    BY <2>1, <1>1, CompleteStep, WokenWait, Waiting
  <2>2. CASE Complete(args[w].sock) /\ args[w].sock = None
    <3>1. <<"done", None>> \notin Sem
      BY Constants, Names DEF Sem
    <3>2. sems' = sems
      BY <2>2, <3>1 DEF Complete, Signal, BaseInv, Types
    <3>3. tc_wakeup' \subseteq {x \in Thread : waits[x] # None}
      BY <2>2, WokenWait, Waiting DEF Complete
    <3>. QED  BY <3>2, <3>3, <1>1, RingKept DEF BaseInv, Formed, Types
  <2>3. CASE UNCHANGED <<sems, tc_wakeup>>
    BY <2>3, <1>1, RingKept, Waiting DEF BaseInv, Formed
  <2>. QED  BY <2>1, <2>2, <2>3, <1>1
<1>3. write_msg' \in [Socket -> Worker \cup {None}] /\ cl \in [Client -> {"idle", "sent", "wait"}]
  BY <1>1 DEF BaseInv, Types
<1>4. args' \in [Thread -> Args] /\ args'[tcpip].whom = None /\ \A v \in Worker : args'[v] = args[v]
  <2>1. NoArgs \in Args /\ NoArgs.whom = None
    BY DEF NoArgs, Args
  <2>. QED  BY <2>1, <1>1, Names DEF BaseInv, Types
<1>5. tcpip \in Lwip /\ tcpip \notin Worker
  BY Names DEF Lwip
<1>. QED  BY <1>1, <1>2, <1>3, <1>4, <1>5, StepBase

\* Where a worker that goes on is, and what it leaves alone.
LEMMA WorkerReady ==
    ASSUME BaseInv, NEW w \in Worker, NEW p, Ready(w, p), p # "none"
    PROVE  /\ cur_tc = w /\ pc[w] = p /\ waits[w] = None /\ Me = args[w]
           /\ w \in Lwip /\ w # tcpip /\ w # main /\ w \in Thread /\ w # None
           /\ args[w].sock \in Socket /\ args[w].sock \in Mbox /\ args[w].sock # tcpip
           /\ args[w].req \in Buffer
           /\ args \in [Thread -> Args] /\ write_msg \in [Socket -> Worker \cup {None}]
           /\ cl \in [Client -> {"idle", "sent", "wait"}]
<1>1. cur_tc = w /\ pc[w] = p /\ waits[w] = None
  BY DEF Ready
<1>2. /\ args \in [Thread -> Args] /\ write_msg \in [Socket -> Worker \cup {None}]
      /\ cl \in [Client -> {"idle", "sent", "wait"}]
  BY DEF BaseInv, Types
<1>3. args[w].sock \in Socket /\ args[w].req \in Buffer
  BY <1>1 DEF BaseInv, WorkerInv
<1>4. w \in Lwip /\ w # tcpip /\ w # main /\ w \in Thread /\ w # None
  BY <1>1, Names, Runner DEF Lwip, Live
<1>. QED  BY <1>1, <1>2, <1>3, <1>4, Sems DEF Me

LEMMA RecvBase == ASSUME BaseInv, NEW w \in Worker, Recv(w) PROVE BaseInv'
<1>1. /\ Ready(w, "fetch") /\ Goto("call")
      /\ UNCHANGED <<cur_tc, thread_queue, args, write_msg, buse, ns, cl, ns_timer, kept, env_ipc_perm>>
  BY DEF Recv, Still
<1>. DEFINE m == args[w].sock
<1>2. /\ cur_tc = w /\ pc[w] = "fetch" /\ waits[w] = None /\ Me = args[w] /\ w \in Lwip /\ w # tcpip
      /\ m \in Mbox /\ args \in [Thread -> Args] /\ write_msg \in [Socket -> Worker \cup {None}]
      /\ cl \in [Client -> {"idle", "sent", "wait"}]
  BY <1>1, WorkerReady
<1>3. PICK s \in Socket : Fetch(m, s)
  BY <1>2 DEF Recv
<1>. HIDE DEF m
<1>4. Formed' /\ RingInv' /\ Counts'
  BY <1>2, <1>3, FetchStep DEF BaseInv
<1>5. tc_wakeup' \subseteq {x \in Thread : waits[x] # None} /\ waits' = waits
  BY <1>3, WokenWait, Waiting DEF Fetch
<1>. QED  BY <1>1, <1>2, <1>4, <1>5, StepBase

LEMMA CallBase == ASSUME BaseInv, NEW w \in Worker, Call(w) PROVE BaseInv'
<1>1. /\ Ready(w, "call") /\ Post(tcpip, w) /\ Goto("called")
      /\ UNCHANGED <<cur_tc, thread_queue, args, write_msg, buse, ns, cl, ns_timer, kept, env_ipc_perm>>
  BY DEF Call, Still
<1>2. /\ cur_tc = w /\ pc[w] = "call" /\ waits[w] = None /\ w \in Lwip /\ w # tcpip
      /\ args \in [Thread -> Args] /\ write_msg \in [Socket -> Worker \cup {None}]
      /\ cl \in [Client -> {"idle", "sent", "wait"}]
  BY <1>1, WorkerReady
<1>3. Formed' /\ RingInv' /\ Counts'
  BY <1>1, PostStep, Sems DEF BaseInv
<1>4. tc_wakeup' \subseteq {x \in Thread : waits[x] # None} /\ waits' = waits
  BY <1>1, WokenWait, Waiting DEF Post
<1>. QED  BY <1>1, <1>2, <1>3, <1>4, StepBase

LEMMA DeliverBase == ASSUME BaseInv, NEW w \in Worker, Deliver(w) PROVE BaseInv'
<1>1. /\ Ready(w, "deliver") /\ Post(Me.sock, Me.sock) /\ Goto("halt")
      /\ UNCHANGED <<cur_tc, thread_queue, args, write_msg, buse, ns, cl, ns_timer, kept, env_ipc_perm>>
  BY DEF Deliver, Still
<1>2. /\ cur_tc = w /\ pc[w] = "deliver" /\ waits[w] = None /\ w \in Lwip /\ w # tcpip
      /\ args \in [Thread -> Args] /\ write_msg \in [Socket -> Worker \cup {None}]
      /\ cl \in [Client -> {"idle", "sent", "wait"}]
      /\ Me.sock \in Mbox /\ Me.sock \in Socket
  BY <1>1, WorkerReady
<1>3. Formed' /\ RingInv' /\ Counts'
  BY <1>1, <1>2, PostStep DEF BaseInv
<1>4. tc_wakeup' \subseteq {x \in Thread : waits[x] # None} /\ waits' = waits
  BY <1>1, WokenWait, Waiting DEF Post
<1>. QED  BY <1>1, <1>2, <1>3, <1>4, StepBase

\* A worker takes the completion of its call.
LEMMA LowerStep ==
    ASSUME BaseInv, NEW s \in Socket, Down(<<"done", s>>), sems' = Lower(<<"done", s>>), mboxes' = mboxes
    PROVE  /\ Formed' /\ RingInv' /\ Counts'
           /\ \A m \in Mbox : q(m)' = q(m) /\ free(m)' = free(m)
           /\ done(s) > 0
           /\ \A r \in Socket : done(r)' = IF r = s THEN done(r) - 1 ELSE done(r)
           /\ \A r \in Sem : sems'[r].waiters = sems[r].waiters
<1>1. <<"done", s>> \in Sem /\ sems \in [Sem -> [counter : Nat, waiters : {0, 1}]]
  BY Sems DEF BaseInv, Types
<1>2. done(s) \in Nat /\ done(s) > 0
  BY Counters DEF Down, done, BaseInv
<1>3. sems' = [sems EXCEPT ![<<"done", s>>] = [sems[<<"done", s>>] EXCEPT !.counter = @ - 1]]
  BY DEF Lower
<1>4. [sems[<<"done", s>>] EXCEPT !.counter = @ - 1]
        = [counter |-> done(s) - 1, waiters |-> sems[<<"done", s>>].waiters]
  BY <1>1 DEF done
<1>5. done(s) - 1 \in Nat
  BY <1>2
<1>6. /\ sems' \in [Sem -> [counter : Nat, waiters : {0, 1}]]
      /\ sems'[<<"done", s>>].counter = done(s) - 1
      /\ \A r \in Sem : sems'[r].waiters = sems[r].waiters
      /\ \A r \in Sem : r # <<"done", s>> => sems'[r] = sems[r]
  <2>. DEFINE x == [counter |-> done(s) - 1, waiters |-> sems[<<"done", s>>].waiters]
  <2>1. sems' = [sems EXCEPT ![<<"done", s>>] = x]
    BY <1>3, <1>4
  <2>2. x \in [counter : Nat, waiters : {0, 1}] /\ x.counter = done(s) - 1 /\ x.waiters = sems[<<"done", s>>].waiters
    BY <1>1, <1>5
  <2>. HIDE DEF x
  <2>. QED  BY <2>1, <2>2, <1>1
<1>7. \A m \in Mbox : q(m)' = q(m) /\ free(m)' = free(m)
  BY <1>6, Sems DEF q, free
<1>8. \A r \in Socket : done(r)' = IF r = s THEN done(r) - 1 ELSE done(r)
  BY <1>6, Sems DEF done
<1>9. Formed'
  BY <1>6 DEF Formed, BaseInv, Types
<1>. QED  BY <1>2, <1>6, <1>7, <1>8, <1>9, RingCounters DEF BaseInv

LEMMA CalledBase == ASSUME BaseInv, NEW w \in Worker, Called(w) PROVE BaseInv'
<1>1. /\ Ready(w, "called") /\ Goto("reply") /\ Down(<<"done", Me.sock>>) /\ sems' = Lower(<<"done", Me.sock>>)
      /\ UNCHANGED <<cur_tc, thread_queue, waits, tc_wakeup, mboxes, args, write_msg, buse, ns, cl, ns_timer, kept, env_ipc_perm>>
  BY DEF Called, Still
<1>2. /\ cur_tc = w /\ pc[w] = "called" /\ waits[w] = None /\ w \in Lwip /\ w # tcpip
      /\ args \in [Thread -> Args] /\ write_msg \in [Socket -> Worker \cup {None}]
      /\ cl \in [Client -> {"idle", "sent", "wait"}] /\ Me.sock \in Socket
  BY <1>1, WorkerReady
<1>3. Formed' /\ RingInv' /\ Counts'
  BY <1>1, <1>2, LowerStep
<1>4. tc_wakeup' \subseteq {x \in Thread : waits[x] # None}
  BY <1>1, Waiting
<1>. QED  BY <1>1, <1>2, <1>3, <1>4, StepBase

LEMMA AckBase == ASSUME BaseInv, NEW w \in Worker, Ack(w) PROVE BaseInv'
<1>1. /\ Ready(w, "ack") /\ Goto("halt")
      /\ IF write_msg[Me.sock] # None THEN Complete(Me.sock) ELSE UNCHANGED <<sems, tc_wakeup>>
      /\ write_msg' = [write_msg EXCEPT ![Me.sock] = None]
      /\ UNCHANGED <<cur_tc, thread_queue, waits, mboxes, args, buse, ns, cl, ns_timer, kept, env_ipc_perm>>
  BY DEF Ack, Still
<1>2. /\ cur_tc = w /\ pc[w] = "ack" /\ waits[w] = None /\ w \in Lwip /\ w # tcpip
      /\ args \in [Thread -> Args] /\ write_msg \in [Socket -> Worker \cup {None}]
      /\ cl \in [Client -> {"idle", "sent", "wait"}] /\ Me.sock \in Socket
  BY <1>1, WorkerReady
<1>3. Formed' /\ RingInv' /\ Counts' /\ tc_wakeup' \subseteq {x \in Thread : waits[x] # None}
  <2>1. CASE Complete(Me.sock)
    BY <2>1, <1>1, <1>2, CompleteStep, WokenWait, Waiting
  <2>2. CASE UNCHANGED <<sems, tc_wakeup>>
    BY <2>2, <1>1, RingKept, Waiting DEF BaseInv, Formed
  <2>. QED  BY <2>1, <2>2, <1>1
<1>4. write_msg' \in [Socket -> Worker \cup {None}]
  BY <1>1, <1>2
<1>. QED  BY <1>1, <1>2, <1>3, <1>4, StepBase

LEMMA ReplyBase == ASSUME BaseInv, NEW w \in Worker, Reply(w) PROVE BaseInv'
<1>1. /\ Ready(w, "reply") /\ Goto("halt") /\ cl' = [cl EXCEPT ![Me.whom] = "idle"]
      /\ UNCHANGED <<cur_tc, thread_queue, waits, tc_wakeup, sems, mboxes, args, write_msg, buse, ns, ns_timer, kept, env_ipc_perm>>
  BY DEF Reply, tvars
<1>2. /\ cur_tc = w /\ pc[w] = "reply" /\ waits[w] = None /\ w \in Lwip /\ w # tcpip
      /\ args \in [Thread -> Args] /\ write_msg \in [Socket -> Worker \cup {None}]
      /\ cl' \in [Client -> {"idle", "sent", "wait"}]
  BY <1>1, WorkerReady
<1>3. Formed' /\ RingInv' /\ Counts' /\ tc_wakeup' \subseteq {x \in Thread : waits[x] # None}
  BY <1>1, RingKept, Waiting DEF BaseInv, Formed
<1>. QED  BY <1>1, <1>2, <1>3, StepBase

LEMMA HaltFacts ==
    ASSUME BaseInv, NEW w \in Worker, Halt(w)
    PROVE  /\ pc' \in [Thread -> {"flush", "recv", "got", "timer", "panic", "fetch", "serve", "call",
                                  "called", "deliver", "ack", "reply", "halt", "none"}]
           /\ pc'[w] = "none" /\ \A t \in Thread : t # w => pc'[t] = pc[t]
           /\ args' \in [Thread -> Args] /\ \A t \in Thread : t # w => args'[t] = args[t]
           /\ Live' = Live \ {w} /\ w \in Live /\ w \in Lwip /\ w # tcpip /\ w # main
           /\ cur_tc = w /\ pc[w] = "halt" /\ waits[w] = None /\ thread_halt
           /\ buse' = buse \ {args[w].req}
           /\ UNCHANGED <<waits, tc_wakeup, sems, mboxes, write_msg, ns, cl, ns_timer, kept, env_ipc_perm>>
<1>1. /\ Ready(w, "halt") /\ Goto("none") /\ args' = [args EXCEPT ![w] = NoArgs] /\ thread_halt
      /\ buse' = buse \ {Me.req}
      /\ UNCHANGED <<waits, tc_wakeup, sems, mboxes, write_msg, ns, cl, ns_timer, kept, env_ipc_perm>>
  BY DEF Halt
<1>2. /\ cur_tc = w /\ pc[w] = "halt" /\ waits[w] = None /\ w \in Lwip /\ w # tcpip /\ w # main /\ w \in Thread
      /\ Me = args[w] /\ args \in [Thread -> Args]
  BY <1>1, WorkerReady
<1>3. /\ pc' \in [Thread -> {"flush", "recv", "got", "timer", "panic", "fetch", "serve", "call",
                             "called", "deliver", "ack", "reply", "halt", "none"}]
      /\ pc'[w] = "none" /\ \A t \in Thread : t # w => pc'[t] = pc[t]
  BY <1>1, <1>2 DEF Goto, BaseInv, Types
<1>4. Live' = Live \ {w} /\ w \in Live
  BY <1>2, <1>3, Names DEF Live
<1>5. args' \in [Thread -> Args] /\ \A t \in Thread : t # w => args'[t] = args[t]
  <2>1. NoArgs \in Args
    BY DEF NoArgs, Args
  <2>. QED  BY <2>1, <1>1, <1>2
<1>. QED  BY <1>1, <1>2, <1>3, <1>4, <1>5

LEMMA HaltBase == ASSUME BaseInv, NEW w \in Worker, Halt(w) PROVE BaseInv'
<1>1. /\ pc' \in [Thread -> {"flush", "recv", "got", "timer", "panic", "fetch", "serve", "call",
                             "called", "deliver", "ack", "reply", "halt", "none"}]
      /\ pc'[w] = "none" /\ \A t \in Thread : t # w => pc'[t] = pc[t]
      /\ args' \in [Thread -> Args] /\ \A t \in Thread : t # w => args'[t] = args[t]
      /\ Live' = Live \ {w} /\ w \in Live /\ w \in Lwip /\ w # tcpip /\ w # main
      /\ cur_tc = w /\ pc[w] = "halt" /\ waits[w] = None /\ thread_halt
      /\ buse' = buse \ {args[w].req}
      /\ UNCHANGED <<waits, tc_wakeup, sems, mboxes, write_msg, ns, cl, ns_timer, kept, env_ipc_perm>>
  BY HaltFacts
<1>2. Types'
  BY <1>1 DEF BaseInv, Types
<1>3. Queue'
  BY <1>1, HaltQueue DEF BaseInv
<1>4. RingInv' /\ Counts'
  BY <1>1, RingKept DEF BaseInv
<1>5. MainInv'
  BY <1>1, Names DEF BaseInv, MainInv
<1>6. LwipInv'
  BY <1>1, Names DEF BaseInv, LwipInv
<1>7. WorkerInv'
  BY <1>1, Names DEF BaseInv, WorkerInv
<1>8. BuffersAreOwned'
  <2>1. /\ \A v, u \in Live : v # u => args[v].req # args[u].req
        /\ buse = {args[v].req : v \in Live} \cup ({ns.va} \ {None}) \cup kept
        /\ \A v \in Live : args[v].req # ns.va /\ args[v].req \notin kept
        /\ ns.va \notin kept
    BY DEF BaseInv, BuffersAreOwned
  <2>2. \A v \in Live' : v \in Live /\ v # w /\ args'[v] = args[v]
    BY <1>1, Names DEF Live
  <2>3. buse' = {args'[v].req : v \in Live'} \cup ({ns'.va} \ {None}) \cup kept'
    <3>1. {args'[v].req : v \in Live'} = {args[v].req : v \in Live} \ {args[w].req}
      BY <1>1, <2>1, <2>2
    <3>. QED  BY <3>1, <1>1, <2>1
  <2>. QED  BY <1>1, <2>1, <2>2, <2>3 DEF BuffersAreOwned
<1>. QED  BY <1>2, <1>3, <1>4, <1>5, <1>6, <1>7, <1>8 DEF BaseInv

LEMMA InitFacts ==
    ASSUME Init
    PROVE  /\ cur_tc = main /\ thread_queue = <<tcpip>> /\ tc_wakeup = {}
           /\ sems \in [Sem -> [counter : Nat, waiters : {0, 1}]]
           /\ \A m \in Mbox : q(m) = 0 /\ free(m) = MBOXSLOTS
           /\ \A s \in Socket : done(s) = 0
           /\ sems[queued_msg(tcpip)].waiters = 1
           /\ waits \in [Thread -> {None} \cup Wait] /\ waits[tcpip] # None /\ waits[tcpip].sem = queued_msg(tcpip)
           /\ \A t \in Thread : t # tcpip => waits[t] = None
           /\ \A m \in Mbox : /\ mboxes[m].head = -1
                              /\ \A i \in Slots : mboxes[m].msg[i] = None
           /\ mboxes \in [Mbox -> [head : -1..MBOXSLOTS - 1, nextq : 0..MBOXSLOTS - 1,
                                   msg : [0..MBOXSLOTS - 1 -> Worker \cup Socket \cup {None}]]]
           /\ pc \in [Thread -> {"flush", "fetch", "none"}]
           /\ pc[main] = "flush" /\ pc[tcpip] = "fetch" /\ \A w \in Worker : pc[w] = "none"
           /\ Live = {}
           /\ args \in [Thread -> Args] /\ \A t \in Thread : args[t] = NoArgs
           /\ write_msg \in [Socket -> Worker \cup {None}] /\ \A s \in Socket : write_msg[s] = None
           /\ buse = {} /\ kept = {} /\ env_ipc_perm = FALSE /\ ns = Start /\ cl \in [Client -> {"idle"}] /\ ns_timer = "run"
<1>1. ThreadsInit(main, tcpip, tcpip)
  BY DEF Init
<1>2. MBOXSLOTS \in Nat \ {0}
  BY Constants
<1>3. /\ cur_tc = main /\ thread_queue = <<tcpip>> /\ tc_wakeup = {}
      /\ sems = [s \in Sem |-> [counter |-> IF s[1] = "free" THEN MBOXSLOTS ELSE 0,
                                waiters |-> IF s = queued_msg(tcpip) THEN 1 ELSE 0]]
      /\ waits = [t \in Thread |-> IF t = tcpip THEN [sem |-> queued_msg(tcpip), val |-> sems[queued_msg(tcpip)]] ELSE None]
      /\ mboxes = [n \in Mbox |-> [head |-> -1, nextq |-> 0, msg |-> [i \in 0..MBOXSLOTS - 1 |-> None]]]
  BY <1>1 DEF ThreadsInit
<1>4. sems \in [Sem -> [counter : Nat, waiters : {0, 1}]] /\ sems[queued_msg(tcpip)].waiters = 1
  BY <1>2, <1>3, Sems
<1>5. \A m \in Mbox : q(m) = 0 /\ free(m) = MBOXSLOTS
  <2>. SUFFICES ASSUME NEW m \in Mbox PROVE q(m) = 0 /\ free(m) = MBOXSLOTS
    OBVIOUS
  <2>1. queued_msg(m) \in Sem /\ queued_msg(m)[1] = "queued" /\ free_msg(m) \in Sem /\ free_msg(m)[1] = "free"
    BY Sems DEF queued_msg, free_msg
  <2>. QED  BY <2>1, <1>3 DEF q, free
<1>6. \A s \in Socket : done(s) = 0
  <2>. SUFFICES ASSUME NEW s \in Socket PROVE done(s) = 0
    OBVIOUS
  <2>1. <<"done", s>> \in Sem /\ <<"done", s>>[1] = "done"
    BY Sems
  <2>. QED  BY <2>1, <1>3 DEF done
<1>7. waits \in [Thread -> {None} \cup Wait] /\ waits[tcpip] # None /\ waits[tcpip].sem = queued_msg(tcpip)
  <2>. DEFINE x == [sem |-> queued_msg(tcpip), val |-> sems[queued_msg(tcpip)]]
  <2>1. x \in Wait /\ x.sem = queued_msg(tcpip)
    BY <1>4, Sems DEF Wait
  <2>2. x # None
    BY <2>1, Names
  <2>. HIDE DEF x
  <2>3. waits = [t \in Thread |-> IF t = tcpip THEN x ELSE None]
    BY <1>3 DEF x
  <2>. QED  BY <2>1, <2>2, <2>3, Names
<1>8. /\ mboxes \in [Mbox -> [head : -1..MBOXSLOTS - 1, nextq : 0..MBOXSLOTS - 1,
                              msg : [0..MBOXSLOTS - 1 -> Worker \cup Socket \cup {None}]]]
      /\ \A m \in Mbox : mboxes[m].head = -1 /\ \A i \in Slots : mboxes[m].msg[i] = None
  <2>. DEFINE x == [head |-> -1, nextq |-> 0, msg |-> [i \in 0..MBOXSLOTS - 1 |-> None]]
  <2>1. x \in [head : -1..MBOXSLOTS - 1, nextq : 0..MBOXSLOTS - 1, msg : [0..MBOXSLOTS - 1 -> Worker \cup Socket \cup {None}]]
    BY <1>2
  <2>2. x.head = -1 /\ \A i \in Slots : x.msg[i] = None
    BY DEF Slots
  <2>. HIDE DEF x
  <2>3. mboxes = [n \in Mbox |-> x]
    BY <1>3 DEF x
  <2>. QED  BY <2>1, <2>2, <2>3
<1>9. pc = [t \in Thread |-> CASE t = main -> "flush" [] t = tcpip -> "fetch" [] OTHER -> "none"]
  BY DEF Init
<1>10. /\ pc \in [Thread -> {"flush", "fetch", "none"}]
       /\ pc[main] = "flush" /\ pc[tcpip] = "fetch" /\ \A w \in Worker : pc[w] = "none"
  BY <1>9, Names
<1>11. NoArgs \in Args
  BY DEF NoArgs, Args
<1>12. /\ args \in [Thread -> Args] /\ \A t \in Thread : args[t] = NoArgs
       /\ write_msg \in [Socket -> Worker \cup {None}] /\ \A s \in Socket : write_msg[s] = None
       /\ buse = {} /\ kept = {} /\ env_ipc_perm = FALSE /\ ns = Start /\ cl \in [Client -> {"idle"}] /\ ns_timer = "run"
  BY <1>11 DEF Init
<1>13. \A t \in Thread : t # tcpip => waits[t] = None
  BY <1>3
<1>14. Live = {}
  BY <1>10 DEF Live
<1>. QED  BY <1>3, <1>4, <1>5, <1>6, <1>7, <1>8, <1>10, <1>12, <1>13, <1>14

LEMMA BaseInit == ASSUME Init PROVE BaseInv
<1>1. Types
  BY InitFacts, StartFacts DEF Types
<1>2. Queue
  <2>1. /\ thread_queue = <<tcpip>> /\ cur_tc = main /\ Live = {}
    BY InitFacts
  <2>2. thread_queue \in Seq(Thread) /\ DOMAIN thread_queue = {1} /\ thread_queue[1] = tcpip
    BY <2>1, Names
  <2>. QED  BY <2>1, <2>2, Names DEF Queue
<1>3. RingInv
  <2>1. MBOXSLOTS \in Nat \ {0}
    BY Constants
  <2>. QED  BY <2>1, InitFacts DEF RingInv
<1>4. Counts
  <2>1. ASSUME NEW m \in Mbox PROVE Counted(m) = 0
    <3>1. {i \in 0..MBOXSLOTS - 1 : mboxes[m].msg[i] # None} = {}
      BY InitFacts DEF Slots
    <3>. QED  BY <3>1, FS_EmptySet DEF Counted
  <2>2. MBOXSLOTS \in Nat
    BY Constants
  <2>. QED  BY <2>1, <2>2, InitFacts DEF Counts, q, free
<1>5. MainInv
  BY InitFacts, StartFacts, Names DEF MainInv
<1>6. LwipInv
  BY InitFacts, Names DEF LwipInv, NoArgs
<1>7. WorkerInv
  BY InitFacts, Names DEF WorkerInv
<1>8. BuffersAreOwned
  BY InitFacts, StartFacts DEF BuffersAreOwned
<1>. QED  BY <1>1, <1>2, <1>3, <1>4, <1>5, <1>6, <1>7, <1>8 DEF BaseInv

LEMMA BaseStutter == ASSUME BaseInv, UNCHANGED vars PROVE BaseInv'
<1>1. UNCHANGED <<cur_tc, thread_queue, waits, tc_wakeup, sems, mboxes, pc, args, write_msg, buse, ns, cl, ns_timer, kept, env_ipc_perm>>
  BY DEF vars, tvars
<1>2. Live' = Live
  BY <1>1 DEF Live
<1>3. Types' /\ Queue' /\ RingInv' /\ Counts'
  BY <1>1, <1>2, QueueKept, RingKept DEF BaseInv, Types
<1>4. MainInv' /\ LwipInv' /\ WorkerInv' /\ BuffersAreOwned'
  BY <1>1, <1>2 DEF BaseInv, MainInv, LwipInv, WorkerInv, BuffersAreOwned
<1>. QED  BY <1>3, <1>4 DEF BaseInv

LEMMA BaseNext == ASSUME BaseInv, [Next]_vars PROVE BaseInv'
<1>1. CASE Run
  BY <1>1, FlushBase, get_bufferBase, TimerYieldBase, TimerAnswerBase, UnpagedBase, ThreadFailsBase, SpawnBase, SemWaitBase, ThreadWaitBase,
     TcpipFetchBase, TcpipServeBase, RecvBase, CallBase, CalledBase, DeliverBase, AckBase, ReplyBase, HaltBase DEF Run
<1>2. CASE Tick
  BY <1>2, TickBase
<1>3. CASE \E c \in Client : Request(c) \/ BareRequest(c) \/ Await(c)
  BY <1>3, RequestBase, BareRequestBase, AwaitBase
<1>4. CASE \E s \in Socket : Input(s)
  BY <1>4, InputBase
<1>5. CASE UNCHANGED vars
  BY <1>5, BaseStutter
<1>6. CASE Dead
  BY <1>6, BaseStutter DEF Dead
<1>. QED  BY <1>1, <1>2, <1>3, <1>4, <1>5, <1>6 DEF Next

THEOREM Base == Spec => []BaseInv
<1>1. Init => BaseInv
  BY BaseInit
<1>2. BaseInv /\ [Next]_vars => BaseInv'
  BY BaseNext
<1>. QED  BY <1>1, <1>2, PTL DEF Spec

\* The types hold, the queue is a queue and the semaphores of a mailbox
\* count what is in its ring (net/lwip/jos/arch/sys_arch.c, thread.c).
THEOREM TypesHold == Spec => []TypeOK
<1>1. BaseInv => TypeOK
  BY DEF BaseInv, TypeOK, Counts
<1>. QED  BY <1>1, Base, PTL

\* Every request buffer in use has one owner (get_buffer and put_buffer,
\* net/serv.c).
THEOREM Owned == Spec => []BuffersAreOwned
<1>1. BaseInv => BuffersAreOwned
  BY DEF BaseInv
<1>. QED  BY <1>1, Base, PTL

-----------------------------------------------------------------------------
(* Who waits, who goes on, and how far things are. *)

TokenInv == CallInv /\ OneToken /\ PacketInv
NetInv == BaseInv /\ WaitInv /\ QuietInv /\ ClientInv /\ TokenInv /\ RoundInv

LEMMA Numbers ==
    ASSUME NetInv
    PROVE  /\ \A m \in Mbox : q(m) \in Nat /\ free(m) \in Nat /\ q(m) <= MBOXSLOTS /\ free(m) = MBOXSLOTS - q(m)
           /\ \A s \in Socket : done(s) \in Nat /\ q(s) \in Nat /\ free(s) \in Nat /\ s \in Mbox
           /\ MBOXSLOTS \in Nat /\ MBOXSLOTS > 0 /\ tcpip \in Mbox
           /\ ns.i \in Nat
<1>1. MBOXSLOTS \in Nat /\ MBOXSLOTS > 0
  BY Constants
<1>2. \A m \in Mbox : q(m) \in Nat /\ free(m) \in Nat /\ q(m) <= MBOXSLOTS /\ free(m) = MBOXSLOTS - q(m)
  BY <1>1, Counters DEF NetInv, BaseInv, RingInv
<1>3. \A s \in Socket : done(s) \in Nat
  BY Counters DEF NetInv, BaseInv
<1>4. ns.i \in Nat
  <2>1. ns.i \in 0..MaxYields
    BY DEF NetInv, BaseInv, Types
  <2>. QED  BY <2>1 DEF MaxYields
<1>. QED  BY <1>1, <1>2, <1>3, <1>4, Sems

\* What the calls, the tokens and the packets depend on.
SameFrames ==
    /\ \A t \in Lwip : pc'[t] = pc[t] /\ args'[t] = args[t]
    /\ \A w \in Worker : pc'[w] = pc[w] /\ args'[w] = args[w]
    /\ write_msg' = write_msg
    /\ \A m \in Mbox : q(m)' = q(m) /\ free(m)' = free(m)
    /\ \A s \in Socket : done(s)' = done(s)

LEMMA SameSets ==
    ASSUME SameFrames, NEW s
    PROVE  /\ Receivers(s)' = Receivers(s) /\ Deliverers(s)' = Deliverers(s) /\ Calling(s)' = Calling(s)
BY DEF SameFrames, Receivers, Deliverers, Calling

LEMMA SameTokens ==
    ASSUME NetInv, SameFrames
    PROVE  /\ \A k \in Kind, x \in Thing : Token(k, x)' <=> Token(k, x)
           /\ OneToken' /\ PacketInv'
<1>1. tcpip \in Lwip /\ tcpip \in Mbox /\ Socket \subseteq Mbox
  BY Sems DEF Lwip
<1>2. \A s \in Socket : q(s)' = q(s) /\ done(s)' = done(s)
  BY <1>1 DEF SameFrames
<1>3. q(tcpip)' = q(tcpip) /\ pc'[tcpip] = pc[tcpip]
  BY <1>1 DEF SameFrames
<1>4. ASSUME NEW k \in Kind, NEW x \in Thing
      PROVE  Token(k, x)' <=> Token(k, x)
  <2>1. x \in Socket => q(x)' = q(x) /\ done(x)' = done(x)
    BY <1>2
  <2>2. x \in Worker => pc'[x] = pc[x] /\ args'[x] = args[x] /\ write_msg' = write_msg
    BY DEF SameFrames
  <2>3. Receivers(x)' = Receivers(x) /\ Deliverers(x)' = Deliverers(x)
    BY SameSets
  <2>. QED  BY <2>1, <2>2, <2>3, <1>3 DEF Token
<1>5. OneToken'
  BY <1>4 DEF NetInv, TokenInv, OneToken
<1>6. PacketInv'
  BY <1>2, SameSets DEF NetInv, TokenInv, PacketInv
<1>. QED  BY <1>4, <1>5, <1>6

LEMMA SameCalls ==
    ASSUME NetInv, SameFrames, mboxes' = mboxes
    PROVE  CallInv' /\ TokenInv'
<1>1. tcpip \in Lwip /\ tcpip \in Mbox
  BY Sems DEF Lwip
<1>2. \A s \in Socket : done(s)' = done(s) /\ Calling(s)' = Calling(s)
  BY SameSets DEF SameFrames
<1>3. \A w : InFlight(w)' <=> InFlight(w)
  BY <1>1 DEF SameFrames, InFlight, InMailbox
<1>4. q(tcpip)' = q(tcpip) /\ write_msg' = write_msg /\ \A w \in Worker : pc'[w] = pc[w]
  BY <1>1 DEF SameFrames
<1>5. CallInv'
  BY <1>2, <1>3, <1>4 DEF NetInv, TokenInv, CallInv
<1>. QED  BY <1>5, SameTokens DEF TokenInv

\* When nothing can go on there is no token.
LEMMA QuietFacts ==
    ASSUME NetInv, Quiet
    PROVE  /\ \A w \in Worker : pc[w] \notin {"call", "ack", "reply", "halt"}
           /\ \A w \in Worker : pc[w] = "deliver" => free(args[w].sock) = 0
           /\ \A w \in Worker : pc[w] = "fetch" => q(args[w].sock) = 0
           /\ \A w \in Worker : pc[w] = "called" => done(args[w].sock) = 0
           /\ q(tcpip) = 0 /\ pc[tcpip] # "serve"
           /\ \A s \in Socket : done(s) = 0
           /\ \A k \in Kind, x \in Thing : ~Token(k, x)
<1>1. ASSUME NEW t \in Lwip
      PROVE  waits[t] # None /\ Needs(t) \in Sem /\ ~Down(Needs(t)) /\ pc[t] \in {"fetch", "call", "called", "deliver"}
  <2>1. waits[t] # None /\ ~Down(Needs(t)) /\ Needs(t) \in Sem
    BY DEF Quiet, NetInv, WaitInv
  <2>. QED  BY <2>1, NeedsAre, Names DEF NetInv
<1>2. \A w \in Worker : pc[w] # "none" => args[w].sock \in Socket
  BY DEF NetInv, BaseInv, WorkerInv
<1>3. q(tcpip) = 0 /\ pc[tcpip] = "fetch"
  <2>1. tcpip \in Lwip /\ pc[tcpip] \in {"fetch", "serve"}
    BY DEF Lwip, NetInv, BaseInv, LwipInv
  <2>2. pc[tcpip] = "fetch"
    BY <2>1, <1>1
  <2>3. ~Down(queued_msg(tcpip))
    BY <2>1, <2>2, <1>1, NeedsAre DEF NetInv
  <2>. QED  BY <2>2, <2>3, Numbers DEF Down, q
<1>4. ASSUME NEW w \in Worker, pc[w] # "none"
      PROVE  /\ pc[w] \in {"fetch", "called", "deliver"}
             /\ pc[w] = "fetch" => q(args[w].sock) = 0
             /\ pc[w] = "called" => done(args[w].sock) = 0
             /\ pc[w] = "deliver" => free(args[w].sock) = 0
  <2>1. w \in Lwip /\ args[w].sock \in Socket
    BY <1>2, <1>4, Runner DEF NetInv
  <2>2. ~Down(Needs(w)) /\ pc[w] \in {"fetch", "call", "called", "deliver"}
    BY <2>1, <1>1
  <2>3. pc[w] # "call"
    <3>1. free(tcpip) > 0
      BY <1>3, Numbers
    <3>. QED  BY <3>1, <2>2, NeedsAre DEF NetInv, Down, free
  <2>4. /\ pc[w] = "fetch" => ~Down(queued_msg(args[w].sock))
        /\ pc[w] = "called" => ~Down(<<"done", args[w].sock>>)
        /\ pc[w] = "deliver" => ~Down(free_msg(args[w].sock))
    BY <2>2, NeedsAre DEF NetInv
  <2>. QED  BY <2>1, <2>2, <2>3, <2>4, Numbers DEF Down, q, free, done
<1>5. \A s \in Socket : done(s) = 0
  <2>1. ASSUME NEW s \in Socket, done(s) # 0
        PROVE  FALSE
    <3>1. done(s) = 1
      BY <2>1, Numbers DEF NetInv, TokenInv, CallInv
    <3>2. PICK w \in Calling(s) : TRUE
      BY <3>1 DEF NetInv, TokenInv, CallInv
    <3>. QED  BY <3>1, <3>2, <1>4 DEF Calling
  <2>. QED  BY <2>1
<1>6. ASSUME NEW k \in Kind, NEW x \in Thing
      PROVE  ~Token(k, x)
  <2>1. ~(x \in Worker /\ pc[x] \in {"call", "ack"})
    BY <1>4
  <2>2. ~(x \in Socket /\ done(x) > 0)
    BY <1>5
  <2>3. ~(x \in Socket /\ Receivers(x) # {} /\ (q(x) > 0 \/ Deliverers(x) # {}))
    <3>1. ASSUME x \in Socket, NEW w \in Receivers(x) PROVE q(x) = 0
      BY <3>1, <1>4 DEF Receivers
    <3>2. ASSUME x \in Socket, NEW w \in Deliverers(x) PROVE free(x) = 0
      BY <3>2, <1>4 DEF Deliverers
    <3>. QED  BY <3>1, <3>2, Numbers
  <2>. QED  BY <2>1, <2>2, <2>3, <1>3 DEF Token
<1>7. \A w \in Worker : pc[w] \notin {"call", "ack", "reply", "halt"}
  BY <1>4
<1>. QED  BY <1>3, <1>4, <1>5, <1>6, <1>7

LEMMA SameNeeds ==
    ASSUME NetInv, Live' = Live, \A t \in Lwip : pc'[t] = pc[t] /\ args'[t].sock = args[t].sock
    PROVE  Lwip' = Lwip /\ \A t \in Lwip : Needs(t)' = Needs(t)
BY DEF Needs, Lwip

LEMMA SameDown ==
    ASSUME NetInv, \A m \in Mbox : q(m)' = q(m) /\ free(m)' = free(m), \A s \in Socket : done(s)' = done(s),
           NEW r \in Sem
    PROVE  Down(r)' <=> Down(r)
<1>1. \/ \E m \in Mbox : r = queued_msg(m) \/ r = free_msg(m)
      \/ \E s \in Socket : r = <<"done", s>>
  BY Constants DEF Sem, queued_msg, free_msg
<1>. QED  BY <1>1 DEF Down, q, free, done

\* Steps of the main thread that the threads do not see.
LEMMA Unseen ==
    ASSUME NetInv, UNCHANGED <<tvars, args, write_msg>>,
           \A t \in Thread : t # main => pc'[t] = pc[t], Live' = Live,
           ns'.i = 0 \/ ns'.i = ns.i
    PROVE  /\ WaitInv' /\ TokenInv' /\ RoundInv'
           /\ Quiet' <=> Quiet
           /\ \A c : For(c)' = For(c)
<1>1. Lwip \subseteq Thread /\ main \notin Lwip /\ Worker \subseteq Thread /\ main \notin Worker
  BY Runner, Names DEF NetInv
<1>2. SameFrames /\ mboxes' = mboxes
  BY <1>1 DEF SameFrames, tvars, q, free, done
<1>3. TokenInv'
  BY <1>2, SameCalls
<1>4. Lwip' = Lwip /\ \A t \in Lwip : Needs(t)' = Needs(t)
  BY <1>2, SameNeeds DEF SameFrames
<1>5. \A t : Ahead(t)' <=> Ahead(t)
  BY DEF Ahead, tvars
<1>6. WaitInv'
  BY <1>4, <1>5 DEF NetInv, WaitInv, Down, tvars
<1>7. Quiet' <=> Quiet
  BY <1>4 DEF Quiet, Down, tvars
<1>8. \A c : For(c)' = For(c)
  BY <1>1 DEF For, Live
<1>9. RoundInv'
  <2>1. \A s : Receivers(s)' = Receivers(s) /\ Deliverers(s)' = Deliverers(s) /\ Calling(s)' = Calling(s)
    BY <1>2, SameSets
  <2>2. \A n \in {0, 1, 2, 3, 4} : (ns.i <= n => ns'.i <= n) /\ (ns.i = 0 => ns'.i = 0) /\ (ns.i = 1 => ns'.i = 1 \/ ns'.i = 0)
    BY Numbers
  <2>3. /\ \A m \in Mbox : q(m)' = q(m)
        /\ \A s \in Socket : done(s)' = done(s) /\ q(s)' = q(s)
        /\ tcpip \in Mbox /\ pc'[tcpip] = pc[tcpip] /\ tc_wakeup' = tc_wakeup
        /\ \A w \in Worker : pc'[w] = pc[w]
    BY <1>1, <1>2, Sems, Names DEF SameFrames, tvars
  <2>4. /\ \A w \in Worker : pc'[w] = "call" => ns'.i <= 1 /\ Ahead(w)'
        /\ q(tcpip)' > 0 => ns'.i <= 1 \/ (ns'.i <= 2 /\ Ahead(tcpip)')
        /\ pc'[tcpip] = "serve" => ns'.i <= 2
        /\ \A w \in Worker : pc'[w] = "ack" => ns'.i = 0 /\ Ahead(w)'
        /\ \A t \in tc_wakeup' : ns'.i <= 3 \/ (ns'.i <= 4 /\ Ahead(t)')
    BY <1>5, <2>2, <2>3 DEF NetInv, RoundInv
  <2>5. ASSUME NEW s \in Socket
        PROVE  /\ done(s)' > 0 => ns'.i <= 2 \/ (ns'.i <= 3 /\ \A w \in Calling(s)' : Ahead(w)')
               /\ Receivers(s)' # {} /\ q(s)' > 0 =>
                    ns'.i = 0 \/ (ns'.i = 1 /\ \A w \in Receivers(s)' : Ahead(w)')
               /\ Receivers(s)' # {} /\ q(s)' = 0 =>
                    \A w \in Deliverers(s)' : ns'.i = 0 /\ Ahead(w)'
    BY <1>5, <2>1, <2>2, <2>3 DEF NetInv, RoundInv
  <2>. QED  BY <2>4, <2>5 DEF RoundInv
<1>. QED  BY <1>3, <1>6, <1>7, <1>8, <1>9

LEMMA RequestStep == ASSUME NetInv, NEW c \in Client, Request(c) PROVE NetInv'
<1>1. PICK op \in {"send", "recv"}, s \in SocketsOf[c] : Message([op |-> op, whom |-> c, sock |-> s, req |-> ns.va])
  BY DEF Request
<1>. DEFINE m == [op |-> op, whom |-> c, sock |-> s, req |-> ns.va]
<1>2. cur_tc = main /\ pc[main] = "recv" /\ Goto("got") /\ cl[c] = "idle" /\ cl' = [cl EXCEPT ![c] = "sent"]
  BY <1>1 DEF Request, Receiving, Message, Goto
<1>3. ns' = [ns EXCEPT !.msg = m] /\ UNCHANGED <<tvars, args, write_msg>>
  BY <1>1 DEF Request, Message
<1>4. ns'.msg = m /\ ns'.i = ns.i /\ m.whom = c
  BY <1>3 DEF NetInv, BaseInv, Types
<1>5. pc'[main] = "got" /\ Live' = Live /\ \A t \in Thread : t # main => pc'[t] = pc[t]
  BY <1>2, Going DEF NetInv
<1>6. BaseInv'
  BY RequestBase DEF NetInv
<1>7. WaitInv' /\ TokenInv' /\ RoundInv' /\ (Quiet' <=> Quiet) /\ \A d : For(d)' = For(d)
  BY <1>3, <1>4, <1>5, Unseen
<1>8. QuietInv'
  BY <1>2, <1>3, <1>7 DEF NetInv, QuietInv, tvars
<1>9. ClientInv'
  <2>1. For(c) = {}
    BY <1>2 DEF NetInv, ClientInv
  <2>2. cl'[c] = "sent" /\ \A d \in Client : d # c => cl'[d] = cl[d]
    BY <1>2 DEF NetInv, BaseInv, Types
  <2>. QED  BY <2>1, <2>2, <1>4, <1>7 DEF NetInv, ClientInv
<1>. QED  BY <1>6, <1>7, <1>8, <1>9 DEF NetInv

LEMMA BareRequestStep == ASSUME NetInv, NEW c \in Client, BareRequest(c) PROVE NetInv'
<1>. DEFINE m == [NoArgs EXCEPT !.op = "bare", !.whom = c]
<1>1. cur_tc = main /\ pc[main] = "recv" /\ Goto("got") /\ cl[c] = "idle" /\ cl' = [cl EXCEPT ![c] = "sent"]
  BY DEF BareRequest, Receiving, Message, Goto
<1>2. ns' = [ns EXCEPT !.msg = m] /\ UNCHANGED <<tvars, args, write_msg>>
  BY DEF BareRequest, Message
<1>3. ns'.msg = m /\ ns'.i = ns.i /\ m.whom = c
  BY <1>2 DEF NetInv, BaseInv, Types, NoArgs
<1>4. pc'[main] = "got" /\ Live' = Live /\ \A t \in Thread : t # main => pc'[t] = pc[t]
  BY <1>1, Going DEF NetInv
<1>5. BaseInv'
  BY BareRequestBase DEF NetInv
<1>6. WaitInv' /\ TokenInv' /\ RoundInv' /\ (Quiet' <=> Quiet) /\ \A d : For(d)' = For(d)
  BY <1>2, <1>3, <1>4, Unseen
<1>7. QuietInv'
  BY <1>1, <1>2, <1>6 DEF NetInv, QuietInv, tvars
<1>8. ClientInv'
  <2>1. For(c) = {}
    BY <1>1 DEF NetInv, ClientInv
  <2>2. cl'[c] = "sent" /\ \A d \in Client : d # c => cl'[d] = cl[d]
    BY <1>1 DEF NetInv, BaseInv, Types
  <2>. QED  BY <2>1, <2>2, <1>3, <1>6 DEF NetInv, ClientInv
<1>. QED  BY <1>5, <1>6, <1>7, <1>8 DEF NetInv

LEMMA AwaitStep == ASSUME NetInv, NEW c \in Client, Await(c) PROVE NetInv'
<1>1. UNCHANGED <<tvars, pc, args, write_msg, buse, ns, ns_timer, kept, env_ipc_perm>> /\ cl[c] = "sent" /\ cl' = [cl EXCEPT ![c] = "wait"]
  BY DEF Await
<1>2. Live' = Live
  BY <1>1 DEF Live
<1>3. WaitInv' /\ TokenInv' /\ RoundInv' /\ (Quiet' <=> Quiet) /\ \A d : For(d)' = For(d)
  BY <1>1, <1>2, Unseen
<1>4. QuietInv'
  BY <1>1, <1>3 DEF NetInv, QuietInv, tvars
<1>5. ClientInv'
  <2>1. cl'[c] = "wait" /\ \A d \in Client : d # c => cl'[d] = cl[d]
    BY <1>1 DEF NetInv, BaseInv, Types
  <2>. QED  BY <2>1, <1>1, <1>3 DEF NetInv, ClientInv
<1>. QED  BY <1>3, <1>4, <1>5, AwaitBase DEF NetInv

\* Messages from nobody who waits for an answer of a thread.
LEMMA NobodysStep ==
    ASSUME NetInv, Receiving, NEW m, Message(m), m.whom = None,
           UNCHANGED <<tvars, args, write_msg, cl>>, BaseInv'
    PROVE  NetInv'
<1>1. cur_tc = main /\ pc[main] = "recv" /\ Goto("got")
  BY DEF Receiving, Message, Goto
<1>2. ns'.msg = m /\ ns'.i = ns.i
  BY DEF Message, NetInv, BaseInv, Types
<1>3. pc'[main] = "got" /\ Live' = Live /\ \A t \in Thread : t # main => pc'[t] = pc[t]
  BY <1>1, Going DEF NetInv
<1>4. WaitInv' /\ TokenInv' /\ RoundInv' /\ (Quiet' <=> Quiet) /\ \A d : For(d)' = For(d)
  BY <1>2, <1>3, Unseen
<1>5. QuietInv'
  BY <1>1, <1>4 DEF NetInv, QuietInv, tvars
<1>6. ClientInv'
  BY <1>2, <1>4, Names DEF NetInv, ClientInv
<1>. QED  BY <1>4, <1>5, <1>6 DEF NetInv

LEMMA InputStep == ASSUME NetInv, NEW s \in Socket, Input(s) PROVE NetInv'
<1>1. PICK op \in {"input"} \cup {"ack" : r \in {s} \cap Slow} :
        Message([op |-> op, whom |-> None, sock |-> s, req |-> ns.va])
  BY DEF Input
<1>2. Receiving /\ UNCHANGED <<tvars, args, write_msg, cl>>
  BY DEF Input
<1>3. BaseInv'
  BY InputBase DEF NetInv
<1>. QED  BY <1>1, <1>2, <1>3, NobodysStep

LEMMA TickStep == ASSUME NetInv, Tick PROVE NetInv'
<1>1. [NoArgs EXCEPT !.op = "timer"].whom = None
  BY DEF NoArgs
<1>2. Receiving /\ Message([NoArgs EXCEPT !.op = "timer"]) /\ UNCHANGED <<tvars, args, write_msg, cl>>
  BY DEF Tick
<1>3. BaseInv'
  BY TickBase DEF NetInv
<1>. QED  BY <1>1, <1>2, <1>3, NobodysStep

\* The loop of serve() ends because there is nothing left to do.
LEMMA get_bufferStep == ASSUME NetInv, get_buffer PROVE NetInv'
<1>1. /\ cur_tc = main /\ pc[main] = "flush" /\ (tc_wakeup = {} \/ ns.i >= MaxYields)
      /\ UNCHANGED <<tvars, args, write_msg, cl, ns_timer, kept, env_ipc_perm>>
  BY DEF get_buffer, thread_wakeups_pending
<1>2. (Goto("panic") /\ ns' = ns) \/ (Goto("recv") /\ \E b \in Free : ns' = [Start EXCEPT !.va = b])
  BY DEF get_buffer
<1>3. /\ pc'[main] \in {"panic", "recv"} /\ Live' = Live
      /\ \A t \in Thread : t # main => pc'[t] = pc[t]
  BY <1>1, <1>2, Going DEF NetInv
<1>4. ns'.i = 0 \/ ns'.i = ns.i
  BY <1>2, StartFacts
<1>5. WaitInv' /\ TokenInv' /\ RoundInv' /\ (Quiet' <=> Quiet) /\ \A d : For(d)' = For(d)
  BY <1>1, <1>3, <1>4, Unseen
<1>6. \A t : ~Ahead(t)
  BY <1>1, Nobody DEF NetInv, BaseInv
<1>7. tc_wakeup = {}
  <2>1. CASE ns.i >= MaxYields
    <3>1. \A t \in tc_wakeup : ns.i <= 3
      BY <1>6 DEF NetInv, RoundInv
    <3>. QED  BY <2>1, <3>1, Numbers DEF MaxYields
  <2>. QED  BY <2>1, <1>1
<1>8. Quiet
  BY <1>6, <1>7 DEF NetInv, WaitInv, Quiet
<1>9. QuietInv'
  BY <1>1, <1>5, <1>8 DEF QuietInv, tvars
<1>10. ClientInv'
  BY <1>1, <1>3, <1>5 DEF NetInv, ClientInv
<1>. QED  BY <1>5, <1>9, <1>10, get_bufferBase DEF NetInv

LEMMA TimerAnswerStep == ASSUME NetInv, TimerAnswer PROVE NetInv'
<1>1. cur_tc = main /\ Goto("flush") /\ ns' = Start /\ UNCHANGED <<tvars, args, write_msg, cl>>
  BY DEF TimerAnswer
<1>2. pc'[main] = "flush" /\ Live' = Live /\ \A t \in Thread : t # main => pc'[t] = pc[t]
  BY <1>1, Going DEF NetInv
<1>3. ns'.i = 0
  BY <1>1, StartFacts
<1>4. WaitInv' /\ TokenInv' /\ RoundInv' /\ (Quiet' <=> Quiet) /\ \A d : For(d)' = For(d)
  BY <1>1, <1>2, <1>3, Unseen
<1>5. QuietInv'
  BY <1>2 DEF QuietInv
<1>6. ClientInv'
  BY <1>1, <1>2, <1>4 DEF NetInv, ClientInv
<1>. QED  BY <1>4, <1>5, <1>6, TimerAnswerBase DEF NetInv

\* The main thread yields: who can go on goes before it has its turn again.
LEMMA MainYieldStep ==
    ASSUME NetInv, cur_tc = main, thread_yield,
           UNCHANGED <<waits, tc_wakeup, sems, mboxes, args, write_msg, cl>>,
           \A t \in Thread : t # main => pc'[t] = pc[t], Live' = Live,
           ns'.i = ns.i \/ ns'.i = ns.i + 1,
           pc[main] # "got" => pc'[main] # "got", pc'[main] \notin {"recv", "got"}, BaseInv'
    PROVE  NetInv'
<1>1. Lwip \subseteq Thread /\ main \notin Lwip /\ Worker \subseteq Thread /\ main \notin Worker
  BY Runner, Names DEF NetInv
<1>2. SameFrames /\ mboxes' = mboxes
  BY <1>1 DEF SameFrames, q, free, done
<1>3. TokenInv'
  BY <1>2, SameCalls
<1>4. Lwip' = Lwip /\ \A t \in Lwip : Needs(t)' = Needs(t)
  BY <1>2, SameNeeds DEF SameFrames
<1>5. \A t : ~Ahead(t)
  BY Nobody DEF NetInv, BaseInv
<1>6. \A t \in Lwip : Ahead(t)'
  BY MainYields DEF NetInv, BaseInv
<1>7. WaitInv'
  BY <1>4, <1>6 DEF NetInv, WaitInv, Down
<1>8. \A c : For(c)' = For(c)
  BY <1>1 DEF For, Live
<1>9. ClientInv' /\ QuietInv'
  BY <1>8 DEF NetInv, ClientInv, QuietInv
<1>10. RoundInv'
  <2>1. \A s : Receivers(s)' = Receivers(s) /\ Deliverers(s)' = Deliverers(s) /\ Calling(s)' = Calling(s)
    BY <1>2, SameSets
  <2>2. /\ \A n \in {0, 1, 2, 3} : ns.i <= n => ns'.i <= n + 1
        /\ ns.i = 0 => ns'.i = 0 \/ ns'.i = 1
    BY Numbers
  <2>3. /\ \A s \in Socket : done(s)' = done(s) /\ q(s)' = q(s)
        /\ q(tcpip)' = q(tcpip) /\ pc'[tcpip] = pc[tcpip] /\ tcpip \in Lwip
        /\ \A w \in Worker : pc'[w] = pc[w]
    BY <1>1, <1>2, Sems, Names DEF SameFrames, Lwip
  <2>4. pc[tcpip] # "serve" /\ \A w \in Worker : pc[w] \notin {"call", "ack"}
    BY <1>5, Names DEF NetInv, RoundInv, BaseInv, LwipInv
  <2>5. \A s \in Socket : Calling(s) \subseteq Lwip /\ Receivers(s) \subseteq Lwip
    BY DEF Calling, Receivers, Lwip, Live
  <2>6. tc_wakeup \subseteq Lwip
    <3>1. \A t \in tc_wakeup : t \in Thread /\ waits[t] # None
      BY DEF NetInv, BaseInv, Types
    <3>. QED  BY <3>1, Names DEF NetInv, BaseInv, MainInv, WorkerInv, Lwip, Live
  <2>7. q(tcpip)' > 0 => ns'.i <= 1 \/ (ns'.i <= 2 /\ Ahead(tcpip)')
    <3>1. q(tcpip) > 0 => ns.i <= 1
      BY <1>5 DEF NetInv, RoundInv
    <3>2. 1 + 1 = 2
      OBVIOUS
    <3>. QED  BY <3>1, <3>2, <1>6, <2>2, <2>3
  <2>8. \A t \in tc_wakeup' : ns'.i <= 3 \/ (ns'.i <= 4 /\ Ahead(t)')
    <3>1. \A t \in tc_wakeup : ns.i <= 3
      BY <1>5 DEF NetInv, RoundInv
    <3>2. 3 + 1 = 4
      OBVIOUS
    <3>. QED  BY <3>1, <3>2, <1>6, <2>2, <2>6
  <2>9. ASSUME NEW s \in Socket
        PROVE  /\ done(s)' > 0 => ns'.i <= 2 \/ (ns'.i <= 3 /\ \A w \in Calling(s)' : Ahead(w)')
               /\ Receivers(s)' # {} /\ q(s)' > 0 =>
                    ns'.i = 0 \/ (ns'.i = 1 /\ \A w \in Receivers(s)' : Ahead(w)')
               /\ Receivers(s)' # {} /\ q(s)' = 0 =>
                    \A w \in Deliverers(s)' : ns'.i = 0 /\ Ahead(w)'
    <3>1. done(s) > 0 => ns.i <= 2
      <4>1. CASE \E w \in Calling(s) : TRUE
        BY <4>1, <1>5 DEF NetInv, RoundInv
      <4>2. CASE ~\E w \in Calling(s) : TRUE
        BY <4>2, Numbers DEF NetInv, TokenInv, CallInv
      <4>. QED  BY <4>1, <4>2
    <3>2. Receivers(s) # {} /\ q(s) > 0 => ns.i = 0
      BY <1>5 DEF NetInv, RoundInv
    <3>3. Receivers(s) # {} /\ q(s) = 0 => Deliverers(s) = {}
      BY <1>5 DEF NetInv, RoundInv
    <3>4. 2 + 1 = 3
      OBVIOUS
    <3>. QED  BY <3>1, <3>2, <3>3, <3>4, <1>6, <2>1, <2>2, <2>3, <2>5
  <2>. QED  BY <2>3, <2>4, <2>7, <2>8, <2>9 DEF RoundInv
<1>. QED  BY <1>3, <1>7, <1>9, <1>10 DEF NetInv

LEMMA FlushStep == ASSUME NetInv, Flush PROVE NetInv'
<1>1. /\ cur_tc = main /\ pc[main] = "flush" /\ thread_yield /\ ns' = [ns EXCEPT !.i = @ + 1]
      /\ UNCHANGED <<waits, tc_wakeup, sems, mboxes, pc, args, write_msg, buse, cl, ns_timer, kept, env_ipc_perm>>
  BY DEF Flush
<1>2. ns'.i = ns.i + 1
  BY <1>1 DEF NetInv, BaseInv, Types
<1>3. Live' = Live /\ BaseInv'
  BY <1>1, FlushBase DEF Live, NetInv
<1>. QED  BY <1>1, <1>2, <1>3, MainYieldStep

LEMMA TimerYieldStep == ASSUME NetInv, TimerYield PROVE NetInv'
<1>1. /\ cur_tc = main /\ pc[main] = "got" /\ Goto("timer") /\ thread_yield
      /\ UNCHANGED <<waits, tc_wakeup, sems, mboxes, args, write_msg, buse, ns, cl, ns_timer, kept, env_ipc_perm>>
  BY DEF TimerYield
<1>2. pc'[main] = "timer" /\ Live' = Live /\ \A t \in Thread : t # main => pc'[t] = pc[t]
  BY <1>1, Going DEF NetInv
<1>3. BaseInv'
  BY TimerYieldBase DEF NetInv
<1>. QED  BY <1>1, <1>2, <1>3, MainYieldStep

LEMMA DropStep ==
    ASSUME NetInv, BaseInv', cur_tc = main, NEW p \in {"flush", "panic"}, Goto(p), ns' = Start,
           UNCHANGED <<tvars, args, write_msg, cl>>
    PROVE  NetInv'
<1>1. pc'[main] = p /\ Live' = Live /\ \A t \in Thread : t # main => pc'[t] = pc[t]
  BY Going DEF NetInv
<1>2. ns'.i = 0
  BY StartFacts
<1>3. WaitInv' /\ TokenInv' /\ RoundInv' /\ (Quiet' <=> Quiet) /\ \A d : For(d)' = For(d)
  BY <1>1, <1>2, Unseen
<1>4. QuietInv'
  BY <1>1 DEF QuietInv
<1>5. ClientInv'
  BY <1>1, <1>3 DEF NetInv, ClientInv
<1>. QED  BY <1>3, <1>4, <1>5 DEF NetInv

LEMMA UnpagedStep == ASSUME NetInv, Unpaged PROVE NetInv'
<1>1. PICK p \in {"flush", "panic"} : Goto(p)
  BY DEF Unpaged
<1>2. cur_tc = main /\ ns' = Start /\ UNCHANGED <<tvars, args, write_msg, cl>>
  BY DEF Unpaged
<1>3. BaseInv'
  BY UnpagedBase DEF NetInv
<1>. QED  BY <1>1, <1>2, <1>3, DropStep

LEMMA ThreadFailsStep == ASSUME NetInv, ThreadFails PROVE NetInv'
<1>1. cur_tc = main /\ pc[main] = "got" /\ ns' = Start /\ UNCHANGED <<args, write_msg, cl>>
  BY DEF ThreadFails
<1>2. BaseInv'
  BY ThreadFailsBase DEF NetInv
<1>3. CASE Goto("panic") /\ UNCHANGED tvars
  BY <1>1, <1>2, <1>3, DropStep
<1>4. CASE Goto("flush") /\ thread_yield /\ UNCHANGED <<waits, tc_wakeup, sems, mboxes>>
  <2>1. pc'[main] = "flush" /\ Live' = Live /\ \A t \in Thread : t # main => pc'[t] = pc[t]
    BY <1>1, <1>4, Going DEF NetInv
  <2>2. ns'.i = ns.i
    BY <1>1, StartFacts DEF NetInv, BaseInv, MainInv
  <2>. QED  BY <1>1, <1>2, <1>4, <2>1, <2>2, MainYieldStep
<1>. QED  BY <1>3, <1>4 DEF ThreadFails

LEMMA Only ==
    ASSUME NetInv
    PROVE  /\ \A w \in Worker : ~(Token("call", w) /\ Token("queued", tcpip))
           /\ \A k \in Kind : \A x \in Thing : \A l \in Kind : \A y \in Thing :
                Token(k, x) /\ Token(l, y) => k = l /\ x = y
           /\ {"call", "queued", "serve", "done", "sock", "ack"} \subseteq Kind
           /\ Worker \subseteq Thing /\ Socket \subseteq Thing /\ tcpip \in Thing
<1>1. /\ \A k \in Kind : \A x \in Thing : \A l \in Kind : \A y \in Thing :
           Token(k, x) /\ Token(l, y) => k = l /\ x = y
  BY DEF NetInv, TokenInv, OneToken
<1>2. /\ {"call", "queued", "serve", "done", "sock", "ack"} \subseteq Kind
      /\ Worker \subseteq Thing /\ Socket \subseteq Thing /\ tcpip \in Thing
  BY DEF Kind, Thing
<1>3. "call" # "queued" /\ "call" \in Kind /\ "queued" \in Kind
  BY DEF Kind
<1>. QED  BY <1>1, <1>2, <1>3

\* Who has to wait has nothing that could go on.
LEMMA Idle ==
    ASSUME NetInv, NEW t \in Lwip, Needs(t) \in Sem, ~Down(Needs(t))
    PROVE  /\ t \in Worker => pc[t] \notin {"call", "ack"}
           /\ t = tcpip => q(tcpip) = 0 /\ pc[tcpip] # "serve"
           /\ \A s \in Socket : /\ t \in Calling(s) => done(s) = 0
                                /\ t \in Receivers(s) => q(s) = 0
                                /\ t \in Deliverers(s) => free(s) = 0 /\ q(s) > 0
<1>1. pc[t] \in {"fetch", "call", "called", "deliver"} /\ tcpip \notin Worker
  BY NeedsAre, Names DEF NetInv
<1>2. ASSUME t \in Worker, pc[t] = "call"
      PROVE  FALSE
  <2>1. ~Down(free_msg(tcpip))
    BY <1>2, NeedsAre DEF NetInv
  <2>2. free(tcpip) = 0 /\ q(tcpip) > 0
    BY <2>1, Numbers DEF Down, free
  <2>3. Token("call", t) /\ Token("queued", tcpip)
    BY <1>2, <2>2 DEF Token
  <2>. QED  BY <2>3, <1>2, Only
<1>3. ASSUME t = tcpip
      PROVE  q(tcpip) = 0 /\ pc[tcpip] # "serve"
  <2>1. pc[tcpip] = "fetch"
    BY <1>1, <1>3 DEF NetInv, BaseInv, LwipInv
  <2>2. ~Down(queued_msg(tcpip))
    BY <1>3, <2>1, NeedsAre DEF NetInv
  <2>. QED  BY <2>1, <2>2, Numbers DEF Down, q
<1>4. ASSUME NEW s \in Socket
      PROVE  /\ t \in Calling(s) => done(s) = 0
             /\ t \in Receivers(s) => q(s) = 0
             /\ t \in Deliverers(s) => free(s) = 0 /\ q(s) > 0
  <2>1. /\ t \in Calling(s) => Needs(t) = <<"done", s>>
        /\ t \in Receivers(s) => Needs(t) = queued_msg(s)
        /\ t \in Deliverers(s) => Needs(t) = free_msg(s)
    BY NeedsAre DEF NetInv, Calling, Receivers, Deliverers
  <2>. QED  BY <2>1, Numbers DEF Down, done, q, free
<1>. QED  BY <1>1, <1>2, <1>3, <1>4

\* A thread that is not mentioned goes behind the main thread.
LEMMA RoundStep ==
    ASSUME NetInv, SameFrames, NEW t \in Lwip, cur_tc = t,
           \A x : Ahead(x) /\ x # t => Ahead(x)',
           ns'.i = ns.i, tc_wakeup' \subseteq tc_wakeup,
           Ahead(t)' \/ (Needs(t) \in Sem /\ ~Down(Needs(t)) /\ t \notin tc_wakeup')
    PROVE  RoundInv'
<1>1. \A s : Receivers(s)' = Receivers(s) /\ Deliverers(s)' = Deliverers(s) /\ Calling(s)' = Calling(s)
  BY SameSets
<1>2. /\ \A s \in Socket : done(s)' = done(s) /\ q(s)' = q(s) /\ q(s) \in Nat
      /\ q(tcpip)' = q(tcpip) /\ q(tcpip) \in Nat /\ pc'[tcpip] = pc[tcpip]
      /\ \A w \in Worker : pc'[w] = pc[w]
  BY Sems, Numbers DEF SameFrames, Lwip
<1>3. CASE Ahead(t)'
  <2>1. \A x : Ahead(x) => Ahead(x)'
    BY <1>3
  <2>. QED  BY <2>1, <1>1, <1>2 DEF NetInv, RoundInv
<1>4. CASE Needs(t) \in Sem /\ ~Down(Needs(t)) /\ t \notin tc_wakeup'
  <2>1. /\ t \in Worker => pc[t] \notin {"call", "ack"}
        /\ t = tcpip => q(tcpip) = 0 /\ pc[tcpip] # "serve"
        /\ \A s \in Socket : /\ t \in Calling(s) => done(s) = 0
                             /\ t \in Receivers(s) => q(s) = 0
                             /\ t \in Deliverers(s) => q(s) > 0
    BY <1>4, Idle
  <2>2. /\ \A w \in Worker : pc'[w] = "call" => ns'.i <= 1 /\ Ahead(w)'
        /\ q(tcpip)' > 0 => ns'.i <= 1 \/ (ns'.i <= 2 /\ Ahead(tcpip)')
        /\ pc'[tcpip] = "serve" => ns'.i <= 2
        /\ \A w \in Worker : pc'[w] = "ack" => ns'.i = 0 /\ Ahead(w)'
        /\ \A x \in tc_wakeup' : ns'.i <= 3 \/ (ns'.i <= 4 /\ Ahead(x)')
    BY <2>1, <1>2, <1>4 DEF NetInv, RoundInv
  <2>3. ASSUME NEW s \in Socket
        PROVE  /\ done(s)' > 0 => ns'.i <= 2 \/ (ns'.i <= 3 /\ \A w \in Calling(s)' : Ahead(w)')
               /\ Receivers(s)' # {} /\ q(s)' > 0 =>
                    ns'.i = 0 \/ (ns'.i = 1 /\ \A w \in Receivers(s)' : Ahead(w)')
               /\ Receivers(s)' # {} /\ q(s)' = 0 =>
                    \A w \in Deliverers(s)' : ns'.i = 0 /\ Ahead(w)'
    <3>1. done(s) > 0 => t \notin Calling(s)
      BY <2>1
    <3>2. q(s) > 0 => t \notin Receivers(s)
      BY <2>1
    <3>3. q(s) = 0 => t \notin Deliverers(s)
      BY <2>1
    <3>. QED  BY <3>1, <3>2, <3>3, <1>1, <1>2 DEF NetInv, RoundInv
  <2>. QED  BY <2>2, <2>3 DEF RoundInv
<1>. QED  BY <1>3, <1>4

LEMMA Busy ==
    ASSUME NetInv, cur_tc # main
    PROVE  cur_tc \in Lwip /\ cur_tc \in Thread /\ pc[main] \notin {"recv", "got"}
BY Runner DEF NetInv, BaseInv, MainInv

LEMMA SameClients ==
    ASSUME NetInv, UNCHANGED <<pc, args, ns, cl>>
    PROVE  ClientInv'
<1>1. \A c : For(c)' = For(c)
  BY DEF For, Live
<1>. QED  BY <1>1 DEF NetInv, ClientInv

LEMMA SemWaitStep == ASSUME NetInv, SemWait PROVE NetInv'
<1>. DEFINE t == cur_tc
            s == Needs(cur_tc)
<1>1. /\ cur_tc # main /\ waits[t] = None /\ s # None /\ Block(s)
      /\ UNCHANGED <<pc, args, write_msg, buse, ns, cl, ns_timer, kept, env_ipc_perm>>
  BY DEF SemWait
<1>2. t \in Lwip /\ t \in Thread /\ s \in Sem /\ pc[main] \notin {"recv", "got"}
  BY <1>1, Busy, NeedsAre DEF NetInv
<1>3. /\ \A r \in Sem : sems'[r].counter = sems[r].counter
      /\ \A r \in Sem : sems'[r].waiters = IF r = s THEN 1 ELSE sems[r].waiters
      /\ waits'[t] # None /\ waits'[t].sem = s
      /\ \A x \in Thread : x # t => waits'[x] = waits[x]
      /\ tc_wakeup' = tc_wakeup \ {t}
      /\ thread_yield /\ UNCHANGED mboxes /\ ~Down(s)
  BY <1>1, <1>2, BlockStep DEF NetInv
<1>4. SameFrames /\ Live' = Live /\ \A r \in Sem : Down(r)' <=> Down(r)
  BY <1>1, <1>3, Sems DEF SameFrames, q, free, done, Live, Down
<1>5. Lwip' = Lwip /\ \A x \in Lwip : Needs(x)' = Needs(x)
  BY <1>4, SameNeeds DEF SameFrames
<1>6. \A x : Ahead(x) /\ x # t => Ahead(x)'
  BY <1>1, <1>3, YieldAhead DEF NetInv, BaseInv
<1>7. WaitInv'
  <2>1. ASSUME NEW x \in Lwip
        PROVE  /\ waits'[x] # None =>
                    /\ Needs(x) \in Sem /\ waits'[x].sem = Needs(x)
                    /\ x \in tc_wakeup' \/ (sems'[Needs(x)].counter <= 0 /\ sems'[Needs(x)].waiters = 1)
                    /\ x \in tc_wakeup' \/ ~(sems'[Needs(x)].counter > 0)
               /\ waits'[x] = None => Ahead(x)'
    <3>1. CASE x = t
      <4>1. /\ waits'[t] # None /\ waits'[t].sem = Needs(t) /\ Needs(t) \in Sem
            /\ ~Down(Needs(t)) /\ sems'[Needs(t)].waiters = 1
        BY <1>2, <1>3
      <4>2. sems'[Needs(t)].counter = sems[Needs(t)].counter /\ sems[Needs(t)].counter \in Nat
        BY <1>2, <1>3 DEF NetInv, BaseInv, Types
      <4>. QED  BY <3>1, <4>1, <4>2 DEF Down
    <3>2. CASE x # t
      <4>1. waits'[x] = waits[x]
        BY <3>2, <1>3, Runner DEF NetInv
      <4>2. Needs(x) \in Sem => sems'[Needs(x)].counter = sems[Needs(x)].counter /\ sems[Needs(x)].counter \in Nat
        BY <1>3 DEF NetInv, BaseInv, Types
      <4>. QED  BY <3>2, <4>1, <4>2, <1>3, <1>6 DEF NetInv, WaitInv, Down
    <3>. QED  BY <3>1, <3>2
  <2>. QED  BY <2>1, <1>5 DEF WaitInv, Down
<1>8. TokenInv'
  BY <1>3, <1>4, SameCalls
<1>9. RoundInv'
  BY <1>1, <1>2, <1>3, <1>4, <1>6, RoundStep
<1>10. ClientInv'
  BY <1>1, SameClients
<1>11. QuietInv'
  BY <1>1, <1>2 DEF QuietInv
<1>. QED  BY <1>7, <1>8, <1>9, <1>10, <1>11, SemWaitBase DEF NetInv

LEMMA ThreadWaitStep == ASSUME NetInv, ThreadWait PROVE NetInv'
<1>. DEFINE t == cur_tc
<1>1. /\ waits[t] # None /\ UNCHANGED <<sems, mboxes, pc, args, write_msg, buse, ns, cl, ns_timer, kept, env_ipc_perm>>
      /\ IF Over THEN /\ waits' = [waits EXCEPT ![t] = None] /\ tc_wakeup' = tc_wakeup \ {t}
                      /\ UNCHANGED <<cur_tc, thread_queue>>
         ELSE thread_yield /\ UNCHANGED <<waits, tc_wakeup>>
  BY DEF ThreadWait, Poll
<1>2. t # main
  BY <1>1 DEF NetInv, BaseInv, MainInv
<1>3. t \in Lwip /\ t \in Thread /\ pc[main] \notin {"recv", "got"}
  BY <1>2, Busy
<1>4. SameFrames /\ Live' = Live
  BY <1>1 DEF SameFrames, q, free, done, Live
<1>5. Lwip' = Lwip /\ \A x \in Lwip : Needs(x)' = Needs(x)
  BY <1>4, SameNeeds DEF SameFrames
<1>6. TokenInv' /\ ClientInv' /\ QuietInv'
  BY <1>1, <1>3, <1>4, SameCalls, SameClients DEF QuietInv
<1>7. CASE Over
  <2>1. UNCHANGED <<cur_tc, thread_queue>> /\ waits' = [waits EXCEPT ![t] = None] /\ tc_wakeup' = tc_wakeup \ {t}
    BY <1>1, <1>7
  <2>2. \A x : Ahead(x)' <=> Ahead(x)
    BY <2>1 DEF Ahead
  <2>3. Ahead(t)
    BY <1>2 DEF Ahead
  <2>4. waits'[t] = None /\ \A x \in Thread : x # t => waits'[x] = waits[x]
    BY <2>1, <1>3 DEF NetInv, BaseInv, Types
  <2>5. ASSUME NEW x \in Lwip
        PROVE  /\ waits'[x] # None =>
                    /\ Needs(x) \in Sem /\ waits'[x].sem = Needs(x)
                    /\ x \in tc_wakeup' \/ (~Down(Needs(x)) /\ sems[Needs(x)].waiters = 1)
               /\ waits'[x] = None => Ahead(x)'
    <3>1. CASE x = t
      BY <3>1, <2>2, <2>3, <2>4
    <3>2. CASE x # t
      <4>1. waits'[x] = waits[x] /\ (x \in tc_wakeup => x \in tc_wakeup')
        BY <3>2, <2>1, <2>4, Runner DEF NetInv
      <4>. QED  BY <4>1, <2>2 DEF NetInv, WaitInv
    <3>. QED  BY <3>1, <3>2
  <2>6. WaitInv'
    BY <2>5, <1>1, <1>5 DEF WaitInv, Down
  <2>7. RoundInv'
    BY <2>1, <2>2, <2>3, <1>1, <1>3, <1>4, RoundStep
  <2>. QED  BY <2>6, <2>7, <1>6, ThreadWaitBase DEF NetInv
<1>8. CASE ~Over
  <2>1. thread_yield /\ UNCHANGED <<waits, tc_wakeup>> /\ t \notin tc_wakeup
    BY <1>1, <1>8 DEF Over
  <2>2. \A x : Ahead(x) /\ x # t => Ahead(x)'
    BY <2>1, <1>2, YieldAhead DEF NetInv, BaseInv
  <2>3. Needs(t) \in Sem /\ ~Down(Needs(t))
    BY <2>1, <1>1, <1>3 DEF NetInv, WaitInv
  <2>4. WaitInv'
    BY <2>1, <2>2, <1>1, <1>5 DEF NetInv, WaitInv, Down
  <2>5. RoundInv'
    BY <2>1, <2>2, <2>3, <1>1, <1>3, <1>4, RoundStep
  <2>. QED  BY <2>4, <2>5, <1>6, ThreadWaitBase DEF NetInv
<1>. QED  BY <1>7, <1>8

LEMMA SpawnStep == ASSUME NetInv, Spawn PROVE NetInv'
<1>1. PICK w \in Worker \ Live :
             /\ cur_tc = main /\ pc[main] = "got" /\ CreateAndYield(w)
             /\ ns.msg \in Args /\ ns.msg.op \in {"send", "recv", "input", "ack"} /\ ns.msg.sock \in Socket
             /\ ns.msg.req = ns.va /\ ns.va \in Buffer
             /\ ns.msg.op \in {"send", "recv"} => ns.msg.whom \in Client /\ ns.msg.sock \in SocketsOf[ns.msg.whom]
             /\ ns.msg.op \in {"input", "ack"} => ns.msg.whom = None
             /\ ns.msg.op = "ack" => ns.msg.sock \in Slow
             /\ Live' = Live \cup {w}
             /\ pc' \in [Thread -> {"flush", "recv", "got", "timer", "panic", "fetch", "serve", "call",
                                    "called", "deliver", "ack", "reply", "halt", "none"}]
             /\ pc'[main] = "flush"
             /\ pc'[w] = CASE ns.msg.op = "send" -> "call" [] ns.msg.op = "recv" -> "fetch"
                           [] ns.msg.op = "input" -> "deliver" [] ns.msg.op = "ack" -> "ack"
             /\ \A t \in Thread : t # main /\ t # w => pc'[t] = pc[t]
             /\ args' = [args EXCEPT ![w] = ns.msg]
  BY SpawnFacts DEF NetInv
<1>. DEFINE op == ns.msg.op
            r == ns.msg.sock
<1>2. ns' = Start /\ UNCHANGED <<waits, tc_wakeup, sems, mboxes, write_msg, buse, cl, ns_timer, kept, env_ipc_perm>>
  BY DEF Spawn
<1>3. args'[w] = ns.msg /\ \A t \in Thread : t # w => args'[t] = args[t]
  BY <1>1, Names DEF NetInv, BaseInv, Types
<1>4. /\ w \in Thread /\ w # main /\ w # tcpip /\ pc[w] = "none" /\ waits[w] = None
      /\ Worker \subseteq Thread /\ tcpip \in Thread /\ tcpip # main /\ main \notin Worker
  BY <1>1, Names DEF Live, NetInv, BaseInv, WorkerInv
<1>5. /\ \A v \in Worker : v # w => pc'[v] = pc[v] /\ args'[v] = args[v]
      /\ pc'[tcpip] = pc[tcpip] /\ args'[tcpip] = args[tcpip]
      /\ pc'[w] \in {"call", "fetch", "deliver", "ack"}
      /\ pc'[w] = "call" <=> op = "send"
      /\ pc'[w] = "fetch" <=> op = "recv"
      /\ pc'[w] = "deliver" <=> op = "input"
      /\ pc'[w] = "ack" <=> op = "ack"
      /\ op \in {"send", "recv", "input", "ack"} /\ r \in Socket /\ args'[w].sock = r
  <2>1. /\ \A v \in Worker : v # w => pc'[v] = pc[v] /\ args'[v] = args[v]
        /\ pc'[tcpip] = pc[tcpip] /\ args'[tcpip] = args[tcpip]
    BY <1>1, <1>3, <1>4
  <2>2. op \in {"send", "recv", "input", "ack"} /\ r \in Socket /\ args'[w].sock = r
    BY <1>1, <1>3
  <2>3. pc'[w] = CASE op = "send" -> "call" [] op = "recv" -> "fetch" [] op = "input" -> "deliver" [] op = "ack" -> "ack"
    BY <1>1
  <2>. HIDE DEF op
  <2>. QED  BY <2>1, <2>2, <2>3
<1>6. Lwip' = Lwip \cup {w} /\ \A t \in Lwip' : Ahead(t)'
  BY <1>1, CreateQueue DEF NetInv, BaseInv, Lwip
<1>7. Quiet
  BY <1>1 DEF NetInv, QuietInv
<1>8. /\ \A v \in Worker : pc[v] \notin {"call", "ack", "reply", "halt"}
      /\ \A v \in Worker : pc[v] = "deliver" => free(args[v].sock) = 0
      /\ \A v \in Worker : pc[v] = "fetch" => q(args[v].sock) = 0
      /\ q(tcpip) = 0 /\ pc[tcpip] # "serve"
      /\ \A s \in Socket : done(s) = 0
      /\ \A k \in Kind, x \in Thing : ~Token(k, x)
  BY <1>7, QuietFacts
<1>9. /\ \A m \in Mbox : q(m)' = q(m) /\ free(m)' = free(m)
      /\ \A s \in Socket : done(s)' = done(s) /\ q(s)' = q(s)
      /\ q(tcpip)' = q(tcpip)
  BY <1>2 DEF q, free, done
<1>. HIDE DEF op, r
<1>10. ASSUME NEW s
       PROVE  /\ Calling(s)' = Calling(s)
              /\ Receivers(s)' = Receivers(s) \cup {x \in {w} : op = "recv" /\ s = r}
              /\ Deliverers(s)' = Deliverers(s) \cup {x \in {w} : op = "input" /\ s = r}
  BY <1>4, <1>5 DEF Calling, Receivers, Deliverers
<1>11. WaitInv'
  <2>1. ASSUME NEW t \in Lwip
        PROVE  Needs(t)' = Needs(t)
    <3>1. t # w /\ pc'[t] = pc[t] /\ args'[t] = args[t]
      BY <1>1, <1>4, <1>5, Runner DEF NetInv, Lwip
    <3>. QED  BY <3>1 DEF Needs
  <2>2. ASSUME NEW t \in Lwip'
        PROVE  /\ waits'[t] # None =>
                    /\ Needs(t)' \in Sem /\ waits'[t].sem = Needs(t)'
                    /\ t \in tc_wakeup' \/ (~Down(Needs(t))' /\ sems'[Needs(t)'].waiters = 1)
               /\ waits'[t] = None => Ahead(t)'
    <3>1. CASE t = w
      BY <3>1, <1>2, <1>4, <1>6
    <3>2. CASE t \in Lwip
      BY <3>2, <2>1, <1>2, <1>6 DEF NetInv, WaitInv, Down
    <3>. QED  BY <3>1, <3>2, <1>6
  <2>. QED  BY <2>2 DEF WaitInv
<1>12. ClientInv'
  <2>1. ASSUME NEW c \in Client
        PROVE  For(c)' = For(c) \cup {x \in {w} : ns.msg.whom = c}
    <3>1. Live \subseteq Worker /\ w \notin Live
      BY <1>1 DEF Live
    <3>. QED  BY <3>1, <1>1, <1>3, <1>5 DEF For
  <2>. QED  BY <2>1, <1>1, <1>2 DEF NetInv, ClientInv
<1>13. CallInv'
  <2>1. \A x : InFlight(x)' <=> InFlight(x)
    BY <1>2, <1>5 DEF InFlight, InMailbox
  <2>2. \A v \in Worker : pc[v] = "called" => pc'[v] = "called"
    BY <1>4, <1>5
  <2>. QED  BY <2>1, <2>2, <1>2, <1>9, <1>10 DEF NetInv, TokenInv, CallInv
<1>14. OneToken'
  <2>. DEFINE kind == IF op = "send" THEN "call" ELSE IF op = "ack" THEN "ack" ELSE "sock"
              thing == IF op \in {"send", "ack"} THEN w ELSE r
  <2>1. ASSUME NEW k \in Kind, NEW x \in Thing, Token(k, x)'
        PROVE  k = kind /\ x = thing
    <3>1. ~Token(k, x)
      BY <1>8
    <3>2. k # "queued" /\ k # "serve" /\ k # "done"
      BY <2>1, <1>5, <1>8, <1>9 DEF Token
    <3>3. CASE k = "call"
      BY <3>3, <2>1, <1>5, <1>8 DEF Token
    <3>4. CASE k = "ack"
      BY <3>4, <2>1, <1>5, <1>8 DEF Token
    <3>5. CASE k = "sock"
      <4>1. x \in Socket /\ q(x)' = q(x)
        BY <3>5, <2>1, <1>9 DEF Token
      <4>2. ~(Receivers(x) # {} /\ (q(x) > 0 \/ Deliverers(x) # {}))
        BY <3>1, <3>5, <4>1 DEF Token
      <4>3. Receivers(x)' # {} /\ (q(x)' > 0 \/ Deliverers(x)' # {})
        BY <2>1, <3>5 DEF Token
      <4>4. x = r /\ op \in {"recv", "input"}
        BY <4>1, <4>2, <4>3, <1>10
      <4>. QED  BY <3>5, <4>4
    <3>. QED  BY <3>2, <3>3, <3>4, <3>5 DEF Kind
  <2>. HIDE DEF kind, thing
  <2>. QED  BY <2>1 DEF OneToken
<1>15. PacketInv'
  <2>1. ASSUME NEW s \in Socket, NEW v \in Receivers(s)
        PROVE  q(s) = 0 /\ Deliverers(s) = {}
    <3>1. q(s) = 0
      BY <2>1, <1>8 DEF Receivers
    <3>2. free(s) # 0
      BY <3>1, Numbers
    <3>. QED  BY <3>1, <3>2, <1>8 DEF Deliverers
  <2>2. ASSUME NEW s \in Socket, NEW v \in Receivers(s)', NEW u \in Receivers(s)', v # u
        PROVE  q(s)' = 0 /\ \A c, d \in Deliverers(s)' : c = d
    <3>1. \E x \in Receivers(s) : TRUE
      BY <2>2, <1>10
    <3>. QED  BY <3>1, <2>1, <1>9, <1>10
  <2>3. \A s \in Socket : q(s)' = 0 => q(s)' <= 1 /\ q(s)' # 1
    OBVIOUS
  <2>. QED  BY <2>2, <2>3 DEF PacketInv
<1>16. RoundInv'
  <2>1. ns'.i = 0
    BY <1>2, StartFacts
  <2>2. \A v \in Worker : pc'[v] # "none" => v \in Lwip'
    BY <1>1, <1>4, <1>5, <1>6 DEF Lwip, Live
  <2>3. /\ \A v \in Worker : pc'[v] \in {"call", "ack"} => Ahead(v)'
        /\ \A s : \A v \in Calling(s)' \cup Receivers(s)' \cup Deliverers(s)' : Ahead(v)'
    BY <2>2, <1>6 DEF Calling, Receivers, Deliverers
  <2>. QED  BY <2>1, <2>3 DEF RoundInv
<1>17. QuietInv'
  BY <1>1 DEF QuietInv
<1>. QED  BY <1>11, <1>12, <1>13, <1>14, <1>15, <1>16, <1>17, SpawnBase DEF NetInv, TokenInv

\* The semaphores but z do not rise.
LEMMA Rise ==
    ASSUME NetInv, Formed', NEW z,
           \A m \in Mbox : (q(m)' <= q(m) \/ z = queued_msg(m)) /\ (free(m)' <= free(m) \/ z = free_msg(m)),
           \A s \in Socket : done(s)' <= done(s) \/ z = <<"done", s>>,
           NEW s \in Sem, s # z
    PROVE  sems'[s].counter <= sems[s].counter
<1>1. \/ \E m \in Mbox : s = queued_msg(m) \/ s = free_msg(m)
      \/ \E r \in Socket : s = <<"done", r>>
  BY Constants DEF Sem, queued_msg, free_msg
<1>. QED  BY <1>1 DEF q, free, done

\* A thread goes on and wakes those in W: all that wait for the semaphore z
\* that is signalled.
LEMMA GoingOn ==
    ASSUME NetInv, NEW t \in Lwip, cur_tc = t, waits[t] = None,
           UNCHANGED <<cur_tc, thread_queue, waits, ns>>, Live' = Live,
           \A x \in Thread : x # t => pc'[x] = pc[x],
           \A w \in Worker : args'[w] = args[w],
           NEW W, tc_wakeup' = tc_wakeup \cup W, Formed',
           NEW z, z \in Sem => W = Woken(z),
           \A m \in Mbox : (q(m)' <= q(m) \/ z = queued_msg(m)) /\ (free(m)' <= free(m) \/ z = free_msg(m)),
           \A s \in Socket : done(s)' <= done(s) \/ z = <<"done", s>>,
           \A s \in Sem : s # z => sems'[s].waiters = sems[s].waiters
    PROVE  /\ WaitInv' /\ QuietInv' /\ \A x : Ahead(x)' <=> Ahead(x)
           /\ Ahead(t)
<1>0. ASSUME NEW s \in Sem
      PROVE  \/ sems'[s].waiters = sems[s].waiters /\ sems'[s].counter <= sems[s].counter
             \/ W = Woken(s)
  <2>1. CASE s = z
    BY <2>1
  <2>2. CASE s # z
    BY <2>2, Rise
  <2>. QED  BY <2>1, <2>2
<1>1. t # main /\ t \in Thread /\ main \in Thread /\ Lwip \subseteq Thread /\ Lwip' = Lwip
  BY Runner, Names DEF NetInv, Lwip
<1>2. \A x : Ahead(x)' <=> Ahead(x)
  BY DEF Ahead
<1>3. Ahead(t)
  BY <1>1 DEF Ahead
<1>4. QuietInv'
  <2>1. pc[main] \notin {"recv", "got"}
    BY <1>1, Busy
  <2>. QED  BY <2>1, <1>1 DEF QuietInv
<1>5. ASSUME NEW x \in Lwip, x # t
      PROVE  Needs(x)' = Needs(x)
  <2>1. pc'[x] = pc[x] /\ ((x = tcpip /\ pc[x] \in {"fetch", "serve"}) \/ args'[x] = args[x])
    BY <1>1, <1>5, Runner DEF NetInv, BaseInv, LwipInv
  <2>. QED  BY <2>1 DEF Needs
<1>6. ASSUME NEW x \in Lwip, waits[x] # None
      PROVE  /\ Needs(x) \in Sem /\ waits[x].sem = Needs(x)
             /\ x \in tc_wakeup' \/ (~(sems'[Needs(x)].counter > 0) /\ sems'[Needs(x)].waiters = 1)
  <2>. DEFINE s == Needs(x)
  <2>1. s \in Sem /\ waits[x].sem = s /\ (x \in tc_wakeup \/ (~Down(s) /\ sems[s].waiters = 1))
    BY <1>6 DEF NetInv, WaitInv
  <2>2. sems[s].counter \in Nat /\ sems'[s].counter \in Nat
    BY <2>1 DEF NetInv, BaseInv, Types, Formed
  <2>. HIDE DEF s
  <2>3. CASE x \in tc_wakeup
    BY <2>1, <2>3 DEF s
  <2>4. CASE ~Down(s) /\ sems[s].waiters = 1
    <3>1. CASE sems'[s].waiters = sems[s].waiters /\ sems'[s].counter <= sems[s].counter
      <4>1. ~(sems'[s].counter > 0)
        BY <2>2, <2>4, <3>1 DEF Down
      <4>. QED  BY <2>1, <2>4, <3>1, <4>1 DEF s
    <3>2. CASE W = Woken(s)
      <4>1. x \in Woken(s)
        BY <2>1, <2>4, <1>1, <1>6 DEF Woken
      <4>. QED  BY <2>1, <3>2, <4>1 DEF s
    <3>. QED  BY <2>1, <3>1, <3>2, <1>0
  <2>. QED  BY <2>1, <2>3, <2>4
<1>7. ASSUME NEW x \in Lwip
      PROVE  /\ waits'[x] # None =>
                  /\ Needs(x)' \in Sem /\ waits'[x].sem = Needs(x)'
                  /\ x \in tc_wakeup' \/ (~(sems'[Needs(x)'].counter > 0) /\ sems'[Needs(x)'].waiters = 1)
             /\ waits'[x] = None => Ahead(x)'
  <2>1. CASE x = t
    BY <2>1, <1>2, <1>3
  <2>2. CASE x # t
    BY <2>2, <1>2, <1>5, <1>6 DEF NetInv, WaitInv
  <2>. QED  BY <2>1, <2>2
<1>8. WaitInv'
  BY <1>1, <1>7 DEF WaitInv, Down
<1>. QED  BY <1>2, <1>3, <1>4, <1>8

LEMMA FewerClients ==
    ASSUME NetInv, cur_tc # main, pc'[main] = pc[main], \A c : For(c)' \subseteq For(c), UNCHANGED cl
    PROVE  ClientInv'
<1>1. pc'[main] \notin {"recv", "got"}
  BY Busy
<1>. QED  BY <1>1 DEF NetInv, ClientInv

\* The caller of a call in flight is on a socket, where it waits.
LEMMA Caller ==
    ASSUME NetInv, NEW w \in Worker, pc[w] = "called"
    PROVE  /\ args[w].sock \in Socket /\ w \in Calling(args[w].sock) /\ w # None
           /\ args[w].whom \in Client /\ args[w].sock \in SocketsOf[args[w].whom]
           /\ w \in For(args[w].whom)
<1>1. args[w].sock \in Socket /\ args[w].whom \in Client /\ args[w].sock \in SocketsOf[args[w].whom]
  BY DEF NetInv, BaseInv, WorkerInv
<1>2. w \in For(args[w].whom)
  BY DEF For, Live
<1>. QED  BY <1>1, <1>2, Names DEF Calling

\* On a slow socket there is at most one.
LEMMA OneCaller ==
    ASSUME NetInv, OwnSlow, NEW s \in Slow, NEW v \in Calling(s), NEW w \in Calling(s)
    PROVE  v = w
<1>1. v \in Worker /\ w \in Worker /\ pc[v] = "called" /\ pc[w] = "called" /\ args[v].sock = s /\ args[w].sock = s
  BY DEF Calling
<1>2. args[v].whom = args[w].whom /\ args[v].whom \in Client
  BY <1>1, Caller DEF OwnSlow
<1>3. v \in For(args[v].whom) /\ w \in For(args[v].whom)
  BY <1>1, <1>2, Caller
<1>. QED  BY <1>2, <1>3 DEF NetInv, ClientInv

LEMMA NoFlight ==
    ASSUME NetInv, q(tcpip) = 0, pc[tcpip] # "serve", NEW w \in Worker
    PROVE  ~InFlight(w)
<1>1. w # None /\ None \notin Worker
  BY Names
<1>2. ~InMailbox(tcpip, w)
  BY <1>1, Sems DEF InMailbox, NetInv, BaseInv, RingInv, Slots
<1>3. args[tcpip].whom # w
  BY <1>1 DEF NetInv, BaseInv, LwipInv
<1>. QED  BY <1>2, <1>3 DEF InFlight

LEMMA TcpipFetchStep == ASSUME NetInv, TcpipFetch PROVE NetInv'
<1>1. PICK w \in Worker : Fetch(tcpip, w) /\ args' = [args EXCEPT ![tcpip].whom = w]
  BY DEF TcpipFetch
<1>2. /\ cur_tc = tcpip /\ pc[tcpip] = "fetch" /\ waits[tcpip] = None /\ Goto("serve")
      /\ UNCHANGED <<cur_tc, thread_queue, write_msg, buse, ns, cl, ns_timer, kept, env_ipc_perm>>
  BY DEF TcpipFetch, Ready, Still
<1>3. tc_wakeup' = tc_wakeup \cup Woken(free_msg(tcpip)) /\ waits' = waits
  BY <1>1 DEF Fetch
<1>4. /\ Formed' /\ q(tcpip) > 0 /\ InMailbox(tcpip, w)
      /\ \A n \in Mbox : q(n)' = IF n = tcpip THEN q(n) - 1 ELSE q(n)
      /\ \A n \in Mbox : free(n)' = IF n = tcpip THEN free(n) + 1 ELSE free(n)
      /\ \A s \in Socket : done(s)' = done(s)
      /\ q(tcpip) = 1 => \A y : y # None => ~InMailbox(tcpip, y)' /\ (InMailbox(tcpip, y) => y = w)
      /\ \A s \in Sem : s # free_msg(tcpip) => sems'[s].waiters = sems[s].waiters
      /\ \A i \in Slots : mboxes'[tcpip].msg[i] = mboxes[tcpip].msg[i] \/ mboxes'[tcpip].msg[i] = None
  BY <1>1, FetchStep, Sems DEF NetInv, BaseInv
<1>5. q(tcpip) = 1 /\ q(tcpip)' = 0 /\ tcpip \in Mbox
  BY <1>4, Numbers DEF NetInv, TokenInv, CallInv
<1>6. /\ pc'[tcpip] = "serve" /\ Live' = Live /\ \A t \in Thread : t # tcpip => pc'[t] = pc[t]
      /\ tcpip \in Lwip /\ tcpip # main /\ main \in Thread /\ \A v \in Worker : v \in Thread /\ v # tcpip /\ v # None
  BY <1>2, Going, Names DEF NetInv, Lwip
<1>7. args'[tcpip].whom = w /\ \A v \in Worker : args'[v] = args[v]
  <2>1. args \in [Thread -> Args] /\ args[tcpip] \in Args
    BY Names DEF NetInv, BaseInv, Types
  <2>2. args' = [args EXCEPT ![tcpip] = [args[tcpip] EXCEPT !.whom = w]] /\ [args[tcpip] EXCEPT !.whom = w].whom = w
    BY <2>1, <1>1 DEF Args
  <2>. QED  BY <2>1, <2>2, <1>6, Names
<1>8. \A s : Receivers(s)' = Receivers(s) /\ Deliverers(s)' = Deliverers(s) /\ Calling(s)' = Calling(s)
  BY <1>6, <1>7 DEF Receivers, Deliverers, Calling
<1>9. \A s \in Socket : q(s)' = q(s) /\ done(s)' = done(s)
  BY <1>4, Sems
<1>10. WaitInv' /\ QuietInv' /\ \A x : Ahead(x)' <=> Ahead(x)
  <2>1. \A m \in Mbox : (q(m)' <= q(m)) /\ (free(m)' <= free(m) \/ free_msg(tcpip) = free_msg(m))
    BY <1>4, Numbers
  <2>2. \A s \in Socket : done(s)' <= done(s)
    BY <1>9, Numbers
  <2>. QED  BY <2>1, <2>2, <1>2, <1>3, <1>4, <1>6, <1>7, GoingOn
<1>11. ClientInv'
  <2>1. \A c : For(c)' = For(c)
    BY <1>6, <1>7 DEF For, Live
  <2>. QED  BY <2>1, <1>2, <1>6, FewerClients
<1>12. \A v \in Worker : (InFlight(v)' <=> v = w) /\ (InFlight(v) <=> v = w)
  <2>1. args[tcpip].whom = None
    BY <1>2 DEF NetInv, BaseInv, LwipInv
  <2>. QED  BY <2>1, <1>4, <1>5, <1>6, <1>7 DEF InFlight
<1>13. CallInv'
  <2>1. \A i \in Slots : mboxes'[tcpip].msg[i] \in Worker \cup {None}
    BY <1>4 DEF NetInv, TokenInv, CallInv
  <2>2. \A v \in Worker : InFlight(v)' => pc'[v] = "called"
    BY <1>6, <1>12 DEF NetInv, TokenInv, CallInv
  <2>3. \A s : \A v \in Calling(s) : v \in Worker
    BY DEF Calling
  <2>. QED  BY <2>1, <2>2, <2>3, <1>2, <1>5, <1>8, <1>9, <1>12 DEF NetInv, TokenInv, CallInv
<1>14. OneToken'
  <2>1. Token("queued", tcpip)
    BY <1>4 DEF Token
  <2>2. ASSUME NEW k \in Kind, NEW x \in Thing, Token(k, x)'
        PROVE  k = "serve" /\ x = tcpip
    <3>1. k # "queued"
      BY <2>2, <1>5 DEF Token
    <3>2. CASE k = "serve"
      BY <3>2, <2>2 DEF Token
    <3>3. CASE k # "serve"
      <4>1. Token(k, x)
        BY <2>2, <3>1, <3>3, <1>2, <1>6, <1>7, <1>8, <1>9 DEF Token
      <4>. QED  BY <4>1, <2>1, <3>1, Only
    <3>. QED  BY <3>2, <3>3
  <2>. QED  BY <2>2 DEF OneToken
<1>15. PacketInv'
  BY <1>8, <1>9 DEF NetInv, TokenInv, PacketInv
<1>16. RoundInv'
  <2>1. ns'.i = ns.i /\ ns.i <= 2 /\ ns.i <= 3
    <3>1. ns.i <= 2
      BY <1>4, Numbers DEF NetInv, RoundInv
    <3>. QED  BY <3>1, <1>2, Numbers
  <2>2. ~(q(tcpip)' > 0)
    BY <1>5
  <2>. QED  BY <2>1, <2>2, <1>6, <1>8, <1>9, <1>10 DEF NetInv, RoundInv
<1>. QED  BY <1>10, <1>11, <1>13, <1>14, <1>15, <1>16, TcpipFetchBase DEF NetInv, TokenInv

\* What is known of the mailbox and the calls when lwIP's thread serves one.
LEMMA Serving ==
    ASSUME NetInv, OwnSlow, pc[tcpip] = "serve", NEW w \in Worker, w = args[tcpip].whom
    PROVE  /\ q(tcpip) = 0 /\ \A s \in Socket : done(s) = 0
           /\ pc[w] = "called" /\ args[w].sock \in Socket /\ w \in Calling(args[w].sock)
           /\ \A v \in Worker : InFlight(v) <=> v = w
           /\ \A v \in Calling(args[w].sock) : v = w
           /\ write_msg[args[w].sock] = None
           /\ \A k \in Kind : \A x \in Thing : Token(k, x) => k = "serve" /\ x = tcpip
<1>1. Token("serve", tcpip)
  BY DEF Token
<1>2. \A k \in Kind : \A x \in Thing : Token(k, x) => k = "serve" /\ x = tcpip
  BY <1>1, Only
<1>3. ~Token("queued", tcpip) /\ \A s \in Socket : ~Token("done", s)
  <2>1. "queued" # "serve" /\ "done" # "serve"
    OBVIOUS
  <2>. QED  BY <2>1, <1>2, Only
<1>4. q(tcpip) = 0 /\ \A s \in Socket : done(s) = 0
  BY <1>3, Numbers DEF Token
<1>5. InFlight(w) /\ pc[w] = "called"
  BY DEF InFlight, NetInv, TokenInv, CallInv
<1>6. args[w].sock \in Socket /\ w \in Calling(args[w].sock)
  BY <1>5, Caller
<1>7. \A v \in Worker : ~InMailbox(tcpip, v)
  BY <1>4, Sems, Names DEF InMailbox, NetInv, BaseInv, RingInv, Slots
<1>8. \A v \in Worker : InFlight(v) <=> v = w
  BY <1>7 DEF InFlight
<1>9. ASSUME NEW v \in Calling(args[w].sock)
      PROVE  v = w
  <2>1. v \in Worker
    BY DEF Calling
  <2>2. InFlight(v) \/ write_msg[args[w].sock] = v
    BY <1>4, <1>6 DEF NetInv, TokenInv, CallInv
  <2>3. ASSUME write_msg[args[w].sock] = v
        PROVE  v = w
    <3>1. args[w].sock \in Slow
      BY <2>1, <2>3, <1>6, Names DEF NetInv, TokenInv, CallInv
    <3>. QED  BY <3>1, <1>6, OneCaller
  <2>. QED  BY <2>1, <2>2, <2>3, <1>8
<1>10. write_msg[args[w].sock] = None
  <2>1. ASSUME write_msg[args[w].sock] # None
        PROVE  FALSE
    <3>1. write_msg[args[w].sock] \in Calling(args[w].sock) /\ ~InFlight(write_msg[args[w].sock])
      BY <2>1, <1>6 DEF NetInv, TokenInv, CallInv
    <3>. QED  BY <3>1, <1>5, <1>9
  <2>. QED  BY <2>1
<1>. QED  BY <1>2, <1>4, <1>5, <1>6, <1>8, <1>9, <1>10

LEMMA TcpipServeStep == ASSUME NetInv, OwnSlow, TcpipServe PROVE NetInv'
<1>1. PICK w \in Worker :
        /\ w = args[tcpip].whom /\ args[w].sock \in Socket \cup {None}
        /\ cur_tc = tcpip /\ pc[tcpip] = "serve" /\ waits[tcpip] = None /\ Goto("fetch")
        /\ args' = [args EXCEPT ![tcpip] = NoArgs]
        /\ UNCHANGED <<cur_tc, thread_queue, waits, mboxes, buse, ns, cl, ns_timer, kept, env_ipc_perm>>
        /\ \/ Complete(args[w].sock) /\ UNCHANGED write_msg
           \/ /\ args[w].op = "send" /\ args[w].sock \in Slow
              /\ write_msg' = [write_msg EXCEPT ![args[w].sock] = w]
              /\ UNCHANGED <<sems, tc_wakeup>>
  BY ServeFacts DEF NetInv
<1>. DEFINE s == args[w].sock
<1>2. /\ q(tcpip) = 0 /\ \A r \in Socket : done(r) = 0
      /\ pc[w] = "called" /\ s \in Socket /\ w \in Calling(s)
      /\ \A v \in Worker : InFlight(v) <=> v = w
      /\ \A v \in Calling(s) : v = w
      /\ write_msg[s] = None
      /\ \A k \in Kind : \A x \in Thing : Token(k, x) => k = "serve" /\ x = tcpip
  BY <1>1, Serving
<1>3. /\ pc'[tcpip] = "fetch" /\ Live' = Live /\ \A t \in Thread : t # tcpip => pc'[t] = pc[t]
      /\ tcpip \in Lwip /\ tcpip # main /\ main \in Thread /\ \A v \in Worker : v \in Thread /\ v # tcpip /\ v # None
  BY <1>1, Going, Names DEF NetInv, Lwip
<1>4. args'[tcpip].whom = None /\ \A v \in Worker : args'[v] = args[v]
  BY <1>1, <1>3, Names DEF NoArgs, NetInv, BaseInv, Types
<1>5. \A r : Receivers(r)' = Receivers(r) /\ Deliverers(r)' = Deliverers(r) /\ Calling(r)' = Calling(r)
  BY <1>3, <1>4 DEF Receivers, Deliverers, Calling
<1>6. \A v \in Worker : ~InFlight(v)'
  <2>1. \A v \in Worker : ~InMailbox(tcpip, v)
    BY <1>2, Sems, Names DEF InMailbox, NetInv, BaseInv, RingInv, Slots
  <2>. QED  BY <2>1, <1>1, <1>3, <1>4 DEF InFlight, InMailbox
<1>7. \A r : \A v \in Calling(r) : v \in Worker /\ args[v].sock = r
  BY DEF Calling
<1>8. ClientInv'
  <2>1. \A c : For(c)' = For(c)
    BY <1>3, <1>4 DEF For, Live
  <2>. QED  BY <2>1, <1>1, <1>3, FewerClients
<1>9. ns'.i = ns.i /\ ns.i <= 2 /\ ns.i <= 3
  <2>1. ns.i <= 2
    BY <1>1 DEF NetInv, RoundInv
  <2>. QED  BY <2>1, <1>1, Numbers
<1>10. /\ \A r \in Socket : \A v \in Calling(r) : r # s => write_msg[r] = v
       /\ \A r \in Socket : r # s /\ write_msg[r] # None =>
            r \in Slow /\ write_msg[r] \in Calling(r) /\ write_msg[r] \in Worker
  <2>1. \A r \in Socket : \A v \in Calling(r) : r # s => ~InFlight(v)
    BY <1>2, <1>7
  <2>. QED  BY <2>1, <1>2, <1>7 DEF NetInv, TokenInv, CallInv
<1>. HIDE DEF s
<1>11. CASE Complete(s) /\ UNCHANGED write_msg
  <2>1. /\ Formed' /\ \A m \in Mbox : q(m)' = q(m) /\ free(m)' = free(m)
        /\ \A r \in Socket : done(r)' = IF r = s THEN done(r) + 1 ELSE done(r)
        /\ \A r \in Sem : r # <<"done", s>> => sems'[r].waiters = sems[r].waiters
        /\ tc_wakeup' = tc_wakeup \cup Woken(<<"done", s>>)
    BY <1>1, <1>2, <1>11, CompleteStep DEF NetInv
  <2>2. \A r \in Socket : done(r)' = (IF r = s THEN 1 ELSE 0) /\ q(r)' = q(r)
    BY <2>1, <1>2, Sems
  <2>3. WaitInv' /\ QuietInv' /\ \A x : Ahead(x)' <=> Ahead(x)
    <3>1. \A m \in Mbox : q(m)' <= q(m) /\ free(m)' <= free(m)
      BY <2>1, Numbers
    <3>2. \A r \in Socket : done(r)' <= done(r) \/ <<"done", s>> = <<"done", r>>
      BY <2>2, <1>2
    <3>. QED  BY <3>1, <3>2, <2>1, <1>1, <1>3, <1>4, GoingOn
  <2>4. CallInv'
    <3>1. q(tcpip)' <= 1 /\ \A i \in Slots : mboxes'[tcpip].msg[i] \in Worker \cup {None}
      BY <2>1, <1>1, <1>2, Sems DEF NetInv, TokenInv, CallInv
    <3>2. ASSUME NEW r \in Socket
          PROVE  /\ done(r)' <= 1
                 /\ done(r)' = 1 => /\ \E v \in Calling(r)' : TRUE
                                    /\ \A u, v \in Calling(r)' : u = v
                 /\ write_msg'[r] # None =>
                      /\ r \in Slow /\ done(r)' = 0
                      /\ write_msg'[r] \in Calling(r)' /\ ~InFlight(write_msg[r])'
                 /\ \A v \in Calling(r)' : InFlight(v)' \/ write_msg'[r] = v \/ done(r)' = 1
      <4>1. CASE r = s
        BY <4>1, <2>2, <1>2, <1>5, <1>11
      <4>2. CASE r # s
        BY <4>2, <2>2, <1>5, <1>6, <1>10, <1>11
      <4>. QED  BY <4>1, <4>2
    <3>. QED  BY <3>1, <3>2, <1>6 DEF CallInv, InFlight, InMailbox
  <2>5. OneToken'
    <3>1. ASSUME NEW k \in Kind, NEW x \in Thing, Token(k, x)'
          PROVE  k = "done" /\ x = s
      <4>1. CASE k = "done"
        BY <4>1, <3>1, <2>2 DEF Token
      <4>2. CASE k # "done"
        <5>1. k # "serve"
          BY <3>1, <1>3 DEF Token
        <5>2. Token(k, x)
          BY <3>1, <4>2, <5>1, <2>1, <2>2, <1>3, <1>5, Sems DEF Token
        <5>. QED  BY <5>1, <5>2, <1>2
      <4>. QED  BY <4>1, <4>2
    <3>. QED  BY <3>1 DEF OneToken
  <2>6. PacketInv'
    BY <2>2, <1>5 DEF NetInv, TokenInv, PacketInv
  <2>7. RoundInv'
    <3>1. ~(q(tcpip)' > 0)
      BY <2>1, <1>2, Sems
    <3>. QED  BY <3>1, <2>2, <2>3, <1>3, <1>5, <1>9 DEF NetInv, RoundInv
  <2>. QED  BY <2>3, <2>4, <2>5, <2>6, <2>7, <1>8, TcpipServeBase DEF NetInv, TokenInv
<1>12. CASE s \in Slow /\ write_msg' = [write_msg EXCEPT ![s] = w] /\ UNCHANGED <<sems, tc_wakeup>>
  <2>1. /\ Formed' /\ \A m \in Mbox : q(m)' = q(m) /\ free(m)' = free(m)
        /\ \A r \in Socket : done(r)' = done(r) /\ q(r)' = q(r)
    BY <1>1, <1>12, Waiting, Sems DEF q, free, done, Formed, NetInv
  <2>2. WaitInv' /\ QuietInv' /\ \A x : Ahead(x)' <=> Ahead(x)
    <3>1. \A m \in Mbox : q(m)' <= q(m) /\ free(m)' <= free(m)
      BY <2>1, Numbers
    <3>2. \A r \in Socket : done(r)' <= done(r)
      BY <2>1, Numbers
    <3>3. None \notin Sem /\ tc_wakeup' = tc_wakeup \cup {} /\ \A r \in Sem : sems'[r].waiters = sems[r].waiters
      BY <1>12, Names
    <3>. QED  BY <3>1, <3>2, <3>3, <2>1, <1>1, <1>3, <1>4, GoingOn
  <2>3. write_msg'[s] = w /\ \A r \in Socket : r # s => write_msg'[r] = write_msg[r]
    BY <1>12, <1>2 DEF NetInv, BaseInv, Types
  <2>4. CallInv'
    <3>1. q(tcpip)' <= 1 /\ \A i \in Slots : mboxes'[tcpip].msg[i] \in Worker \cup {None}
      BY <2>1, <1>1, <1>2, Sems DEF NetInv, TokenInv, CallInv
    <3>2. ASSUME NEW r \in Socket
          PROVE  /\ done(r)' <= 1
                 /\ done(r)' = 1 => /\ \E v \in Calling(r)' : TRUE
                                    /\ \A u, v \in Calling(r)' : u = v
                 /\ write_msg'[r] # None =>
                      /\ r \in Slow /\ done(r)' = 0
                      /\ write_msg'[r] \in Calling(r)' /\ ~InFlight(write_msg[r])'
                 /\ \A v \in Calling(r)' : InFlight(v)' \/ write_msg'[r] = v \/ done(r)' = 1
      <4>1. CASE r = s
        BY <4>1, <2>1, <2>3, <1>2, <1>5, <1>6, <1>12
      <4>2. CASE r # s
        BY <4>2, <2>1, <2>3, <1>2, <1>5, <1>6, <1>10
      <4>. QED  BY <4>1, <4>2
    <3>. QED  BY <3>1, <3>2, <1>6 DEF CallInv, InFlight, InMailbox
  <2>5. OneToken'
    <3>1. ASSUME NEW k \in Kind, NEW x \in Thing, Token(k, x)'
          PROVE  FALSE
      <4>1. k # "serve"
        BY <3>1, <1>3 DEF Token
      <4>2. Token(k, x)
        BY <3>1, <4>1, <2>1, <1>3, <1>5, Sems DEF Token
      <4>. QED  BY <4>1, <4>2, <1>2
    <3>. QED  BY <3>1 DEF OneToken
  <2>6. PacketInv'
    BY <2>1, <1>5 DEF NetInv, TokenInv, PacketInv
  <2>7. RoundInv'
    <3>1. ~(q(tcpip)' > 0) /\ \A r \in Socket : ~(done(r)' > 0)
      BY <2>1, <1>2, Sems
    <3>. QED  BY <3>1, <2>1, <2>2, <1>3, <1>5, <1>9, <1>12 DEF NetInv, RoundInv
  <2>. QED  BY <2>2, <2>4, <2>5, <2>6, <2>7, <1>8, TcpipServeBase DEF NetInv, TokenInv
<1>. QED  BY <1>1, <1>11, <1>12 DEF s

\* A worker goes on to p.
LEMMA WorkerGoes ==
    ASSUME NetInv, NEW w \in Worker, cur_tc = w, pc[w] # "none", args' = args,
           NEW p \in {"call", "called", "reply", "halt"}, Goto(p)
    PROVE  /\ pc'[w] = p /\ \A v \in Worker : v # w => pc'[v] = pc[v]
           /\ \A t \in Thread : t # w => pc'[t] = pc[t]
           /\ pc'[tcpip] = pc[tcpip] /\ pc'[main] = pc[main] /\ Live' = Live
           /\ \A s : Receivers(s)' = Receivers(s) \ {w}
           /\ \A s : Deliverers(s)' = Deliverers(s) \ {w}
           /\ \A s : p # "called" => Calling(s)' = Calling(s) \ {w}
           /\ \A s : p = "called" => Calling(s)' = IF s = args[w].sock THEN Calling(s) \cup {w} ELSE Calling(s) \ {w}
           /\ pc[w] # "halt" => \A c : For(c)' \subseteq For(c)
<1>1. /\ pc'[w] = p /\ \A t \in Thread : t # w => pc'[t] = pc[t]
      /\ Live' = Live
  BY Going DEF NetInv
<1>2. \A v \in Worker : v # w => pc'[v] = pc[v]
  BY <1>1, Names
<1>3. pc'[tcpip] = pc[tcpip] /\ pc'[main] = pc[main]
  BY <1>1, Names
<1>4. \A s : Receivers(s)' = Receivers(s) \ {w} /\ Deliverers(s)' = Deliverers(s) \ {w}
  BY <1>1, <1>2 DEF Receivers, Deliverers
<1>5. \A s : /\ p # "called" => Calling(s)' = Calling(s) \ {w}
             /\ p = "called" => Calling(s)' = IF s = args[w].sock THEN Calling(s) \cup {w} ELSE Calling(s) \ {w}
  BY <1>1, <1>2 DEF Calling
<1>6. pc[w] # "halt" => \A c : For(c)' \subseteq For(c)
  BY <1>1, <1>2 DEF For, Live
<1>. QED  BY <1>1, <1>2, <1>3, <1>4, <1>5, <1>6

LEMMA RecvStep == ASSUME NetInv, NEW w \in Worker, Recv(w) PROVE NetInv'
<1>0. PICK s : s = args[w].sock
  OBVIOUS
<1>1. /\ cur_tc = w /\ pc[w] = "fetch" /\ waits[w] = None /\ Me = args[w]
      /\ w \in Lwip /\ w # tcpip /\ w # main /\ w \in Thread
      /\ s \in Socket /\ s \in Mbox /\ s # tcpip
  BY <1>0, WorkerReady DEF Recv, NetInv
<1>2. PICK y \in Socket : Fetch(s, y)
  BY <1>0, <1>1 DEF Recv
<1>3. Goto("call") /\ UNCHANGED <<cur_tc, thread_queue, args, write_msg, buse, ns, cl, ns_timer, kept, env_ipc_perm>>
  BY DEF Recv, Still
<1>4. tc_wakeup' = tc_wakeup \cup Woken(free_msg(s)) /\ waits' = waits
  BY <1>2 DEF Fetch
<1>5. /\ Formed' /\ q(s) > 0
      /\ \A n \in Mbox : q(n)' = IF n = s THEN q(n) - 1 ELSE q(n)
      /\ \A n \in Mbox : free(n)' = IF n = s THEN free(n) + 1 ELSE free(n)
      /\ \A r \in Socket : done(r)' = done(r)
      /\ \A n \in Mbox : \A x : n # s => (InMailbox(n, x)' <=> InMailbox(n, x))
      /\ \A r \in Sem : r # free_msg(s) => sems'[r].waiters = sems[r].waiters
      /\ \A n \in Mbox, i \in Slots : mboxes'[n].msg[i] = mboxes[n].msg[i] \/ (n = s /\ mboxes'[n].msg[i] = None)
  BY <1>1, <1>2, FetchStep DEF NetInv, BaseInv
<1>6. /\ pc'[w] = "call" /\ \A v \in Worker : v # w => pc'[v] = pc[v]
      /\ \A t \in Thread : t # w => pc'[t] = pc[t]
      /\ pc'[tcpip] = pc[tcpip] /\ pc'[main] = pc[main] /\ Live' = Live
      /\ \A r : Receivers(r)' = Receivers(r) \ {w}
      /\ \A r : Deliverers(r)' = Deliverers(r) \ {w}
      /\ \A r : Calling(r)' = Calling(r) \ {w}
      /\ \A c : For(c)' \subseteq For(c)
  BY <1>1, <1>3, WorkerGoes
<1>7. w \in Receivers(s) /\ \A r : w \notin Deliverers(r) /\ w \notin Calling(r) /\ (r # s => w \notin Receivers(r))
  BY <1>0, <1>1 DEF Receivers, Deliverers, Calling
<1>8. /\ \A r : Deliverers(r)' = Deliverers(r) /\ Calling(r)' = Calling(r)
      /\ \A r : r # s => Receivers(r)' = Receivers(r)
  BY <1>6, <1>7
<1>9. /\ q(tcpip)' = q(tcpip) /\ \A r \in Socket : done(r)' = done(r) /\ q(r)' = (IF r = s THEN q(r) - 1 ELSE q(r))
      /\ q(s) \in Nat
  BY <1>1, <1>5, Sems, Numbers
<1>10. WaitInv' /\ QuietInv' /\ (\A x : Ahead(x)' <=> Ahead(x)) /\ Ahead(w)
  <2>1. \A m \in Mbox : (q(m)' <= q(m)) /\ (free(m)' <= free(m) \/ free_msg(s) = free_msg(m))
    BY <1>5, Numbers
  <2>2. \A r \in Socket : done(r)' <= done(r)
    BY <1>9, Numbers
  <2>. QED  BY <2>1, <2>2, <1>1, <1>3, <1>4, <1>5, <1>6, GoingOn
<1>11. ClientInv'
  BY <1>1, <1>3, <1>6, FewerClients
\* There was a packet, and if another receiver remains there was no other.
<1>12. \A k \in Kind : \A x \in Thing : Token(k, x) => k = "sock" /\ x = s
  <2>1. Token("sock", s)
    BY <1>1, <1>5, <1>7 DEF Token
  <2>. QED  BY <2>1, <1>1, Only
<1>13. Receivers(s)' # {} => q(s)' = 0 /\ Deliverers(s) = {}
  <2>1. ASSUME NEW v \in Receivers(s)'
        PROVE  q(s) <= 1 /\ (q(s) = 1 => Deliverers(s) = {})
    <3>1. v \in Receivers(s) /\ v # w
      BY <1>6
    <3>. QED  BY <3>1, <1>1, <1>7 DEF NetInv, TokenInv, PacketInv
  <2>. QED  BY <2>1, <1>1, <1>5, <1>9
<1>14. \A v \in Worker : (InFlight(v)' <=> InFlight(v)) /\ (InFlight(v) => v # w)
  <2>1. \A v \in Worker : InFlight(v)' <=> InFlight(v)
    BY <1>1, <1>3, <1>5, Sems DEF InFlight
  <2>. QED  BY <2>1, <1>1 DEF NetInv, TokenInv, CallInv
<1>15. CallInv'
  <2>1. \A i \in Slots : mboxes'[tcpip].msg[i] \in Worker \cup {None}
    BY <1>1, <1>5, Sems DEF NetInv, TokenInv, CallInv
  <2>2. \A v \in Worker : InFlight(v)' => pc'[v] = "called"
    BY <1>6, <1>14 DEF NetInv, TokenInv, CallInv
  <2>3. \A r : \A v \in Calling(r) : v \in Worker
    BY DEF Calling
  <2>. QED  BY <2>1, <2>2, <2>3, <1>3, <1>8, <1>9, <1>14 DEF NetInv, TokenInv, CallInv
<1>16. OneToken'
  <2>1. ASSUME NEW k \in Kind, NEW x \in Thing, Token(k, x)'
        PROVE  k = "call" /\ x = w
    <3>1. ~(k = "sock" /\ x = s)
      BY <2>1, <1>8, <1>9, <1>13 DEF Token
    <3>2. CASE k = "call" /\ x = w
      BY <3>2
    <3>3. CASE ~(k = "call" /\ x = w)
      <4>1. Token(k, x)
        BY <2>1, <3>1, <3>3, <1>6, <1>8, <1>9 DEF Token
      <4>. QED  BY <4>1, <3>1, <1>12
    <3>. QED  BY <3>2, <3>3
  <2>. QED  BY <2>1 DEF OneToken
<1>17. PacketInv'
  <2>1. ASSUME NEW r \in Socket, NEW u \in Receivers(r)', NEW v \in Receivers(r)', u # v
        PROVE  q(r)' <= 1 /\ (q(r)' = 1 => Deliverers(r)' = {}) /\ \A c, d \in Deliverers(r)' : c = d
    <3>1. CASE r = s
      <4>1. q(s)' = 0 /\ Deliverers(s)' = {}
        BY <2>1, <3>1, <1>8, <1>13
      <4>2. q(s)' <= 1 /\ q(s)' # 1
        BY <4>1
      <4>. QED  BY <3>1, <4>1, <4>2
    <3>2. CASE r # s
      BY <2>1, <3>2, <1>8, <1>9 DEF NetInv, TokenInv, PacketInv
    <3>. QED  BY <3>1, <3>2
  <2>. QED  BY <2>1 DEF PacketInv
<1>18. RoundInv'
  <2>1. ns' = ns /\ ns.i <= 1 /\ ns.i <= 3
    <3>1. ns.i <= 1
      BY <1>1, <1>5, <1>7, Numbers DEF NetInv, RoundInv
    <3>. QED  BY <3>1, <1>3, Numbers
  <2>2. ASSUME NEW r \in Socket
        PROVE  /\ done(r)' > 0 => ns'.i <= 2 \/ (ns'.i <= 3 /\ \A v \in Calling(r)' : Ahead(v)')
               /\ Receivers(r)' # {} /\ q(r)' > 0 =>
                    ns'.i = 0 \/ (ns'.i = 1 /\ \A v \in Receivers(r)' : Ahead(v)')
               /\ Receivers(r)' # {} /\ q(r)' = 0 =>
                    \A v \in Deliverers(r)' : ns'.i = 0 /\ Ahead(v)'
    <3>1. CASE r = s
      <4>1. Receivers(s)' # {} => ~(q(s)' > 0)
        BY <1>13
      <4>. QED  BY <3>1, <4>1, <2>1, <1>8, <1>9, <1>10, <1>13 DEF NetInv, RoundInv
    <3>2. CASE r # s
      BY <3>2, <2>1, <1>8, <1>9, <1>10 DEF NetInv, RoundInv
    <3>. QED  BY <3>1, <3>2
  <2>3. /\ \A v \in Worker : pc'[v] = "call" => ns'.i <= 1 /\ Ahead(v)'
        /\ q(tcpip)' > 0 => ns'.i <= 1 \/ (ns'.i <= 2 /\ Ahead(tcpip)')
        /\ pc'[tcpip] = "serve" => ns'.i <= 2
        /\ \A v \in Worker : pc'[v] = "ack" => ns'.i = 0 /\ Ahead(v)'
        /\ \A t \in tc_wakeup' : ns'.i <= 3 \/ (ns'.i <= 4 /\ Ahead(t)')
    BY <2>1, <1>6, <1>9, <1>10 DEF NetInv, RoundInv
  <2>. QED  BY <2>2, <2>3 DEF RoundInv
<1>. QED  BY <1>10, <1>11, <1>15, <1>16, <1>17, <1>18, RecvBase DEF NetInv, TokenInv

LEMMA CallStep == ASSUME NetInv, NEW w \in Worker, Call(w) PROVE NetInv'
<1>1. /\ cur_tc = w /\ pc[w] = "call" /\ waits[w] = None
      /\ w \in Lwip /\ w # tcpip /\ w # main /\ w \in Thread /\ w # None
      /\ args[w].sock \in Socket
  BY WorkerReady DEF Call, NetInv
<1>2. Post(tcpip, w)
  BY DEF Call
<1>3. Goto("called") /\ UNCHANGED <<cur_tc, thread_queue, args, write_msg, buse, ns, cl, ns_timer, kept, env_ipc_perm>>
  BY DEF Call, Still
<1>4. tc_wakeup' = tc_wakeup \cup Woken(queued_msg(tcpip)) /\ waits' = waits
  BY <1>2 DEF Post
<1>5. /\ Formed'
      /\ \A n \in Mbox : q(n)' = IF n = tcpip THEN q(n) + 1 ELSE q(n)
      /\ \A n \in Mbox : free(n)' = IF n = tcpip THEN free(n) - 1 ELSE free(n)
      /\ \A r \in Socket : done(r)' = done(r)
      /\ \A n \in Mbox : \A y : y # None => (InMailbox(n, y)' <=> InMailbox(n, y) \/ (n = tcpip /\ y = w))
      /\ \A r \in Sem : r # queued_msg(tcpip) => sems'[r].waiters = sems[r].waiters
      /\ \A n \in Mbox, i \in Slots : mboxes'[n].msg[i] = mboxes[n].msg[i] \/ (n = tcpip /\ mboxes'[n].msg[i] = w)
  BY <1>2, PostStep, Sems DEF NetInv, BaseInv
<1>6. /\ pc'[w] = "called" /\ \A v \in Worker : v # w => pc'[v] = pc[v]
      /\ \A t \in Thread : t # w => pc'[t] = pc[t]
      /\ pc'[tcpip] = pc[tcpip] /\ pc'[main] = pc[main] /\ Live' = Live
      /\ \A r : Receivers(r)' = Receivers(r) \ {w}
      /\ \A r : Deliverers(r)' = Deliverers(r) \ {w}
      /\ \A r : Calling(r)' = IF r = args[w].sock THEN Calling(r) \cup {w} ELSE Calling(r) \ {w}
      /\ \A c : For(c)' \subseteq For(c)
  BY <1>1, <1>3, WorkerGoes
<1>7. \A r : w \notin Receivers(r) /\ w \notin Deliverers(r) /\ w \notin Calling(r)
  BY <1>1 DEF Receivers, Deliverers, Calling
<1>8. /\ \A r : Deliverers(r)' = Deliverers(r) /\ Receivers(r)' = Receivers(r)
      /\ \A r : \A v : v \in Calling(r)' <=> v \in Calling(r) \/ (v = w /\ r = args[w].sock)
  BY <1>6, <1>7
<1>9. q(tcpip)' = q(tcpip) + 1 /\ \A r \in Socket : done(r)' = done(r) /\ q(r)' = q(r)
  BY <1>5, Sems
\* The mailbox was empty.
<1>10. \A k \in Kind : \A x \in Thing : Token(k, x) => k = "call" /\ x = w
  <2>1. Token("call", w)
    BY <1>1 DEF Token
  <2>. QED  BY <2>1, Only
<1>11. q(tcpip) = 0 /\ \A r \in Socket : done(r) = 0
  <2>1. "queued" # "call" /\ "done" # "call"
    OBVIOUS
  <2>2. ~Token("queued", tcpip) /\ \A r \in Socket : ~Token("done", r)
    BY <2>1, <1>10, Only
  <2>. QED  BY <2>2, Numbers DEF Token
<1>12. WaitInv' /\ QuietInv' /\ (\A x : Ahead(x)' <=> Ahead(x)) /\ Ahead(w)
  <2>1. \A m \in Mbox : (q(m)' <= q(m) \/ queued_msg(tcpip) = queued_msg(m)) /\ free(m)' <= free(m)
    BY <1>5, Numbers
  <2>2. \A r \in Socket : done(r)' <= done(r)
    BY <1>9, Numbers
  <2>. QED  BY <2>1, <2>2, <1>1, <1>3, <1>4, <1>5, <1>6, GoingOn
<1>13. ClientInv'
  BY <1>1, <1>3, <1>6, FewerClients
<1>14. \A v \in Worker : (InFlight(v)' <=> InFlight(v) \/ v = w) /\ (InFlight(v) => v # w)
  <2>1. \A v \in Worker : v # None
    BY Names
  <2>2. \A v \in Worker : InFlight(v)' <=> InFlight(v) \/ v = w
    BY <2>1, <1>3, <1>5, Sems DEF InFlight
  <2>. QED  BY <2>2, <1>1 DEF NetInv, TokenInv, CallInv
<1>15. CallInv'
  <2>1. \A i \in Slots : mboxes'[tcpip].msg[i] \in Worker \cup {None}
    BY <1>5, Sems DEF NetInv, TokenInv, CallInv
  <2>2. \A v \in Worker : InFlight(v)' => pc'[v] = "called"
    BY <1>6, <1>14 DEF NetInv, TokenInv, CallInv
  <2>3. \A r : \A v \in Calling(r) : v \in Worker
    BY DEF Calling
  <2>4. q(tcpip)' <= 1
    BY <1>9, <1>11
  <2>5. \A r \in Socket : ~(done(r)' = 1) /\ done(r)' <= 1 /\ done(r)' = 0
    BY <1>9, <1>11
  <2>6. ASSUME NEW r \in Socket
        PROVE  /\ write_msg'[r] # None =>
                    /\ r \in Slow /\ write_msg'[r] \in Calling(r)' /\ ~InFlight(write_msg[r])'
               /\ \A v \in Calling(r)' : InFlight(v)' \/ write_msg'[r] = v
    <3>1. ASSUME write_msg[r] # None
          PROVE  r \in Slow /\ write_msg[r] \in Calling(r) /\ ~InFlight(write_msg[r]) /\ write_msg[r] # w
      BY <3>1, <1>7 DEF NetInv, TokenInv, CallInv
    <3>2. \A v \in Calling(r) : InFlight(v) \/ write_msg[r] = v
      BY <1>11 DEF NetInv, TokenInv, CallInv
    <3>3. write_msg' = write_msg /\ write_msg[r] \in Worker \cup {None}
      BY <1>3 DEF NetInv, BaseInv, Types
    <3>. QED  BY <3>1, <3>2, <3>3, <2>3, <1>8, <1>14
  <2>. QED  BY <2>1, <2>2, <2>4, <2>5, <2>6 DEF CallInv
<1>16. OneToken'
  <2>1. ASSUME NEW k \in Kind, NEW x \in Thing, Token(k, x)'
        PROVE  k = "queued" /\ x = tcpip
    <3>1. ~(k = "call" /\ x = w)
      BY <2>1, <1>6 DEF Token
    <3>2. CASE k = "queued"
      BY <2>1, <3>2 DEF Token
    <3>3. CASE k # "queued"
      <4>1. Token(k, x)
        BY <2>1, <3>1, <3>3, <1>6, <1>8, <1>9 DEF Token
      <4>. QED  BY <4>1, <3>1, <1>10
    <3>. QED  BY <3>2, <3>3
  <2>. QED  BY <2>1 DEF OneToken
<1>17. PacketInv'
  BY <1>8, <1>9 DEF NetInv, TokenInv, PacketInv
<1>18. RoundInv'
  <2>1. ns' = ns /\ ns.i <= 1 /\ ns.i <= 3
    <3>1. ns.i <= 1
      BY <1>1 DEF NetInv, RoundInv
    <3>. QED  BY <3>1, <1>3, Numbers
  <2>2. \A r \in Socket : ~(done(r)' > 0)
    BY <1>9, <1>11
  <2>. QED  BY <2>1, <2>2, <1>6, <1>8, <1>9, <1>12 DEF NetInv, RoundInv
<1>. QED  BY <1>12, <1>13, <1>15, <1>16, <1>17, <1>18, CallBase DEF NetInv, TokenInv

LEMMA CalledStep == ASSUME NetInv, NEW w \in Worker, Called(w) PROVE NetInv'
<1>0. PICK s : s = args[w].sock
  OBVIOUS
<1>1. /\ cur_tc = w /\ pc[w] = "called" /\ waits[w] = None /\ Me = args[w]
      /\ w \in Lwip /\ w # tcpip /\ w # main /\ w \in Thread /\ w # None
      /\ s \in Socket
  BY <1>0, WorkerReady DEF Called, NetInv
<1>2. Down(<<"done", s>>) /\ sems' = Lower(<<"done", s>>)
  BY <1>0, <1>1 DEF Called
<1>3. /\ Goto("reply")
      /\ UNCHANGED <<cur_tc, thread_queue, waits, tc_wakeup, mboxes, args, write_msg, buse, ns, cl, ns_timer, kept, env_ipc_perm>>
  BY DEF Called, Still
<1>4. /\ Formed' /\ done(s) > 0
      /\ \A n \in Mbox : q(n)' = q(n) /\ free(n)' = free(n)
      /\ \A r \in Socket : done(r)' = IF r = s THEN done(r) - 1 ELSE done(r)
      /\ \A r \in Sem : sems'[r].waiters = sems[r].waiters
  BY <1>1, <1>2, <1>3, LowerStep DEF NetInv
<1>5. done(s) = 1 /\ done(s)' = 0
  BY <1>1, <1>4, Numbers DEF NetInv, TokenInv, CallInv
<1>6. /\ pc'[w] = "reply" /\ \A v \in Worker : v # w => pc'[v] = pc[v]
      /\ \A t \in Thread : t # w => pc'[t] = pc[t]
      /\ pc'[tcpip] = pc[tcpip] /\ pc'[main] = pc[main] /\ Live' = Live
      /\ \A r : Receivers(r)' = Receivers(r) \ {w}
      /\ \A r : Deliverers(r)' = Deliverers(r) \ {w}
      /\ \A r : Calling(r)' = Calling(r) \ {w}
      /\ \A c : For(c)' \subseteq For(c)
  BY <1>1, <1>3, WorkerGoes
<1>7. w \in Calling(s) /\ \A r : w \notin Deliverers(r) /\ w \notin Receivers(r) /\ (r # s => w \notin Calling(r))
  BY <1>0, <1>1 DEF Receivers, Deliverers, Calling
<1>8. /\ \A r : Deliverers(r)' = Deliverers(r) /\ Receivers(r)' = Receivers(r)
      /\ \A r : r # s => Calling(r)' = Calling(r)
      /\ Calling(s)' = {}
  <2>1. \A v \in Calling(s) : v = w
    BY <1>1, <1>5, <1>7 DEF NetInv, TokenInv, CallInv
  <2>. QED  BY <2>1, <1>6, <1>7
<1>9. q(tcpip)' = q(tcpip) /\ \A r \in Socket : q(r)' = q(r) /\ (r # s => done(r)' = done(r))
  BY <1>4, Sems
<1>10. \A k \in Kind : \A x \in Thing : Token(k, x) => k = "done" /\ x = s
  <2>1. Token("done", s)
    BY <1>1, <1>4 DEF Token
  <2>. QED  BY <2>1, <1>1, Only
\* No call is in flight: w takes the completion of its own call.
<1>11. q(tcpip) = 0 /\ pc[tcpip] # "serve" /\ \A r \in Socket : r # s => done(r) = 0
  <2>1. "queued" # "done" /\ "serve" # "done"
    OBVIOUS
  <2>2. ~Token("queued", tcpip) /\ ~Token("serve", tcpip) /\ \A r \in Socket : r # s => ~Token("done", r)
    BY <2>1, <1>10, Only
  <2>. QED  BY <2>2, Numbers DEF Token
<1>12. WaitInv' /\ QuietInv' /\ (\A x : Ahead(x)' <=> Ahead(x)) /\ Ahead(w)
  <2>1. \A m \in Mbox : q(m)' <= q(m) /\ free(m)' <= free(m)
    BY <1>4, Numbers
  <2>2. \A r \in Socket : done(r)' <= done(r)
    <3>1. \A r \in Socket : done(r) \in Nat
      BY Numbers
    <3>. QED  BY <3>1, <1>4
  <2>3. None \notin Sem /\ tc_wakeup' = tc_wakeup \cup {}
    BY <1>3, Names
  <2>. QED  BY <2>1, <2>2, <2>3, <1>1, <1>3, <1>4, <1>6, GoingOn
<1>13. ClientInv'
  BY <1>1, <1>3, <1>6, FewerClients
<1>14. \A v \in Worker : ~InFlight(v) /\ ~InFlight(v)'
  <2>1. \A v \in Worker : ~InFlight(v)
    BY <1>11, NoFlight
  <2>. QED  BY <2>1, <1>3 DEF InFlight, InMailbox
<1>15. CallInv'
  <2>1. q(tcpip)' <= 1 /\ \A i \in Slots : mboxes'[tcpip].msg[i] \in Worker \cup {None}
    BY <1>3, <1>9 DEF NetInv, TokenInv, CallInv
  <2>2. ASSUME NEW r \in Socket
        PROVE  /\ done(r)' = 0 /\ done(r)' <= 1 /\ done(r)' # 1
               /\ write_msg'[r] # None =>
                    /\ r \in Slow /\ write_msg'[r] \in Calling(r)' /\ ~InFlight(write_msg[r])'
               /\ \A v \in Calling(r)' : InFlight(v)' \/ write_msg'[r] = v
    <3>1. done(r)' = 0
      BY <1>5, <1>9, <1>11
    <3>2. r = s => write_msg[r] = None
      BY <1>5 DEF NetInv, TokenInv, CallInv
    <3>3. write_msg' = write_msg /\ write_msg[r] \in Worker \cup {None}
      BY <1>3 DEF NetInv, BaseInv, Types
    <3>4. r # s => \A v \in Calling(r) : InFlight(v) \/ write_msg[r] = v
      BY <1>11 DEF NetInv, TokenInv, CallInv
    <3>5. \A v \in Calling(r) : v \in Worker
      BY DEF Calling
    <3>6. write_msg[r] # None => r \in Slow /\ write_msg[r] \in Calling(r)
      BY DEF NetInv, TokenInv, CallInv
    <3>7. done(r)' <= 1 /\ done(r)' # 1
      BY <3>1
    <3>. QED  BY <3>1, <3>2, <3>3, <3>4, <3>5, <3>6, <3>7, <1>8, <1>14
  <2>. QED  BY <2>1, <2>2, <1>14 DEF CallInv
<1>16. OneToken'
  <2>1. ASSUME NEW k \in Kind, NEW x \in Thing, Token(k, x)'
        PROVE  FALSE
    <3>1. ~(k = "done" /\ x = s)
      BY <2>1, <1>5 DEF Token
    <3>2. Token(k, x)
      BY <2>1, <3>1, <1>6, <1>8, <1>9 DEF Token
    <3>. QED  BY <3>1, <3>2, <1>10
  <2>. QED  BY <2>1 DEF OneToken
<1>17. PacketInv'
  BY <1>8, <1>9 DEF NetInv, TokenInv, PacketInv
<1>18. RoundInv'
  <2>1. ns' = ns /\ \A r \in Socket : ~(done(r)' > 0)
    BY <1>3, <1>5, <1>9, <1>11
  <2>. QED  BY <2>1, <1>3, <1>6, <1>8, <1>9, <1>12 DEF NetInv, RoundInv
<1>. QED  BY <1>12, <1>13, <1>15, <1>16, <1>17, <1>18, CalledBase DEF NetInv, TokenInv

LEMMA DeliverStep == ASSUME NetInv, NEW w \in Worker, Deliver(w) PROVE NetInv'
<1>0. PICK s : s = args[w].sock
  OBVIOUS
<1>1. /\ cur_tc = w /\ pc[w] = "deliver" /\ waits[w] = None /\ Me = args[w]
      /\ w \in Lwip /\ w # tcpip /\ w # main /\ w \in Thread /\ w # None
      /\ s \in Socket /\ s \in Mbox /\ s # tcpip
  BY <1>0, WorkerReady DEF Deliver, NetInv
<1>2. Post(s, s)
  BY <1>0, <1>1 DEF Deliver
<1>3. Goto("halt") /\ UNCHANGED <<cur_tc, thread_queue, args, write_msg, buse, ns, cl, ns_timer, kept, env_ipc_perm>>
  BY DEF Deliver, Still
<1>4. tc_wakeup' = tc_wakeup \cup Woken(queued_msg(s)) /\ waits' = waits
  BY <1>2 DEF Post
<1>5. /\ Formed'
      /\ \A n \in Mbox : q(n)' = IF n = s THEN q(n) + 1 ELSE q(n)
      /\ \A n \in Mbox : free(n)' = IF n = s THEN free(n) - 1 ELSE free(n)
      /\ \A r \in Socket : done(r)' = done(r)
      /\ \A n \in Mbox : \A y : y # None => (InMailbox(n, y)' <=> InMailbox(n, y) \/ (n = s /\ y = s))
      /\ \A r \in Sem : r # queued_msg(s) => sems'[r].waiters = sems[r].waiters
      /\ \A n \in Mbox, i \in Slots : mboxes'[n].msg[i] = mboxes[n].msg[i] \/ (n = s /\ mboxes'[n].msg[i] = s)
  BY <1>1, <1>2, PostStep DEF NetInv, BaseInv
<1>6. /\ pc'[w] = "halt" /\ \A v \in Worker : v # w => pc'[v] = pc[v]
      /\ \A t \in Thread : t # w => pc'[t] = pc[t]
      /\ pc'[tcpip] = pc[tcpip] /\ pc'[main] = pc[main] /\ Live' = Live
      /\ \A r : Receivers(r)' = Receivers(r) \ {w}
      /\ \A r : Deliverers(r)' = Deliverers(r) \ {w}
      /\ \A r : Calling(r)' = Calling(r) \ {w}
      /\ \A c : For(c)' \subseteq For(c)
  BY <1>1, <1>3, WorkerGoes
<1>7. w \in Deliverers(s) /\ \A r : w \notin Receivers(r) /\ w \notin Calling(r) /\ (r # s => w \notin Deliverers(r))
  BY <1>0, <1>1 DEF Receivers, Deliverers, Calling
<1>8. /\ \A r : Receivers(r)' = Receivers(r) /\ Calling(r)' = Calling(r)
      /\ \A r : r # s => Deliverers(r)' = Deliverers(r)
      /\ Deliverers(s)' = Deliverers(s) \ {w}
  BY <1>6, <1>7
<1>9. /\ q(tcpip)' = q(tcpip) /\ \A r \in Socket : done(r)' = done(r) /\ (r # s => q(r)' = q(r))
      /\ q(s)' = q(s) + 1 /\ q(s) \in Nat /\ q(s)' > 0 /\ q(s)' # 0
  <2>1. q(s) \in Nat /\ q(s)' = q(s) + 1
    BY <1>1, <1>5, Numbers
  <2>2. q(s)' > 0 /\ q(s)' # 0
    BY <2>1
  <2>. QED  BY <2>1, <2>2, <1>1, <1>5, Sems
<1>10. WaitInv' /\ QuietInv' /\ (\A x : Ahead(x)' <=> Ahead(x)) /\ Ahead(w)
  <2>1. \A m \in Mbox : (q(m)' <= q(m) \/ queued_msg(s) = queued_msg(m)) /\ free(m)' <= free(m)
    BY <1>5, Numbers
  <2>2. \A r \in Socket : done(r)' <= done(r)
    BY <1>9, Numbers
  <2>. QED  BY <2>1, <2>2, <1>1, <1>3, <1>4, <1>5, <1>6, GoingOn
<1>11. ClientInv'
  BY <1>1, <1>3, <1>6, FewerClients
<1>12. CallInv'
  <2>1. \A i \in Slots : mboxes'[tcpip].msg[i] \in Worker \cup {None}
    BY <1>1, <1>5, Sems DEF NetInv, TokenInv, CallInv
  <2>2. \A v \in Worker : InFlight(v)' <=> InFlight(v)
    <3>1. \A v \in Worker : v # None
      BY Names
    <3>. QED  BY <3>1, <1>1, <1>3, <1>5, Sems DEF InFlight
  <2>3. \A v \in Worker : InFlight(v)' => pc'[v] = "called"
    BY <2>2, <1>1, <1>6 DEF NetInv, TokenInv, CallInv
  <2>4. \A r : \A v \in Calling(r) : v \in Worker
    BY DEF Calling
  <2>. QED  BY <2>1, <2>2, <2>3, <2>4, <1>3, <1>8, <1>9 DEF NetInv, TokenInv, CallInv
\* Who waits for packets here, if anybody, is what goes on.
<1>13. Receivers(s) # {} =>
         /\ \A k \in Kind : \A x \in Thing : Token(k, x) => k = "sock" /\ x = s
         /\ ns.i = 0 \/ (ns.i = 1 /\ \A v \in Receivers(s) : Ahead(v))
  <2>1. ASSUME Receivers(s) # {}
        PROVE  \A k \in Kind : \A x \in Thing : Token(k, x) => k = "sock" /\ x = s
    <3>1. Token("sock", s)
      BY <2>1, <1>1, <1>7 DEF Token
    <3>. QED  BY <3>1, <1>1, Only
  <2>2. ASSUME Receivers(s) # {}
        PROVE  ns.i = 0 \/ (ns.i = 1 /\ \A v \in Receivers(s) : Ahead(v))
    <3>1. CASE q(s) = 0
      BY <2>2, <3>1, <1>1, <1>7 DEF NetInv, RoundInv
    <3>2. CASE q(s) # 0
      <4>1. q(s) > 0
        BY <3>2, <1>9
      <4>. QED  BY <2>2, <4>1, <1>1 DEF NetInv, RoundInv
    <3>. QED  BY <3>1, <3>2
  <2>. QED  BY <2>1, <2>2
<1>14. Woken(queued_msg(s)) \subseteq Receivers(s)
  <2>1. ASSUME NEW t \in Thread, waits[t] # None, waits[t].sem = queued_msg(s)
        PROVE  t \in Receivers(s)
    <3>1. t \in Lwip
      BY <2>1, Names DEF NetInv, BaseInv, MainInv, WorkerInv, Lwip, Live
    <3>2. Needs(t) = queued_msg(s) /\ Needs(t) \in Sem
      BY <2>1, <3>1 DEF NetInv, WaitInv
    <3>3. pc[t] \in {"fetch", "call", "called", "deliver"}
      BY <3>1, <3>2, NeedsAre, Names DEF NetInv
    <3>4. t # tcpip
      <4>1. pc[tcpip] \in {"fetch", "serve"}
        BY DEF NetInv, BaseInv, LwipInv
      <4>2. t = tcpip => Needs(t) = queued_msg(tcpip)
        BY <4>1, <3>3, NeedsAre DEF NetInv
      <4>. QED  BY <4>2, <3>2, <1>1, Sems
    <3>5. t \in Worker
      BY <3>1, <3>4, Runner DEF NetInv
    <3>6. pc[t] = "fetch" /\ queued_msg(args[t].sock) = queued_msg(s)
      BY <3>2, <3>3, <3>5, NeedsAre, Sems DEF NetInv
    <3>7. args[t].sock = s
      BY <3>6 DEF queued_msg
    <3>. QED  BY <3>5, <3>6, <3>7 DEF Receivers
  <2>. QED  BY <2>1 DEF Woken
<1>15. OneToken'
  <2>1. ASSUME NEW k \in Kind, NEW x \in Thing, Token(k, x)', ~(k = "sock" /\ x = s)
        PROVE  Token(k, x)
    BY <2>1, <1>3, <1>6, <1>8, <1>9 DEF Token
  <2>2. CASE Receivers(s) = {}
    <3>1. ~Token("sock", s)'
      BY <2>2, <1>8 DEF Token
    <3>2. \A k \in Kind : \A x \in Thing : Token(k, x)' => Token(k, x)
      BY <2>1, <3>1
    <3>. QED  BY <3>2 DEF OneToken, NetInv, TokenInv
  <2>3. CASE Receivers(s) # {}
    <3>1. \A k \in Kind : \A x \in Thing : Token(k, x)' => k = "sock" /\ x = s
      BY <2>1, <2>3, <1>13
    <3>. QED  BY <3>1 DEF OneToken
  <2>. QED  BY <2>2, <2>3
<1>16. PacketInv'
  <2>1. ASSUME NEW r \in Socket, NEW u \in Receivers(r)', NEW v \in Receivers(r)', u # v
        PROVE  q(r)' <= 1 /\ (q(r)' = 1 => Deliverers(r)' = {}) /\ \A c, d \in Deliverers(r)' : c = d
    <3>1. /\ q(r) <= 1 /\ (q(r) = 1 => Deliverers(r) = {}) /\ \A c, d \in Deliverers(r) : c = d
      BY <2>1, <1>8 DEF NetInv, TokenInv, PacketInv
    <3>2. CASE r = s
      <4>1. q(s) = 0 /\ q(s)' = 1
        BY <3>1, <3>2, <1>7, <1>9
      <4>2. Deliverers(s)' = {}
        BY <3>1, <3>2, <1>7, <1>8
      <4>. QED  BY <3>2, <4>1, <4>2
    <3>3. CASE r # s
      BY <3>1, <3>3, <1>8, <1>9
    <3>. QED  BY <3>2, <3>3
  <2>. QED  BY <2>1 DEF PacketInv
<1>17. RoundInv'
  <2>1. ns' = ns
    BY <1>3
  <2>2. ASSUME NEW r \in Socket
        PROVE  /\ done(r)' > 0 => ns'.i <= 2 \/ (ns'.i <= 3 /\ \A v \in Calling(r)' : Ahead(v)')
               /\ Receivers(r)' # {} /\ q(r)' > 0 =>
                    ns'.i = 0 \/ (ns'.i = 1 /\ \A v \in Receivers(r)' : Ahead(v)')
               /\ Receivers(r)' # {} /\ q(r)' = 0 =>
                    \A v \in Deliverers(r)' : ns'.i = 0 /\ Ahead(v)'
    <3>1. CASE r = s
      BY <3>1, <2>1, <1>1, <1>8, <1>9, <1>10, <1>13 DEF NetInv, RoundInv
    <3>2. CASE r # s
      BY <3>2, <2>1, <1>8, <1>9, <1>10 DEF NetInv, RoundInv
    <3>. QED  BY <3>1, <3>2
  <2>3. \A t \in tc_wakeup' : ns'.i <= 3 \/ (ns'.i <= 4 /\ Ahead(t)')
    <3>1. Receivers(s) # {} => ns.i <= 3
      BY <1>13, Numbers
    <3>2. \A t \in tc_wakeup : ns.i <= 3 \/ (ns.i <= 4 /\ Ahead(t))
      BY DEF NetInv, RoundInv
    <3>. QED  BY <3>1, <3>2, <2>1, <1>4, <1>10, <1>14
  <2>4. /\ \A v \in Worker : pc'[v] = "call" => ns'.i <= 1 /\ Ahead(v)'
        /\ q(tcpip)' > 0 => ns'.i <= 1 \/ (ns'.i <= 2 /\ Ahead(tcpip)')
        /\ pc'[tcpip] = "serve" => ns'.i <= 2
        /\ \A v \in Worker : pc'[v] = "ack" => ns'.i = 0 /\ Ahead(v)'
    BY <2>1, <1>6, <1>9, <1>10 DEF NetInv, RoundInv
  <2>. QED  BY <2>2, <2>3, <2>4 DEF RoundInv
<1>. QED  BY <1>10, <1>11, <1>12, <1>15, <1>16, <1>17, DeliverBase DEF NetInv, TokenInv

LEMMA AckStep == ASSUME NetInv, OwnSlow, NEW w \in Worker, Ack(w) PROVE NetInv'
<1>0. PICK s : s = args[w].sock
  OBVIOUS
<1>1. /\ cur_tc = w /\ pc[w] = "ack" /\ waits[w] = None /\ Me = args[w]
      /\ w \in Lwip /\ w # tcpip /\ w # main /\ w \in Thread /\ w # None
      /\ s \in Socket /\ s \in Slow
  <2>1. Ready(w, "ack")
    BY DEF Ack
  <2>2. args[w].sock \in Slow
    BY <2>1 DEF Ready, NetInv, BaseInv, WorkerInv
  <2>. QED  BY <2>1, <2>2, <1>0, WorkerReady DEF NetInv
<1>2. /\ Goto("halt") /\ write_msg' = [write_msg EXCEPT ![s] = None]
      /\ IF write_msg[s] # None THEN Complete(s) ELSE UNCHANGED <<sems, tc_wakeup>>
      /\ UNCHANGED <<cur_tc, thread_queue, waits, mboxes, args, buse, ns, cl, ns_timer, kept, env_ipc_perm>>
  BY <1>0, <1>1 DEF Ack, Still
<1>3. write_msg'[s] = None /\ \A r \in Socket : r # s => write_msg'[r] = write_msg[r]
  BY <1>1, <1>2 DEF NetInv, BaseInv, Types
<1>4. /\ pc'[w] = "halt" /\ \A v \in Worker : v # w => pc'[v] = pc[v]
      /\ \A t \in Thread : t # w => pc'[t] = pc[t]
      /\ pc'[tcpip] = pc[tcpip] /\ pc'[main] = pc[main] /\ Live' = Live
      /\ \A r : Receivers(r)' = Receivers(r) \ {w}
      /\ \A r : Deliverers(r)' = Deliverers(r) \ {w}
      /\ \A r : Calling(r)' = Calling(r) \ {w}
      /\ \A c : For(c)' \subseteq For(c)
  BY <1>1, <1>2, WorkerGoes
<1>5. \A r : w \notin Receivers(r) /\ w \notin Deliverers(r) /\ w \notin Calling(r)
  BY <1>1 DEF Receivers, Deliverers, Calling
<1>6. \A r : Receivers(r)' = Receivers(r) /\ Deliverers(r)' = Deliverers(r) /\ Calling(r)' = Calling(r)
  BY <1>4, <1>5
<1>7. \A k \in Kind : \A x \in Thing : Token(k, x) => k = "ack" /\ x = w
  <2>1. Token("ack", w)
    BY <1>1 DEF Token
  <2>. QED  BY <2>1, Only
<1>8. q(tcpip) = 0 /\ pc[tcpip] # "serve" /\ \A r \in Socket : done(r) = 0
  <2>1. "queued" # "ack" /\ "serve" # "ack" /\ "done" # "ack"
    OBVIOUS
  <2>2. ~Token("queued", tcpip) /\ ~Token("serve", tcpip) /\ \A r \in Socket : ~Token("done", r)
    BY <2>1, <1>7, Only
  <2>. QED  BY <2>2, Numbers DEF Token
<1>9. \A v \in Worker : ~InFlight(v) /\ ~InFlight(v)'
  <2>1. \A v \in Worker : ~InFlight(v)
    BY <1>8, NoFlight
  <2>. QED  BY <2>1, <1>2 DEF InFlight, InMailbox
<1>10. ns' = ns /\ ns.i = 0 /\ ns.i <= 2 /\ ns.i <= 3
  <2>1. ns.i = 0
    BY <1>1 DEF NetInv, RoundInv
  <2>. QED  BY <2>1, <1>2
<1>11. ClientInv'
  BY <1>1, <1>2, <1>4, FewerClients
\* Whether or not a write is finished, the completion is that of the only caller.
<1>12. /\ \A r \in Socket : \A v \in Calling(r) : write_msg[r] = v
       /\ \A r \in Socket : write_msg[r] # None => r \in Slow /\ write_msg[r] \in Calling(r) /\ write_msg[r] \in Worker
       /\ \A u, v \in Calling(s) : u = v
  <2>1. \A r : \A v \in Calling(r) : v \in Worker
    BY DEF Calling
  <2>2. \A r \in Socket : \A v \in Calling(r) : write_msg[r] = v
    BY <2>1, <1>8, <1>9 DEF NetInv, TokenInv, CallInv
  <2>. QED  BY <2>1, <2>2, <1>1 DEF NetInv, TokenInv, CallInv
<1>13. /\ Formed' /\ (\A m \in Mbox : q(m)' = q(m) /\ free(m)' = free(m))
       /\ \A r \in Socket : q(r)' = q(r) /\ done(r)' = IF r = s /\ write_msg[s] # None THEN 1 ELSE 0
       /\ WaitInv' /\ QuietInv' /\ \A x : Ahead(x)' <=> Ahead(x)
  <2>1. CASE write_msg[s] # None
    <3>1. Complete(s)
      BY <2>1, <1>2
    <3>2. /\ Formed' /\ \A m \in Mbox : q(m)' = q(m) /\ free(m)' = free(m)
          /\ \A r \in Socket : done(r)' = IF r = s THEN done(r) + 1 ELSE done(r)
          /\ \A r \in Sem : r # <<"done", s>> => sems'[r].waiters = sems[r].waiters
          /\ tc_wakeup' = tc_wakeup \cup Woken(<<"done", s>>)
      BY <3>1, <1>1, <1>2, CompleteStep DEF NetInv
    <3>3. \A m \in Mbox : q(m)' <= q(m) /\ free(m)' <= free(m)
      BY <3>2, Numbers
    <3>4. \A r \in Socket : done(r)' <= done(r) \/ <<"done", s>> = <<"done", r>>
      BY <3>2, <1>8
    <3>5. UNCHANGED <<cur_tc, thread_queue, waits, ns>> /\ \A v \in Worker : args'[v] = args[v]
      BY <1>2
    <3>6. <<"done", s>> \in Sem => Woken(<<"done", s>>) = Woken(<<"done", s>>)
      OBVIOUS
    <3>7. WaitInv' /\ QuietInv' /\ \A x : Ahead(x)' <=> Ahead(x)
      BY <3>2, <3>3, <3>4, <3>5, <3>6, <1>1, <1>4, GoingOn
    <3>. QED  BY <3>2, <3>7, <2>1, <1>8, Sems
  <2>2. CASE write_msg[s] = None
    <3>1. UNCHANGED <<sems, tc_wakeup>>
      BY <2>2, <1>2
    <3>2. /\ Formed' /\ \A m \in Mbox : q(m)' = q(m) /\ free(m)' = free(m)
          /\ \A r \in Socket : done(r)' = done(r)
      BY <3>1, <1>2, Waiting DEF q, free, done, Formed, NetInv
    <3>3. \A m \in Mbox : q(m)' <= q(m) /\ free(m)' <= free(m)
      BY <3>2, Numbers
    <3>4. \A r \in Socket : done(r)' <= done(r)
      BY <3>2, Numbers
    <3>5. None \notin Sem /\ tc_wakeup' = tc_wakeup \cup {} /\ \A r \in Sem : sems'[r].waiters = sems[r].waiters
      BY <3>1, Names
    <3>6. WaitInv' /\ QuietInv' /\ \A x : Ahead(x)' <=> Ahead(x)
      BY <3>2, <3>3, <3>4, <3>5, <1>1, <1>2, <1>4, GoingOn
    <3>. QED  BY <3>2, <3>6, <2>2, <1>8, Sems
  <2>. QED  BY <2>1, <2>2
<1>14. q(tcpip)' = 0 /\ ~(q(tcpip)' > 0)
  BY <1>8, <1>13, Sems
<1>15. CallInv'
  <2>1. q(tcpip)' <= 1 /\ \A i \in Slots : mboxes'[tcpip].msg[i] \in Worker \cup {None}
    BY <1>2, <1>14 DEF NetInv, TokenInv, CallInv
  <2>2. ASSUME NEW r \in Socket
        PROVE  /\ done(r)' <= 1
               /\ done(r)' = 1 => /\ \E v \in Calling(r)' : TRUE
                                  /\ \A u, v \in Calling(r)' : u = v
               /\ write_msg'[r] # None =>
                    /\ r \in Slow /\ done(r)' = 0
                    /\ write_msg'[r] \in Calling(r)' /\ ~InFlight(write_msg[r])'
               /\ \A v \in Calling(r)' : InFlight(v)' \/ write_msg'[r] = v \/ done(r)' = 1
    <3>1. CASE r = s
      <4>1. CASE write_msg[s] # None
        <5>1. done(s)' = 1 /\ done(s)' <= 1
          BY <4>1, <1>1, <1>13
        <5>. QED  BY <3>1, <4>1, <5>1, <1>1, <1>3, <1>6, <1>12
      <4>2. CASE write_msg[s] = None
        <5>1. done(s)' = 0 /\ done(s)' # 1 /\ done(s)' <= 1
          BY <4>2, <1>1, <1>13
        <5>2. Calling(s) = {}
          BY <4>2, <1>1, <1>12, Names DEF Calling
        <5>. QED  BY <3>1, <5>1, <5>2, <1>3, <1>6
      <4>. QED  BY <4>1, <4>2
    <3>2. CASE r # s
      <4>1. done(r)' = 0 /\ done(r)' # 1 /\ done(r)' <= 1
        BY <3>2, <1>13
      <4>. QED  BY <3>2, <4>1, <1>3, <1>6, <1>9, <1>12
    <3>. QED  BY <3>1, <3>2
  <2>. QED  BY <2>1, <2>2, <1>9 DEF CallInv
<1>16. OneToken'
  <2>1. ASSUME NEW k \in Kind, NEW x \in Thing, Token(k, x)'
        PROVE  k = "done" /\ x = s
    <3>1. ~(k = "ack" /\ x = w)
      BY <2>1, <1>4 DEF Token
    <3>2. CASE k = "done"
      BY <2>1, <3>2, <1>13 DEF Token
    <3>3. CASE k # "done"
      <4>1. Token(k, x)
        BY <2>1, <3>1, <3>3, <1>4, <1>6, <1>13, <1>14 DEF Token
      <4>. QED  BY <4>1, <3>1, <1>7
    <3>. QED  BY <3>2, <3>3
  <2>. QED  BY <2>1 DEF OneToken
<1>17. PacketInv'
  BY <1>6, <1>13 DEF NetInv, TokenInv, PacketInv
<1>18. RoundInv'
  BY <1>4, <1>6, <1>10, <1>13, <1>14 DEF NetInv, RoundInv
<1>. QED  BY <1>11, <1>13, <1>15, <1>16, <1>17, <1>18, AckBase DEF NetInv, TokenInv

\* What ends wakes nobody and is no token.
LEMMA EndStep ==
    ASSUME NetInv, NEW w \in Worker, pc[w] \in {"reply", "halt"}, waits[w] = None,
           pc'[w] \in {"halt", "none"},
           \A t \in Thread : t # w => pc'[t] = pc[t] /\ args'[t] = args[t],
           UNCHANGED <<tc_wakeup, sems, mboxes, write_msg, ns>>,
           \A x : Ahead(x) /\ x # w => Ahead(x)'
    PROVE  TokenInv' /\ RoundInv'
<1>1. /\ \A v \in Worker : v # w => pc'[v] = pc[v] /\ args'[v] = args[v]
      /\ pc'[tcpip] = pc[tcpip] /\ args'[tcpip] = args[tcpip] /\ tcpip # w
  BY Names
<1>2. \A s : Receivers(s)' = Receivers(s) /\ Deliverers(s)' = Deliverers(s) /\ Calling(s)' = Calling(s)
  BY <1>1 DEF Receivers, Deliverers, Calling
<1>3. \A s : w \notin Receivers(s) /\ w \notin Deliverers(s) /\ w \notin Calling(s)
  BY DEF Receivers, Deliverers, Calling
<1>4. /\ q(tcpip)' = q(tcpip)
      /\ \A s \in Socket : q(s)' = q(s) /\ done(s)' = done(s)
  BY DEF q, done
<1>5. \A v : InFlight(v)' <=> InFlight(v)
  BY <1>1 DEF InFlight, InMailbox
<1>6. CallInv'
  <2>1. \A v \in Worker : pc[v] = "called" => pc'[v] = "called"
    BY <1>1
  <2>. QED  BY <2>1, <1>2, <1>4, <1>5 DEF NetInv, TokenInv, CallInv
<1>7. OneToken'
  <2>1. ASSUME NEW k \in Kind, NEW x \in Thing, Token(k, x)'
        PROVE  Token(k, x)
    BY <2>1, <1>1, <1>2, <1>4 DEF Token
  <2>. QED  BY <2>1 DEF NetInv, TokenInv, OneToken
<1>8. PacketInv'
  BY <1>2, <1>4 DEF NetInv, TokenInv, PacketInv
<1>9. RoundInv'
  <2>1. w \notin tc_wakeup
    BY DEF NetInv, BaseInv, Types
  <2>. QED  BY <2>1, <1>1, <1>2, <1>3, <1>4 DEF NetInv, RoundInv
<1>. QED  BY <1>6, <1>7, <1>8, <1>9 DEF TokenInv

LEMMA ReplyStep == ASSUME NetInv, NEW w \in Worker, Reply(w) PROVE NetInv'
<1>1. /\ cur_tc = w /\ pc[w] = "reply" /\ waits[w] = None /\ Me = args[w]
      /\ w \in Lwip /\ w # tcpip /\ w # main /\ w \in Thread /\ w # None
  BY WorkerReady DEF Reply, NetInv
<1>2. /\ Goto("halt") /\ cl' = [cl EXCEPT ![args[w].whom] = "idle"]
      /\ UNCHANGED <<tvars, args, write_msg, buse, ns, ns_timer, kept, env_ipc_perm>>
  BY <1>1 DEF Reply
<1>3. /\ pc'[w] = "halt" /\ \A v \in Worker : v # w => pc'[v] = pc[v]
      /\ \A t \in Thread : t # w => pc'[t] = pc[t]
      /\ pc'[main] = pc[main] /\ Live' = Live
  BY <1>1, <1>2, WorkerGoes
<1>4. \A x : Ahead(x)' <=> Ahead(x)
  BY <1>2 DEF Ahead, tvars
<1>5. TokenInv' /\ RoundInv'
  BY <1>1, <1>2, <1>3, <1>4, EndStep DEF tvars
<1>6. WaitInv' /\ QuietInv'
  <2>1. \A m \in Mbox : q(m)' <= q(m) /\ free(m)' <= free(m)
    BY <1>2, Numbers DEF tvars, q, free
  <2>2. \A r \in Socket : done(r)' <= done(r)
    <3>1. \A r \in Socket : done(r)' = done(r)
      BY <1>2 DEF tvars, done
    <3>. QED  BY <3>1, Numbers
  <2>3. /\ None \notin Sem /\ tc_wakeup' = tc_wakeup \cup {} /\ \A r \in Sem : sems'[r].waiters = sems[r].waiters
        /\ Formed' /\ UNCHANGED <<cur_tc, thread_queue, waits, ns, args>>
    BY <1>2, Names, Waiting DEF tvars, Formed, NetInv
  <2>. QED  BY <2>1, <2>2, <2>3, <1>1, <1>3, GoingOn
<1>7. ClientInv'
  <2>0. PICK c : c = args[w].whom
    OBVIOUS
  <2>1. c \in Client
    BY <2>0, <1>1 DEF NetInv, BaseInv, WorkerInv
  <2>2. \A d : For(d)' = For(d) \ {w}
    BY <1>2, <1>3 DEF For, Live
  <2>3. w \in For(c)
    BY <2>0, <1>1 DEF For, Live
  <2>4. For(c)' = {}
    BY <2>1, <2>2, <2>3 DEF NetInv, ClientInv
  <2>5. \A d \in Client : d # c => cl'[d] = cl[d]
    BY <2>0, <1>2 DEF NetInv, BaseInv, Types
  <2>6. pc'[main] \notin {"recv", "got"}
    BY <1>1, <1>3, Busy
  <2>. QED  BY <2>1, <2>2, <2>4, <2>5, <2>6 DEF NetInv, ClientInv
<1>. QED  BY <1>5, <1>6, <1>7, ReplyBase DEF NetInv

LEMMA HaltStep == ASSUME NetInv, NEW w \in Worker, Halt(w) PROVE NetInv'
<1>1. /\ pc'[w] = "none" /\ \A t \in Thread : t # w => pc'[t] = pc[t]
      /\ \A t \in Thread : t # w => args'[t] = args[t]
      /\ Live' = Live \ {w} /\ w \in Live /\ w \in Lwip /\ w # tcpip /\ w # main
      /\ cur_tc = w /\ pc[w] = "halt" /\ waits[w] = None /\ thread_halt
      /\ UNCHANGED <<waits, tc_wakeup, sems, mboxes, write_msg, ns, cl, ns_timer, kept, env_ipc_perm>>
  BY HaltFacts DEF NetInv
<1>2. \A x : Ahead(x) /\ x # w => Ahead(x)'
  BY <1>1, HaltQueue DEF NetInv, BaseInv
<1>3. TokenInv' /\ RoundInv'
  BY <1>1, <1>2, EndStep
<1>4. pc'[main] \notin {"recv", "got"}
  BY <1>1, Busy, Names
<1>5. Lwip' = Lwip \ {w} /\ Lwip \subseteq Thread
  BY <1>1, Runner DEF NetInv, Lwip
<1>6. WaitInv'
  <2>1. ASSUME NEW t \in Lwip, t # w
        PROVE  Needs(t)' = Needs(t)
    BY <2>1, <1>1, <1>5 DEF Needs
  <2>. QED  BY <2>1, <1>1, <1>2, <1>5 DEF NetInv, WaitInv, Down
<1>7. ClientInv'
  <2>1. \A c : For(c)' = For(c)
    <3>1. \A v \in Live : v # w => pc'[v] = pc[v] /\ args'[v] = args[v]
      BY <1>1, Names DEF Live
    <3>. QED  BY <3>1, <1>1 DEF For
  <2>. QED  BY <2>1, <1>1, <1>4 DEF NetInv, ClientInv
<1>. QED  BY <1>3, <1>4, <1>6, <1>7, HaltBase DEF NetInv, QuietInv

LEMMA NetInit == ASSUME Init PROVE NetInv
<1>1. BaseInv
  BY BaseInit
<1>2. /\ pc[main] = "flush" /\ pc[tcpip] = "fetch" /\ (\A w \in Worker : pc[w] = "none") /\ Live = {}
      /\ q(tcpip) = 0 /\ (\A s \in Socket : done(s) = 0) /\ (\A s \in Socket : write_msg[s] = None)
      /\ tc_wakeup = {} /\ tcpip \in Mbox
  BY InitFacts, Sems
<1>3. \A s : Receivers(s) = {} /\ Deliverers(s) = {} /\ Calling(s) = {}
  BY <1>2 DEF Receivers, Deliverers, Calling
<1>4. \A w \in Worker : ~InFlight(w)
  <2>1. args[tcpip].whom = None /\ \A i \in Slots : mboxes[tcpip].msg[i] = None
    BY InitFacts, Names, Sems DEF NoArgs
  <2>. QED  BY <2>1, Names DEF InFlight, InMailbox, Slots
<1>5. WaitInv
  <2>1. Lwip = {tcpip} /\ Needs(tcpip) = queued_msg(tcpip)
    BY <1>1, <1>2, NeedsAre DEF Lwip
  <2>2. ~Down(queued_msg(tcpip)) /\ queued_msg(tcpip) \in Sem
    BY <1>2, Sems DEF Down, q
  <2>. QED  BY <2>1, <2>2, InitFacts DEF WaitInv
<1>6. QuietInv
  BY <1>2 DEF QuietInv
<1>7. ClientInv
  <2>1. \A c : For(c) = {}
    BY <1>2 DEF For
  <2>. QED  BY <2>1, <1>2 DEF ClientInv
<1>8. CallInv
  <2>1. \A i \in Slots : mboxes[tcpip].msg[i] = None
    BY InitFacts, Sems
  <2>. QED  BY <2>1, <1>2, <1>3, <1>4 DEF CallInv
<1>9. \A k \in Kind, x \in Thing : ~Token(k, x)
  BY <1>2, <1>3 DEF Token
<1>10. OneToken /\ PacketInv
  BY <1>3, <1>9 DEF OneToken, PacketInv
<1>11. RoundInv
  BY <1>2, <1>3 DEF RoundInv
<1>. QED  BY <1>1, <1>5, <1>6, <1>7, <1>8, <1>10, <1>11 DEF NetInv, TokenInv

LEMMA NetStutter == ASSUME NetInv, UNCHANGED vars PROVE NetInv'
<1>1. UNCHANGED <<tvars, pc, args, write_msg, ns, cl>> /\ Live' = Live
  BY DEF vars, Live
<1>2. BaseInv'
  BY BaseStutter DEF NetInv
<1>3. WaitInv' /\ TokenInv' /\ RoundInv' /\ (Quiet' <=> Quiet)
  BY <1>1, Unseen
<1>4. QuietInv'
  BY <1>1, <1>3 DEF NetInv, QuietInv, tvars
<1>5. ClientInv'
  BY <1>1, SameClients
<1>. QED  BY <1>2, <1>3, <1>4, <1>5 DEF NetInv

LEMMA NetNext == ASSUME NetInv, OwnSlow, [Next]_vars PROVE NetInv'
<1>1. CASE Run
  BY <1>1, FlushStep, get_bufferStep, TimerYieldStep, TimerAnswerStep, UnpagedStep, ThreadFailsStep, SpawnStep, SemWaitStep, ThreadWaitStep,
     TcpipFetchStep, TcpipServeStep, RecvStep, CallStep, CalledStep, DeliverStep, AckStep, ReplyStep, HaltStep DEF Run
<1>2. CASE Tick
  BY <1>2, TickStep
<1>3. CASE \E c \in Client : Request(c) \/ BareRequest(c) \/ Await(c)
  BY <1>3, RequestStep, BareRequestStep, AwaitStep
<1>4. CASE \E s \in Socket : Input(s)
  BY <1>4, InputStep
<1>5. CASE UNCHANGED vars
  BY <1>5, NetStutter
<1>6. CASE Dead
  BY <1>6, NetStutter DEF Dead
<1>. QED  BY <1>1, <1>2, <1>3, <1>4, <1>5, <1>6 DEF Next

-----------------------------------------------------------------------------
(* What the server keeps when no slow socket is used by two clients.       *)

\* One thing at a time makes the server go on, and it ends in time.
THEOREM OneThingAtATime == ASSUME OwnSlow PROVE Spec => []NetInv
<1>1. Init => NetInv
  BY NetInit
<1>2. NetInv /\ [Next]_vars => NetInv'
  BY NetNext
<1>. QED  BY <1>1, <1>2, PTL DEF Spec

\* When the server stops to wait for a message no thread could have gone on:
\* the loop of serve() is over because nothing is left (net/serv.c).
THEOREM NothingIsLeft == ASSUME OwnSlow PROVE Spec => []NoLostWakeup
<1>1. NetInv => NoLostWakeup
  <2>1. NetInv /\ Receiving => Quiet
    BY DEF NetInv, QuietInv, Receiving
  <2>. QED  BY <2>1 DEF NoLostWakeup, Quiet, Lwip
<1>. QED  BY <1>1, OneThingAtATime, PTL

\* Nobody takes the completion of somebody else's call, and no message lives
\* in the frame of a thread that has gone on (tcpip_apimsg, do_writemore).
THEOREM CallersWait == ASSUME OwnSlow PROVE Spec => []CallsOutliveMessages
<1>1. NetInv => CallsOutliveMessages
  <2>. SUFFICES ASSUME NetInv, NEW w \in Worker,
                       InMailbox(tcpip, w) \/ args[tcpip].whom = w \/ (\E s \in Socket : write_msg[s] = w)
                PROVE  pc[w] = "called"
    BY DEF CallsOutliveMessages
  <2>1. CASE InFlight(w)
    BY <2>1 DEF NetInv, TokenInv, CallInv
  <2>2. CASE \E s \in Socket : write_msg[s] = w
    BY <2>2, Names DEF NetInv, TokenInv, CallInv, Calling
  <2>. QED  BY <2>1, <2>2 DEF InFlight
<1>. QED  BY <1>1, OneThingAtATime, PTL
=============================================================================
