----------------------------- MODULE NetThreads -----------------------------
(***************************************************************************)
(* net/lwip/jos/arch: the threads of the network server, and the           *)
(* semaphores and mailboxes that lwIP waits on.  One thread runs until it  *)
(* yields; a thread that waits stays in the queue and looks at its         *)
(* condition whenever its turn comes.  The operators below are the steps   *)
(* of the thread that runs; NetServer composes them into programs.         *)
(* Waits without a time limit only, and nothing is freed.                  *)
(***************************************************************************)
EXTENDS Integers, Sequences

CONSTANTS Thread, Mbox,
          Event,        \* the semaphores that are not part of a mailbox
          MBOXSLOTS, None

Sem == ({"queued", "free"} \X Mbox) \cup ({"done"} \X Event)

queued_msg(m) == <<"queued", m>>
free_msg(m)   == <<"free", m>>

VARIABLES
    cur_tc,         \* the thread that runs
    thread_queue,   \* the others, in the order they will run
    waits,          \* what each is waiting for: [sem, val], or None
    tc_wakeup,      \* the threads that were woken
    sems,           \* [counter, waiters]
    mboxes          \* [head, nextq, msg]

tvars == <<cur_tc, thread_queue, waits, tc_wakeup, sems, mboxes>>

\* A thread that waits for a message in mailbox m, and all else quiet.
ThreadsInit(first, other, m) ==
    /\ cur_tc = first /\ thread_queue = <<other>> /\ tc_wakeup = {}
    /\ sems = [s \in Sem |-> [counter |-> IF s[1] = "free" THEN MBOXSLOTS ELSE 0,
                              waiters |-> IF s = queued_msg(m) THEN 1 ELSE 0]]
    /\ waits = [t \in Thread |-> IF t = other THEN [sem |-> queued_msg(m), val |-> sems[queued_msg(m)]]
                                             ELSE None]
    /\ mboxes = [n \in Mbox |-> [head |-> -1, nextq |-> 0,
                                 msg |-> [i \in 0..MBOXSLOTS - 1 |-> None]]]

-----------------------------------------------------------------------------
(* Threads. *)

RunNext(q) == cur_tc' = Head(q) /\ thread_queue' = Tail(q)

thread_yield == RunNext(Append(thread_queue, cur_tc))
thread_halt  == RunNext(thread_queue)

\* thread_create() followed by thread_yield().
CreateAndYield(t) == RunNext(thread_queue \o <<t, cur_tc>>)

thread_wakeups_pending == tc_wakeup # {}

-----------------------------------------------------------------------------
(* Semaphores.  The address a thread waits on is the semaphore's counter   *)
(* and its flag together.                                                  *)

\* The threads that sys_sem_signal() wakes.
Woken(s) == IF sems[s].waiters = 0 THEN {}
            ELSE {t \in Thread : waits[t] # None /\ waits[t].sem = s}

Down(s)  == sems[s].counter > 0
Lower(s) == [sems EXCEPT ![s].counter = @ - 1]
Signal(sm, s) == [sm EXCEPT ![s] = [counter |-> @.counter + 1, waiters |-> 0]]

\* sys_arch_sem_wait() of a semaphore that is down: the thread waits.
Block(s) ==
    /\ ~Down(s)
    /\ sems' = [sems EXCEPT ![s].waiters = 1]
    /\ waits' = [waits EXCEPT ![cur_tc] = [sem |-> s, val |-> [sems[s] EXCEPT !.waiters = 1]]]
    /\ tc_wakeup' = tc_wakeup \ {cur_tc}
    /\ thread_yield
    /\ UNCHANGED mboxes

\* thread_wait(), when the thread that waits has its turn.
Over == \E w \in {waits[cur_tc]} : sems[w.sem] # w.val \/ cur_tc \in tc_wakeup

Poll ==
    /\ waits[cur_tc] # None
    /\ IF Over THEN /\ waits' = [waits EXCEPT ![cur_tc] = None]
                    /\ tc_wakeup' = tc_wakeup \ {cur_tc}
                    /\ UNCHANGED <<cur_tc, thread_queue>>
               ELSE thread_yield /\ UNCHANGED <<waits, tc_wakeup>>
    /\ UNCHANGED <<sems, mboxes>>

-----------------------------------------------------------------------------
(* Mailboxes: what follows the wait for the mailbox's semaphore. *)

\* sys_mbox_post(), sys_mbox_trypost(): the latter waits as well.
Post(m, x) ==
    /\ Down(free_msg(m)) /\ mboxes[m].nextq # mboxes[m].head
    /\ sems' = Signal(Lower(free_msg(m)), queued_msg(m))
    /\ tc_wakeup' = tc_wakeup \cup Woken(queued_msg(m))
    /\ mboxes' = [mboxes EXCEPT ![m] =
                    [head  |-> IF @.head = -1 THEN @.nextq ELSE @.head,
                     nextq |-> (@.nextq + 1) % MBOXSLOTS,
                     msg   |-> [@.msg EXCEPT ![mboxes[m].nextq] = x]]]
    /\ UNCHANGED waits

\* Mutant: a message is taken and its slot is not given back.
FetchNoSignal(m, x) ==
    /\ Down(queued_msg(m)) /\ mboxes[m].head # -1 /\ x = mboxes[m].msg[mboxes[m].head]
    /\ sems' = Lower(queued_msg(m))
    /\ mboxes' = [mboxes EXCEPT ![m] =
                    [head  |-> LET h == (@.head + 1) % MBOXSLOTS IN IF h = @.nextq THEN -1 ELSE h,
                     nextq |-> @.nextq,
                     msg   |-> [@.msg EXCEPT ![mboxes[m].head] = None]]]
    /\ UNCHANGED <<waits, tc_wakeup>>

\* sys_arch_mbox_fetch() of the message x.
Fetch(m, x) ==
    /\ Down(queued_msg(m)) /\ mboxes[m].head # -1 /\ x = mboxes[m].msg[mboxes[m].head]
    /\ sems' = Signal(Lower(queued_msg(m)), free_msg(m))
    /\ tc_wakeup' = tc_wakeup \cup Woken(free_msg(m))
    /\ mboxes' = [mboxes EXCEPT ![m] =
                    [head  |-> LET h == (@.head + 1) % MBOXSLOTS IN IF h = @.nextq THEN -1 ELSE h,
                     nextq |-> @.nextq,
                     msg   |-> [@.msg EXCEPT ![mboxes[m].head] = None]]]
    /\ UNCHANGED waits
=============================================================================
