------------------------------ MODULE EnvSched ------------------------------
(***************************************************************************)
(* Environments, the scheduler and the big kernel lock of the JOS kernel   *)
(* on several CPUs: kern/env.c, kern/sched.c, kern/trap.c,                 *)
(* kern/spinlock.c, the boot sequence of kern/init.c and the system calls  *)
(* of kern/syscall.c that create, destroy, block or wake an environment.   *)
(*                                                                         *)
(* The kernel runs with interrupts off, so what a CPU does between         *)
(* lock_kernel() and unlock_kernel() is one action.  What happens outside  *)
(* the lock is split out: the entry of trap() up to lock_kernel(), and     *)
(* env_pop_tf(), which runs after unlock_kernel().                         *)
(***************************************************************************)
EXTENDS Integers, Sequences, FiniteSets

CONSTANTS
    CPU,        \* the processors
    BSP,        \* the boot processor, a member of CPU
    NENV,       \* number of slots of envs[]
    MaxGen,     \* last generation of an env_id before the sign bit is reached
    NBoot,      \* number of ENV_CREATE calls in i386_init
    Misuse,     \* the calls outside the library's idioms that programs make
    NoCPU, NoEnv

ASSUME ConstAssumption ==
    /\ BSP \in CPU
    /\ NENV \in Nat \ {0}
    /\ MaxGen \in Nat \ {0}
    /\ NBoot \in 1..NENV
    /\ NoCPU \notin CPU
    /\ NoEnv \notin Nat
    /\ Misuse \subseteq {"set_status", "destroy_zombie", "send_unmapped"}

Slot == 0..(NENV - 1)

Status == {"FREE", "DYING", "RUNNABLE", "RUNNING", "NOT_RUNNABLE"}

\* An envid_t: the generation bits and the slot, ENVX(id).
EnvId == (0..MaxGen) \X Slot

\* envid 0: "the current environment" as an argument, "no parent" as a parent.
ZeroId == <<0, 0>>

\* The timer interrupt, and every other trap: device interrupts, faults, system
\* calls.  Which of these it is, and its arguments, is chosen when it is dispatched:
\* nothing before that depends on it.
TrapNo == {"timer", "other"}

\* What a trap frame tells trap(): the privilege level and the kind of trap.
Frame == [cs : {"user", "kernel"}, no : TrapNo \cup {"none"}]

NoFrame == [cs |-> "kernel", no |-> "none"]

VARIABLES
    kernel_lock,    \* the CPU that holds kernel_lock, or NoCPU
    cpu_status,     \* cpus[c].cpu_status
    pc,             \* where CPU c is
    tf,             \* the frame trap() was entered with
    curenv,         \* cpus[c].cpu_env
    env_status,     \* envs[e].env_status
    env_gen,        \* the generation bits of envs[e].env_id
    env_parent,     \* envs[e].env_parent_id
    ipc_recving,    \* envs[e].env_ipc_recving
    started,        \* not in the code: whether envs[e] was ever made runnable
    env_free_list   \* the list threaded through env_link

cpuvars == <<kernel_lock, cpu_status, pc, tf, curenv>>
idvars == <<env_gen, env_parent, started>>
vars == <<cpuvars, env_status, idvars, ipc_recving, env_free_list>>

Location == {"off", "boot", "lock_mp", "user", "poptf", "halted",
             "lock_halted", "lock_user", "kernel", "monitor"}

Id(e) == <<env_gen[e], e>>

-----------------------------------------------------------------------------
(* Leaving the kernel: env_run, sched_yield, sched_halt, the end of trap(). *)
(* st and cur are env_status and curenv[c] as the handler has left them.    *)

\* Mutant: the environment switched away from stays RUNNING.
EnvRunKeepsOld(c, e, st, cur) ==
    /\ env_status' = [st EXCEPT ![e] = "RUNNING"]
    /\ curenv' = [curenv EXCEPT ![c] = e]
    /\ kernel_lock' = NoCPU
    /\ pc' = [pc EXCEPT ![c] = "poptf"]
    /\ tf' = [tf EXCEPT ![c] = NoFrame]
    /\ UNCHANGED cpu_status

EnvRun(c, e, st, cur) ==
    LET descheduled == IF cur # NoEnv /\ st[cur] = "RUNNING"
                       THEN [st EXCEPT ![cur] = "RUNNABLE"] ELSE st
    IN  /\ env_status' = [descheduled EXCEPT ![e] = "RUNNING"]
        /\ curenv' = [curenv EXCEPT ![c] = e]
        /\ kernel_lock' = NoCPU
        /\ pc' = [pc EXCEPT ![c] = "poptf"]
        /\ tf' = [tf EXCEPT ![c] = NoFrame]
        /\ UNCHANGED cpu_status

\* Mutant: cpu_status is not set to CPU_HALTED.
SchedHaltUnmarked(c, st, cur) ==
    /\ env_status' = st
    /\ tf' = [tf EXCEPT ![c] = NoFrame]
    /\ curenv' = [curenv EXCEPT ![c] = NoEnv]
    /\ kernel_lock' = NoCPU
    /\ pc' = [pc EXCEPT ![c] = "halted"]
    /\ UNCHANGED cpu_status

SchedHalt(c, st, cur) ==
    /\ env_status' = st
    /\ tf' = [tf EXCEPT ![c] = NoFrame]
    /\ \/ /\ \A e \in Slot : st[e] \notin {"RUNNABLE", "RUNNING", "DYING"}
          /\ curenv' = [curenv EXCEPT ![c] = cur]
          /\ pc' = [pc EXCEPT ![c] = "monitor"]
          /\ UNCHANGED <<kernel_lock, cpu_status>>
       \/ /\ \E e \in Slot : st[e] \in {"RUNNABLE", "RUNNING", "DYING"}
          /\ curenv' = [curenv EXCEPT ![c] = NoEnv]
          /\ cpu_status' = [cpu_status EXCEPT ![c] = "HALTED"]
          /\ kernel_lock' = NoCPU
          /\ pc' = [pc EXCEPT ![c] = "halted"]

\* The slot the scan of sched_yield looks at in its i-th iteration.
ScanSlot(cur, i) == ((IF cur = NoEnv THEN 0 ELSE cur + 1) + i) % NENV

\* Mutant: the scan takes any environment that is not blocked.
SchedYieldRunning(c, st, cur) ==
    \/ \E i \in Slot :
          /\ st[ScanSlot(cur, i)] \in {"RUNNABLE", "RUNNING"}
          /\ \A k \in 0..(i - 1) : st[ScanSlot(cur, k)] \notin {"RUNNABLE", "RUNNING"}
          /\ EnvRun(c, ScanSlot(cur, i), st, cur)
    \/ /\ \A e \in Slot : st[e] \notin {"RUNNABLE", "RUNNING"}
       /\ SchedHalt(c, st, cur)

\* Mutant: the current environment is looked at first.
SchedYieldCurFirst(c, st, cur) ==
    IF cur # NoEnv /\ st[cur] = "RUNNING"
    THEN EnvRun(c, cur, st, cur)
    ELSE \/ \E e \in Slot : st[e] = "RUNNABLE" /\ EnvRun(c, e, st, cur)
         \/ (\A e \in Slot : st[e] # "RUNNABLE") /\ SchedHalt(c, st, cur)

SchedYield(c, st, cur) ==
    \/ \E i \in Slot :
          /\ st[ScanSlot(cur, i)] = "RUNNABLE"
          /\ \A k \in 0..(i - 1) : st[ScanSlot(cur, k)] # "RUNNABLE"
          /\ EnvRun(c, ScanSlot(cur, i), st, cur)
    \/ /\ \A e \in Slot : st[e] # "RUNNABLE"
       /\ IF cur # NoEnv /\ st[cur] = "RUNNING"
          THEN EnvRun(c, cur, st, cur)
          ELSE SchedHalt(c, st, cur)

TrapReturn(c, st, cur) ==
    IF cur # NoEnv /\ st[cur] = "RUNNING"
    THEN EnvRun(c, cur, st, cur)
    ELSE SchedYield(c, st, cur)

-----------------------------------------------------------------------------
(* Environment management: envid2env, env_alloc, env_free, env_destroy.     *)

\* The set holding the one slot that envid2env finds for id, or empty: -E_BAD_ENV.
Envid2env(c, id, checkperm) ==
    IF id = ZeroId THEN {curenv[c]}
    ELSE {e \in Slot :
            /\ env_status[e] # "FREE" /\ id = Id(e)
            /\ checkperm => \/ e = curenv[c]
                            \/ env_parent[e] = Id(curenv[c])}

\* Mutant: the generation is not wrapped before the sign bit.
NextGenNoWrap(g) == g + 1

NextGen(g) == IF g = MaxGen THEN 1 ELSE g + 1

\* Mutant: the IPC flag of the slot's previous owner survives.
EnvAllocKeepsRecving(parent_id) ==
    LET e == Head(env_free_list)
    IN  /\ env_free_list # <<>>
        /\ env_gen' = [env_gen EXCEPT ![e] = NextGen(@)]
        /\ env_parent' = [env_parent EXCEPT ![e] = parent_id]
        /\ started' = [started EXCEPT ![e] = (parent_id = ZeroId)]
        /\ env_free_list' = Tail(env_free_list)
        /\ UNCHANGED ipc_recving

\* Takes the slot at the head of the list; the caller sets its status.
EnvAlloc(parent_id) ==
    LET e == Head(env_free_list)
    IN  /\ env_free_list # <<>>
        /\ env_gen' = [env_gen EXCEPT ![e] = NextGen(@)]
        /\ env_parent' = [env_parent EXCEPT ![e] = parent_id]
        /\ started' = [started EXCEPT ![e] = (parent_id = ZeroId)]
        /\ ipc_recving' = [ipc_recving EXCEPT ![e] = FALSE]
        /\ env_free_list' = Tail(env_free_list)

\* Mutant: the slot replaces the list instead of being linked in front of it.
EnvFreeUnlinked(e) == env_free_list' = <<e>>

EnvFree(e) == env_free_list' = <<e>> \o env_free_list

\* Mutant: an environment running on another CPU is freed under it.
EnvDestroyAtOnce(c, e) ==
    /\ EnvFree(e)
    /\ LET st == [env_status EXCEPT ![e] = "FREE"]
       IN  IF curenv[c] = e THEN SchedYield(c, st, NoEnv)
                            ELSE TrapReturn(c, st, curenv[c])

EnvDestroy(c, e) ==
    IF env_status[e] = "RUNNING" /\ curenv[c] # e
    THEN /\ TrapReturn(c, [env_status EXCEPT ![e] = "DYING"], curenv[c])
         /\ UNCHANGED env_free_list
    ELSE /\ EnvFree(e)
         /\ LET st == [env_status EXCEPT ![e] = "FREE"]
            IN  IF curenv[c] = e THEN SchedYield(c, st, NoEnv)
                                 ELSE TrapReturn(c, st, curenv[c])

-----------------------------------------------------------------------------
(* Boot: i386_init, boot_aps, mp_main, env_create.                          *)

\* i386_init after lock_kernel(); env_init has put every slot on the list in order.
Init ==
    /\ kernel_lock = BSP
    /\ cpu_status = [c \in CPU |-> IF c = BSP THEN "STARTED" ELSE "UNUSED"]
    /\ pc = [c \in CPU |-> IF c = BSP THEN "boot" ELSE "off"]
    /\ tf = [c \in CPU |-> NoFrame]
    /\ curenv = [c \in CPU |-> NoEnv]
    /\ env_status = [e \in Slot |-> "FREE"]
    /\ env_gen = [e \in Slot |-> 0]
    /\ env_parent = [e \in Slot |-> ZeroId]
    /\ started = [e \in Slot |-> FALSE]
    /\ ipc_recving = [e \in Slot |-> FALSE]
    /\ env_free_list = [i \in 1..NENV |-> i - 1]

\* boot_aps starts c and spins until mp_main of c has set its cpu_status.
BootAp(c) ==
    /\ pc[BSP] = "boot" /\ pc[c] = "off"
    /\ pc' = [pc EXCEPT ![c] = "lock_mp"]
    /\ cpu_status' = [cpu_status EXCEPT ![c] = "STARTED"]
    /\ UNCHANGED <<kernel_lock, tf, curenv, env_status, idvars, ipc_recving, env_free_list>>

ApsBooted == pc[BSP] = "boot" /\ \A c \in CPU : pc[c] # "off"

Created == Cardinality({e \in Slot : env_status[e] # "FREE"})

EnvCreate ==
    /\ ApsBooted /\ Created < NBoot
    /\ EnvAlloc(ZeroId)
    /\ env_status' = [env_status EXCEPT ![Head(env_free_list)] = "RUNNABLE"]
    /\ UNCHANGED cpuvars

BootDone ==
    /\ ApsBooted /\ Created = NBoot
    /\ SchedYield(BSP, env_status, curenv[BSP])
    /\ UNCHANGED <<idvars, ipc_recving, env_free_list>>

-----------------------------------------------------------------------------
(* Entering and leaving the kernel outside the lock.                        *)

\* A CPU in user mode or halted takes a trap; trap() up to its lock_kernel().
Trap(c, no) ==
    /\ pc[c] \in {"user", "halted"}
    /\ tf' = [tf EXCEPT ![c] = [cs |-> IF pc[c] = "user" THEN "user" ELSE "kernel",
                                no |-> no]]
    /\ cpu_status' = [cpu_status EXCEPT ![c] = "STARTED"]
    /\ pc' = [pc EXCEPT ![c] = IF cpu_status[c] = "HALTED" THEN "lock_halted"
                               ELSE IF pc[c] = "user" THEN "lock_user"
                               ELSE "kernel"]
    /\ UNCHANGED <<kernel_lock, curenv, env_status, idvars, ipc_recving, env_free_list>>

LockKernel(c) ==
    /\ pc[c] \in {"lock_mp", "lock_halted", "lock_user"}
    /\ kernel_lock = NoCPU
    /\ kernel_lock' = c
    /\ pc' = [pc EXCEPT ![c] = IF @ = "lock_halted" /\ tf[c].cs = "user"
                               THEN "lock_user" ELSE "kernel"]
    /\ UNCHANGED <<cpu_status, tf, curenv, env_status, idvars, ipc_recving, env_free_list>>

EnvPopTf(c) ==
    /\ pc[c] = "poptf"
    /\ pc' = [pc EXCEPT ![c] = "user"]
    /\ UNCHANGED <<kernel_lock, cpu_status, tf, curenv, env_status, idvars,
                   ipc_recving, env_free_list>>

-----------------------------------------------------------------------------
(* The body of trap(), with the lock held.                                  *)

\* mp_main, or a timer or keyboard interrupt of a halted CPU.
KernelTrap(c) ==
    /\ pc[c] = "kernel" /\ tf[c].cs = "kernel"
    /\ SchedYield(c, env_status, curenv[c])
    /\ UNCHANGED <<idvars, ipc_recving, env_free_list>>

UserTrap(c) == pc[c] = "kernel" /\ tf[c].cs = "user" /\ curenv[c] # NoEnv

\* Mutant: the zombie is dropped without env_free().
ReapZombieNoFree(c) ==
    /\ UserTrap(c) /\ env_status[curenv[c]] = "DYING"
    /\ SchedYield(c, env_status, NoEnv)
    /\ UNCHANGED <<idvars, ipc_recving, env_free_list>>

ReapZombie(c) ==
    /\ UserTrap(c) /\ env_status[curenv[c]] = "DYING"
    /\ EnvFree(curenv[c])
    /\ SchedYield(c, [env_status EXCEPT ![curenv[c]] = "FREE"], NoEnv)
    /\ UNCHANGED <<idvars, ipc_recving>>

Dispatch(c, no) == UserTrap(c) /\ env_status[curenv[c]] # "DYING" /\ tf[c].no = no

\* A handler that leaves every environment as it was.
Return(c) ==
    /\ TrapReturn(c, env_status, curenv[c])
    /\ UNCHANGED <<idvars, ipc_recving, env_free_list>>

TimerIntr(c) ==
    /\ Dispatch(c, "timer")
    /\ SchedYield(c, env_status, curenv[c])
    /\ UNCHANGED <<idvars, ipc_recving, env_free_list>>

KbdIntr(c) == Dispatch(c, "other") /\ Return(c)

\* An upcall or a spurious interrupt resumes the environment, any other fault kills it.
Fault(c) ==
    /\ Dispatch(c, "other")
    /\ \/ Return(c)
       \/ EnvDestroy(c, curenv[c]) /\ UNCHANGED <<idvars, ipc_recving>>

SysYield(c) ==
    /\ Dispatch(c, "other")
    /\ SchedYield(c, env_status, curenv[c])
    /\ UNCHANGED <<idvars, ipc_recving, env_free_list>>

\* The system calls that touch no environment's scheduling state.
SysOther(c) == Dispatch(c, "other") /\ Return(c)

\* The slot goes to the child, unless there is no slot or no page for its directory.
SysExofork(c) ==
    /\ Dispatch(c, "other")
    /\ \/ /\ EnvAlloc(Id(curenv[c]))
          /\ TrapReturn(c, [env_status EXCEPT ![Head(env_free_list)] = "NOT_RUNNABLE"], curenv[c])
       \/ Return(c)

\* lib/fork.c, lib/spawn.c: a parent makes a child runnable once, before it first runs.
LibSetStatus(c, e, status) ==
    e # curenv[c] /\ status = "RUNNABLE" /\ ~started[e]

SysEnvSetStatus(c, id, status) ==
    /\ Dispatch(c, "other")
    /\ \/ Envid2env(c, id, TRUE) = {} /\ Return(c)
       \/ \E e \in Envid2env(c, id, TRUE) :
             /\ "set_status" \in Misuse \/ LibSetStatus(c, e, status)
             /\ TrapReturn(c, [env_status EXCEPT ![e] = status], curenv[c])
             /\ started' = [started EXCEPT ![e] = TRUE]
             /\ UNCHANGED <<env_gen, env_parent, ipc_recving, env_free_list>>

\* lib/exit.c, lib/spawn.c, user/spin.c: nobody destroys the same environment twice.
LibEnvDestroy(e) == env_status[e] # "DYING"

SysEnvDestroy(c, id) ==
    /\ Dispatch(c, "other")
    /\ \/ Envid2env(c, id, TRUE) = {} /\ Return(c)
       \/ \E e \in Envid2env(c, id, TRUE) :
             /\ "destroy_zombie" \in Misuse \/ LibEnvDestroy(e)
             /\ EnvDestroy(c, e)
             /\ UNCHANGED <<idvars, ipc_recving>>

SysIpcRecv(c) ==
    /\ Dispatch(c, "other")
    /\ ipc_recving' = [ipc_recving EXCEPT ![curenv[c]] = TRUE]
    /\ SchedYield(c, [env_status EXCEPT ![curenv[c]] = "NOT_RUNNABLE"], curenv[c])
    /\ UNCHANGED <<idvars, env_free_list>>

\* No pte was found, and *pte is read through a pointer that nobody has set: the send
\* fails, as below, or the kernel has a page fault and stops with the lock held.
ReadsNoPte(c) ==
    /\ pc' = [pc EXCEPT ![c] = "monitor"]
    /\ UNCHANGED <<kernel_lock, cpu_status, tf, curenv, env_status, idvars, ipc_recving, env_free_list>>

\* Fails if the target is gone, not receiving, or its page cannot be mapped.
SysIpcTrySend(c, id) ==
    /\ Dispatch(c, "other")
    /\ \/ Return(c)
       \/ /\ "send_unmapped" \in Misuse
          /\ \E e \in Envid2env(c, id, FALSE) : ipc_recving[e]
          /\ ReadsNoPte(c)
       \/ \E e \in Envid2env(c, id, FALSE) :
             /\ ipc_recving[e]
             /\ ipc_recving' = [ipc_recving EXCEPT ![e] = FALSE]
             /\ TrapReturn(c, [env_status EXCEPT ![e] = "RUNNABLE"], curenv[c])
             /\ UNCHANGED <<idvars, env_free_list>>

-----------------------------------------------------------------------------

Syscall(c) ==
    \/ SysYield(c)
    \/ SysOther(c)
    \/ SysExofork(c)
    \/ SysIpcRecv(c)
    \/ \E id \in EnvId :
          \/ SysEnvDestroy(c, id)
          \/ SysIpcTrySend(c, id)
          \/ \E status \in {"RUNNABLE", "NOT_RUNNABLE"} : SysEnvSetStatus(c, id, status)

Body(c) ==
    \/ KernelTrap(c)
    \/ ReapZombie(c)
    \/ TimerIntr(c)
    \/ KbdIntr(c)
    \/ Fault(c)
    \/ Syscall(c)

CpuStep(c) ==
    \/ BootAp(c)
    \/ \E no \in TrapNo : Trap(c, no)
    \/ LockKernel(c)
    \/ EnvPopTf(c)
    \/ Body(c)

Next ==
    \/ EnvCreate
    \/ BootDone
    \/ \E c \in CPU : CpuStep(c)

Spec == Init /\ [][Next]_vars

-----------------------------------------------------------------------------
(* Properties.                                                              *)

\* The places where CPU c holds kernel_lock.
InKernel(c) == pc[c] \in {"boot", "kernel", "monitor"}

\* CPU c is in user mode, on its way there, or in a trap from there.
OnEnv(c) ==
    \/ pc[c] \in {"user", "poptf", "lock_user"}
    \/ pc[c] = "kernel" /\ tf[c].cs = "user"

\* Type correctness of the scheduler's and the environments' state.
TypeOK ==
    /\ kernel_lock \in CPU \cup {NoCPU}
    /\ cpu_status \in [CPU -> {"UNUSED", "STARTED", "HALTED"}]
    /\ pc \in [CPU -> Location]
    /\ tf \in [CPU -> Frame]
    /\ curenv \in [CPU -> Slot \cup {NoEnv}]
    /\ env_status \in [Slot -> Status]
    /\ env_gen \in [Slot -> 0..MaxGen]
    /\ env_parent \in [Slot -> EnvId]
    /\ started \in [Slot -> BOOLEAN]
    /\ ipc_recving \in [Slot -> BOOLEAN]
    /\ env_free_list \in Seq(Slot)

\* The big kernel lock is held by exactly the CPU that runs kernel code: the
\* xchg on cpu_status in trap() makes a CPU woken from sched_halt() take the
\* lock, once, and every way out of the kernel releases it.
BigKernelLock == \A c \in CPU : InKernel(c) <=> kernel_lock = c

\* No environment is on two CPUs (sched.c: "Never choose an environment that's
\* currently running on another CPU").
OneCpuPerEnv ==
    \A c, d \in CPU : curenv[c] = curenv[d] /\ curenv[c] # NoEnv => c = d

\* A CPU in user mode, or on its way in or out, has a current environment whose
\* slot and page directory are still its own: never a slot that env_free() has
\* given back, nor one that another CPU could pick.  trap()'s assert(curenv)
\* is the first half.
CurenvIsRunning ==
    \A c \in CPU : OnEnv(c) =>
        curenv[c] # NoEnv /\ env_status[curenv[c]] \in {"RUNNING", "DYING"}

\* An environment marked running, or a zombie, is on some CPU that will trap
\* again: none is left behind in a status from which no CPU would take it up.
RunningIsOnCpu ==
    \A e \in Slot : env_status[e] \in {"RUNNING", "DYING"} =>
        \E c \in CPU : curenv[c] = e /\ pc[c] # "halted"

\* The list env_alloc() takes slots from holds every free slot once, and no other.
FreeListExact ==
    /\ \A e \in Slot : env_status[e] = "FREE" <=> \E i \in DOMAIN env_free_list : env_free_list[i] = e
    /\ \A i, j \in DOMAIN env_free_list : env_free_list[i] = env_free_list[j] => i = j

\* A receiver stays blocked, off every CPU that could be loading or running its
\* registers, until a sender wakes it: sys_ipc_try_send() writes its env_tf and
\* makes it runnable.
ReceiverIsBlocked ==
    \A e \in Slot : env_status[e] # "FREE" /\ ipc_recving[e] =>
        /\ env_status[e] = "NOT_RUNNABLE"
        /\ \A c \in CPU : curenv[c] = e => pc[c] = "monitor"

\* Only the CPU an environment runs on takes it off RUNNING or reaps the zombie;
\* another CPU may at most turn RUNNING into DYING (env_destroy: "A zombie
\* environment will be freed the next time it traps to the kernel").
OnlyOwnCpuDeschedules ==
    [][\A e \in Slot : \A c \in CPU :
          curenv[c] = e /\ env_status[e] \in {"RUNNING", "DYING"} /\ kernel_lock # c =>
             env_status'[e] \in {env_status[e], "DYING"}]_vars

-----------------------------------------------------------------------------
(* Fairness and liveness.                                                   *)

\* A CPU executes its kernel code and returns to user mode; a spinning CPU takes
\* a lock that stays free; the LAPIC keeps a timer interrupt pending while
\* interrupts are off, so a CPU that is again and again in user mode or halted
\* takes one.
CpuFairness(c) ==
    /\ WF_vars(BootAp(c))
    /\ WF_vars(Body(c))
    /\ WF_vars(EnvPopTf(c))
    /\ WF_vars(LockKernel(c))
    /\ SF_vars(Trap(c, "timer"))

FairSpec ==
    /\ Spec
    /\ WF_vars(EnvCreate) /\ WF_vars(BootDone)
    /\ \A c \in CPU : CpuFairness(c)

\* The same, with the contended xchg of spin_lock() going to every CPU in the end.
FairLockSpec == FairSpec /\ \A c \in CPU : SF_vars(LockKernel(c))

EnvFreed == \E e \in Slot : env_status[e] # "FREE" /\ env_status'[e] = "FREE"

\* Round robin: a runnable environment is run, or destroyed, in the end, as long
\* as environments do not keep dying (every death restarts a CPU's scan at slot 0).
RunnableRuns ==
    \A e \in Slot : \/ []<><<EnvFreed>>_vars
                    \/ env_status[e] = "RUNNABLE" ~> env_status[e] # "RUNNABLE"

\* A zombie is freed in the end: its CPU traps and reaps it.
ZombieIsReaped ==
    \A e \in Slot : env_status[e] = "DYING" ~> env_status[e] = "FREE"
=============================================================================
