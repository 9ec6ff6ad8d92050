--------------------------- MODULE EnvSchedProofs ---------------------------
(***************************************************************************)
(* Proofs about EnvSched for any number of CPUs and environments, when     *)
(* programs keep to the library's idioms (Misuse = {}).                    *)
(*                                                                         *)
(* The inductive invariant is SchedInv.  Every action taken under the lock *)
(* ends in EnvRun or SchedHalt, so its proof has two halves: the handler   *)
(* leaves a status function st and a current environment cur that are      *)
(* consistent with what the OTHER CPUs are doing (Handled), and leaving    *)
(* the kernel from such a pair restores the invariant (EnvRunKeeps,        *)
(* SchedHaltKeeps, SchedYieldKeeps, TrapReturnKeeps).                      *)
(***************************************************************************)
EXTENDS EnvSched, TLAPS

\* What each location of a CPU says about its other per-CPU state.
PlaceInv ==
    \A c \in CPU :
        /\ cpu_status[c] = "HALTED" <=> pc[c] = "halted"
        /\ pc[c] \in {"off", "boot", "lock_mp", "lock_halted"} => tf[c].cs = "kernel"
        /\ pc[c] = "lock_user" => tf[c].cs = "user"
        /\ ~OnEnv(c) /\ pc[c] # "monitor" => curenv[c] = NoEnv
        /\ pc[c] = "monitor" =>
              \A e \in Slot : env_status[e] \notin {"RUNNABLE", "RUNNING", "DYING"}

\* A receiving environment is NOT_RUNNABLE.
RecvStatus ==
    \A e \in Slot : env_status[e] # "FREE" /\ ipc_recving[e] => env_status[e] = "NOT_RUNNABLE"

\* An environment that its parent has not started yet is blocked and not receiving.
StartInv ==
    \A e \in Slot : env_status[e] # "FREE" /\ ~started[e] =>
        env_status[e] = "NOT_RUNNABLE" /\ ~ipc_recving[e]

\* Every environment that is running or a zombie is current somewhere.
OnSomeCpu ==
    \A e \in Slot : env_status[e] \in {"RUNNING", "DYING"} => \E c \in CPU : curenv[c] = e

\* The part of the invariant that leaving the kernel re-establishes.
CpuInv ==
    /\ kernel_lock \in CPU \cup {NoCPU}
    /\ cpu_status \in [CPU -> {"UNUSED", "STARTED", "HALTED"}]
    /\ pc \in [CPU -> Location]
    /\ tf \in [CPU -> Frame]
    /\ curenv \in [CPU -> Slot \cup {NoEnv}]
    /\ env_status \in [Slot -> Status]
    /\ BigKernelLock
    /\ PlaceInv
    /\ CurenvIsRunning
    /\ OnSomeCpu
    /\ OneCpuPerEnv

\* The rest: identities, IPC flags and the free list.
EnvInv ==
    /\ env_gen \in [Slot -> 0..MaxGen]
    /\ env_parent \in [Slot -> EnvId]
    /\ started \in [Slot -> BOOLEAN]
    /\ ipc_recving \in [Slot -> BOOLEAN]
    /\ env_free_list \in Seq(Slot)
    /\ FreeListExact
    /\ RecvStatus
    /\ StartInv

SchedInv == CpuInv /\ EnvInv

\* st and cur, as a handler on CPU c leaves them, agree with the other CPUs.
Handled(c, st, cur) ==
    /\ st \in [Slot -> Status]
    /\ cur \in Slot \cup {NoEnv}
    /\ cur # NoEnv => st[cur] # "DYING"
    /\ \A d \in CPU \ {c} : OnEnv(d) => st[curenv[d]] \in {"RUNNING", "DYING"} /\ curenv[d] # cur
    /\ \A e \in Slot : st[e] \in {"RUNNING", "DYING"} =>
          e = cur \/ \E d \in CPU \ {c} : curenv[d] = e

\* Statuses that leaving the kernel does not touch.
SameRest(st) ==
    \A e \in Slot : /\ env_status'[e] = "FREE" <=> st[e] = "FREE"
                    /\ env_status'[e] = "NOT_RUNNABLE" <=> st[e] = "NOT_RUNNABLE"

-----------------------------------------------------------------------------

LEMMA NoEnvNotSlot == NoEnv \notin Slot
BY ConstAssumption DEF Slot

LEMMA ScanInSlot ==
    ASSUME NEW cur \in Slot \cup {NoEnv}, NEW i \in Slot
    PROVE  ScanSlot(cur, i) \in Slot
BY ConstAssumption DEF ScanSlot, Slot

\* env_run: the environment chosen is the current one or a runnable one.
LEMMA EnvRunKeeps ==
    ASSUME CpuInv, NEW c \in CPU, InKernel(c), NEW st, NEW cur, Handled(c, st, cur),
           NEW e \in Slot, st[e] = "RUNNABLE" \/ (e = cur /\ st[e] = "RUNNING"),
           EnvRun(c, e, st, cur)
    PROVE  CpuInv' /\ SameRest(st)
<1>. USE NoEnvNotSlot
<1>. DEFINE ds == IF cur # NoEnv /\ st[cur] = "RUNNING" THEN [st EXCEPT ![cur] = "RUNNABLE"] ELSE st
<1>1. /\ ds \in [Slot -> Status]
      /\ \A f \in Slot : f # cur => ds[f] = st[f]
      /\ cur # NoEnv => ds[cur] = (IF st[cur] = "RUNNING" THEN "RUNNABLE" ELSE st[cur])
  BY DEF Handled, Status
<1>. HIDE DEF ds
<1>2. /\ env_status' = [ds EXCEPT ![e] = "RUNNING"]
      /\ curenv' = [curenv EXCEPT ![c] = e]
      /\ kernel_lock' = NoCPU
      /\ pc' = [pc EXCEPT ![c] = "poptf"]
      /\ tf' = [tf EXCEPT ![c] = NoFrame]
      /\ cpu_status' = cpu_status
  BY DEF EnvRun, ds
<1>3. /\ env_status' \in [Slot -> Status]
      /\ env_status'[e] = "RUNNING"
      /\ \A f \in Slot : f # e => env_status'[f] = ds[f]
  BY <1>1, <1>2 DEF Status
<1>4. kernel_lock = c
  BY DEF CpuInv, BigKernelLock
<1>5. \A d \in CPU : d # c => /\ pc'[d] = pc[d] /\ tf'[d] = tf[d] /\ curenv'[d] = curenv[d]
                              /\ cpu_status'[d] = cpu_status[d]
                              /\ ~InKernel(d) /\ pc[d] # "monitor"
                              /\ OnEnv(d)' <=> OnEnv(d)
                              /\ curenv[d] # NoEnv => OnEnv(d)
  BY <1>2, <1>4 DEF CpuInv, BigKernelLock, InKernel, PlaceInv, OnEnv
<1>6. /\ pc'[c] = "poptf" /\ tf'[c] = NoFrame /\ curenv'[c] = e /\ cpu_status'[c] = cpu_status[c]
  BY <1>2 DEF CpuInv
<1>7. \A d \in CPU : d # c /\ OnEnv(d) => curenv[d] \in Slot /\ curenv[d] # e /\ curenv[d] # cur
                                          /\ env_status'[curenv[d]] \in {"RUNNING", "DYING"}
  BY <1>1, <1>3 DEF Handled, CpuInv, CurenvIsRunning
<1>8. SameRest(st)
  BY <1>1, <1>3, <1>2 DEF SameRest, Handled
<1>9. /\ kernel_lock' \in CPU \cup {NoCPU}
      /\ cpu_status' \in [CPU -> {"UNUSED", "STARTED", "HALTED"}]
      /\ pc' \in [CPU -> Location]
      /\ tf' \in [CPU -> Frame]
      /\ curenv' \in [CPU -> Slot \cup {NoEnv}]
  BY <1>2 DEF CpuInv, Location, Frame, NoFrame
<1>10. BigKernelLock'
  BY <1>2, <1>5, <1>6, ConstAssumption DEF BigKernelLock, InKernel
<1>11. PlaceInv'
  <2>1. cpu_status[c] # "HALTED" /\ OnEnv(c)'
    BY <1>6 DEF CpuInv, PlaceInv, InKernel, OnEnv
  <2>. QED
    BY <1>5, <1>6, <2>1 DEF CpuInv, PlaceInv
<1>12. CurenvIsRunning'
  BY <1>3, <1>5, <1>6, <1>7 DEF CurenvIsRunning
<1>13. OnSomeCpu'
  BY <1>1, <1>3, <1>5, <1>6 DEF OnSomeCpu, Handled
<1>14. OneCpuPerEnv'
  BY <1>5, <1>6, <1>7 DEF CpuInv, OneCpuPerEnv
<1>. QED
  BY <1>3, <1>8, <1>9, <1>10, <1>11, <1>12, <1>13, <1>14 DEF CpuInv

\* sched_halt: nothing is left running here, whether the CPU halts or enters the monitor.
LEMMA SchedHaltKeeps ==
    ASSUME CpuInv, NEW c \in CPU, InKernel(c), NEW st, NEW cur, Handled(c, st, cur),
           \A e \in Slot : st[e] # "RUNNABLE",
           ~(cur # NoEnv /\ st[cur] = "RUNNING"),
           SchedHalt(c, st, cur)
    PROVE  CpuInv' /\ SameRest(st)
<1>. USE NoEnvNotSlot
<1>1. kernel_lock = c
  BY DEF CpuInv, BigKernelLock
<1>2. /\ env_status' = st
      /\ tf' = [tf EXCEPT ![c] = NoFrame]
      /\ SameRest(st)
  BY DEF SchedHalt, SameRest
<1>3. \A d \in CPU : d # c => /\ ~InKernel(d) /\ pc[d] # "monitor"
                              /\ curenv[d] # NoEnv => OnEnv(d)
  BY <1>1 DEF CpuInv, BigKernelLock, InKernel, PlaceInv
<1>4. \A d \in CPU : d # c /\ OnEnv(d) => curenv[d] \in Slot /\ curenv[d] # cur
                                          /\ st[curenv[d]] \in {"RUNNING", "DYING"}
  BY DEF Handled, CpuInv, CurenvIsRunning
<1>5. \A e \in Slot : st[e] \in {"RUNNING", "DYING"} => e # cur /\ \E d \in CPU : d # c /\ curenv[d] = e
  BY DEF Handled
<1>6. CASE /\ \A e \in Slot : st[e] \notin {"RUNNABLE", "RUNNING", "DYING"}
           /\ curenv' = [curenv EXCEPT ![c] = cur]
           /\ pc' = [pc EXCEPT ![c] = "monitor"]
           /\ UNCHANGED <<kernel_lock, cpu_status>>
  <2>1. \A d \in CPU : d # c => /\ pc'[d] = pc[d] /\ tf'[d] = tf[d] /\ curenv'[d] = curenv[d]
                                /\ curenv[d] = NoEnv /\ ~OnEnv(d) /\ ~OnEnv(d)'
    BY <1>2, <1>3, <1>4, <1>6 DEF CpuInv, OnEnv
  <2>2. pc'[c] = "monitor" /\ tf'[c] = NoFrame /\ curenv'[c] = cur /\ ~OnEnv(c)'
    BY <1>2, <1>6 DEF CpuInv, OnEnv
  <2>3. /\ kernel_lock' \in CPU \cup {NoCPU}
        /\ cpu_status' \in [CPU -> {"UNUSED", "STARTED", "HALTED"}]
        /\ pc' \in [CPU -> Location]
        /\ tf' \in [CPU -> Frame]
        /\ curenv' \in [CPU -> Slot \cup {NoEnv}]
        /\ env_status' \in [Slot -> Status]
    BY <1>2, <1>6 DEF CpuInv, Location, Frame, NoFrame, Handled
  <2>4. BigKernelLock'
    BY <1>1, <1>3, <1>6, <2>1, <2>2 DEF BigKernelLock, InKernel
  <2>5. PlaceInv'
    BY <1>2, <1>3, <1>6, <2>1, <2>2 DEF CpuInv, PlaceInv, InKernel
  <2>6. CurenvIsRunning' /\ OneCpuPerEnv' /\ OnSomeCpu'
    BY <1>2, <1>6, <2>1, <2>2 DEF CurenvIsRunning, OneCpuPerEnv, OnSomeCpu
  <2>. QED
    BY <1>2, <2>3, <2>4, <2>5, <2>6 DEF CpuInv
<1>7. CASE /\ curenv' = [curenv EXCEPT ![c] = NoEnv]
           /\ cpu_status' = [cpu_status EXCEPT ![c] = "HALTED"]
           /\ kernel_lock' = NoCPU
           /\ pc' = [pc EXCEPT ![c] = "halted"]
  <2>1. \A d \in CPU : d # c => /\ pc'[d] = pc[d] /\ tf'[d] = tf[d] /\ curenv'[d] = curenv[d]
                                /\ cpu_status'[d] = cpu_status[d]
                                /\ OnEnv(d)' <=> OnEnv(d)
    BY <1>2, <1>7 DEF OnEnv, CpuInv
  <2>2. /\ pc'[c] = "halted" /\ tf'[c] = NoFrame /\ curenv'[c] = NoEnv /\ ~OnEnv(c)'
        /\ cpu_status'[c] = "HALTED"
    BY <1>2, <1>7 DEF CpuInv, OnEnv
  <2>3. /\ kernel_lock' \in CPU \cup {NoCPU}
        /\ cpu_status' \in [CPU -> {"UNUSED", "STARTED", "HALTED"}]
        /\ pc' \in [CPU -> Location]
        /\ tf' \in [CPU -> Frame]
        /\ curenv' \in [CPU -> Slot \cup {NoEnv}]
        /\ env_status' \in [Slot -> Status]
    BY <1>2, <1>7 DEF CpuInv, Location, Frame, NoFrame, Handled
  <2>4. BigKernelLock'
    BY <1>3, <1>7, <2>1, <2>2, ConstAssumption DEF BigKernelLock, InKernel
  <2>5. PlaceInv'
    BY <1>3, <2>1, <2>2 DEF CpuInv, PlaceInv
  <2>6. CurenvIsRunning' /\ OneCpuPerEnv'
    BY <1>2, <1>4, <2>1, <2>2 DEF CpuInv, CurenvIsRunning, OneCpuPerEnv
  <2>7. OnSomeCpu'
    BY <1>2, <1>5, <2>1 DEF OnSomeCpu
  <2>. QED
    BY <1>2, <2>3, <2>4, <2>5, <2>6, <2>7 DEF CpuInv
<1>. QED
  BY <1>6, <1>7 DEF SchedHalt

LEMMA SchedYieldKeeps ==
    ASSUME CpuInv, NEW c \in CPU, InKernel(c), NEW st, NEW cur, Handled(c, st, cur),
           SchedYield(c, st, cur)
    PROVE  CpuInv' /\ SameRest(st)
<1>1. ASSUME NEW i \in Slot, st[ScanSlot(cur, i)] = "RUNNABLE", EnvRun(c, ScanSlot(cur, i), st, cur)
      PROVE  CpuInv' /\ SameRest(st)
  BY <1>1, ScanInSlot, EnvRunKeeps DEF Handled
<1>2. ASSUME \A e \in Slot : st[e] # "RUNNABLE", cur # NoEnv /\ st[cur] = "RUNNING",
             EnvRun(c, cur, st, cur)
      PROVE  CpuInv' /\ SameRest(st)
  <2>1. cur \in Slot
    BY <1>2 DEF Handled
  <2>. QED
    BY <1>2, <2>1, EnvRunKeeps
<1>3. ASSUME \A e \in Slot : st[e] # "RUNNABLE", ~(cur # NoEnv /\ st[cur] = "RUNNING"),
             SchedHalt(c, st, cur)
      PROVE  CpuInv' /\ SameRest(st)
  BY <1>3, SchedHaltKeeps
<1>. QED
  BY <1>1, <1>2, <1>3 DEF SchedYield

LEMMA TrapReturnKeeps ==
    ASSUME CpuInv, NEW c \in CPU, InKernel(c), NEW st, NEW cur, Handled(c, st, cur),
           TrapReturn(c, st, cur)
    PROVE  CpuInv' /\ SameRest(st)
<1>1. CASE cur # NoEnv /\ st[cur] = "RUNNING"
  <2>1. cur \in Slot /\ EnvRun(c, cur, st, cur)
    BY <1>1 DEF Handled, TrapReturn
  <2>. QED
    BY <1>1, <2>1, EnvRunKeeps
<1>2. CASE ~(cur # NoEnv /\ st[cur] = "RUNNING")
  BY <1>2, SchedYieldKeeps DEF TrapReturn
<1>. QED
  BY <1>1, <1>2

-----------------------------------------------------------------------------
(* What a handler leaves behind.                                            *)

\* The facts about the other CPUs that every handler starts from.
LEMMA Others ==
    ASSUME CpuInv, NEW c \in CPU, pc[c] \in {"boot", "kernel"}
    PROVE  /\ InKernel(c) /\ kernel_lock = c
           /\ curenv[c] \in Slot \cup {NoEnv}
           /\ \A d \in CPU \ {c} : OnEnv(d) =>
                 /\ curenv[d] \in Slot /\ curenv[d] # curenv[c]
                 /\ env_status[curenv[d]] \in {"RUNNING", "DYING"}
           /\ \A e \in Slot : env_status[e] \in {"RUNNING", "DYING"} =>
                 e = curenv[c] \/ \E d \in CPU \ {c} : curenv[d] = e
BY NoEnvNotSlot DEF CpuInv, InKernel, BigKernelLock, CurenvIsRunning, OnSomeCpu, OneCpuPerEnv

\* A handler on behalf of a live current environment.
LEMMA CurrentRuns ==
    ASSUME CpuInv, NEW c \in CPU, NEW no, Dispatch(c, no)
    PROVE  /\ pc[c] = "kernel" /\ curenv[c] \in Slot
           /\ env_status[curenv[c]] = "RUNNING"
BY DEF CpuInv, CurenvIsRunning, Dispatch, UserTrap, OnEnv

LEMMA HandledSame ==
    ASSUME CpuInv, NEW c \in CPU, pc[c] \in {"boot", "kernel"},
           curenv[c] # NoEnv => env_status[curenv[c]] # "DYING"
    PROVE  Handled(c, env_status, curenv[c])
BY Others DEF Handled, CpuInv

\* A handler that changes one environment which is on no CPU, to a status
\* that is not one of a CPU's environment.
LEMMA HandledOther ==
    ASSUME CpuInv, NEW c \in CPU, pc[c] = "kernel", curenv[c] \in Slot,
           env_status[curenv[c]] = "RUNNING",
           NEW e \in Slot, env_status[e] \notin {"RUNNING", "DYING"},
           NEW s \in Status \ {"RUNNING", "DYING"}
    PROVE  Handled(c, [env_status EXCEPT ![e] = s], curenv[c])
<1>. DEFINE st == [env_status EXCEPT ![e] = s]
<1>1. /\ st \in [Slot -> Status] /\ st[e] = s
      /\ \A f \in Slot : f # e => st[f] = env_status[f]
  BY DEF CpuInv
<1>. HIDE DEF st
<1>2. Handled(c, st, curenv[c])
  BY <1>1, Others DEF Handled
<1>. QED
  BY <1>2 DEF st

\* The free list after env_alloc takes its head.
LEMMA FreeListPop ==
    ASSUME FreeListExact, env_free_list \in Seq(Slot), env_free_list # <<>>,
           env_free_list' = Tail(env_free_list),
           \A f \in Slot : env_status'[f] = "FREE" <=>
                              f # Head(env_free_list) /\ env_status[f] = "FREE"
    PROVE  /\ Head(env_free_list) \in Slot
           /\ env_status[Head(env_free_list)] = "FREE"
           /\ env_free_list' \in Seq(Slot)
           /\ FreeListExact'
<1>. DEFINE n == Len(env_free_list)
<1>1. /\ n \in Nat /\ n > 0
      /\ DOMAIN env_free_list = 1..n
      /\ Head(env_free_list) = env_free_list[1]
      /\ Head(env_free_list) \in Slot
      /\ env_free_list' \in Seq(Slot)
      /\ DOMAIN env_free_list' = 1..(n - 1)
      /\ \A i \in 1..(n - 1) : env_free_list'[i] = env_free_list[i + 1]
  OBVIOUS
<1>. HIDE DEF n
<1>2. env_status[Head(env_free_list)] = "FREE"
  BY <1>1 DEF FreeListExact
<1>3. ASSUME NEW f \in Slot, env_status'[f] = "FREE"
      PROVE  \E i \in DOMAIN env_free_list' : env_free_list'[i] = f
  <2>1. PICK i \in 1..n : env_free_list[i] = f
    BY <1>1, <1>3 DEF FreeListExact
  <2>2. i # 1 /\ i - 1 \in 1..(n - 1)
    BY <1>1, <1>3, <2>1
  <2>3. env_free_list'[i - 1] = f
    BY <1>1, <2>1, <2>2
  <2>. QED
    BY <1>1, <2>2, <2>3
<1>4. ASSUME NEW f \in Slot, NEW i \in DOMAIN env_free_list', env_free_list'[i] = f
      PROVE  env_status'[f] = "FREE"
  <2>1. i + 1 \in 1..n /\ env_free_list[i + 1] = f /\ 1 \in 1..n /\ i + 1 # 1
    BY <1>1, <1>4
  <2>2. f # env_free_list[1] /\ env_status[f] = "FREE"
    BY <1>1, <2>1 DEF FreeListExact
  <2>. QED
    BY <1>1, <2>2
<1>5. ASSUME NEW i \in DOMAIN env_free_list', NEW j \in DOMAIN env_free_list',
             env_free_list'[i] = env_free_list'[j]
      PROVE  i = j
  <2>1. i + 1 \in 1..n /\ j + 1 \in 1..n /\ env_free_list[i + 1] = env_free_list[j + 1]
    BY <1>1, <1>5
  <2>2. i + 1 = j + 1
    BY <1>1, <2>1 DEF FreeListExact
  <2>. QED
    BY <1>1, <2>2
<1>. QED
  BY <1>1, <1>2, <1>3, <1>4, <1>5 DEF FreeListExact

\* The free list after env_free pushes a slot that was in use.
LEMMA FreeListPush ==
    ASSUME FreeListExact, env_free_list \in Seq(Slot), NEW e \in Slot, env_status[e] # "FREE",
           EnvFree(e),
           \A f \in Slot : env_status'[f] = "FREE" <=> f = e \/ env_status[f] = "FREE"
    PROVE  env_free_list' \in Seq(Slot) /\ FreeListExact'
<1>. DEFINE n == Len(env_free_list)
<1>1. /\ n \in Nat
      /\ DOMAIN env_free_list = 1..n
      /\ env_free_list' \in Seq(Slot)
      /\ DOMAIN env_free_list' = 1..(n + 1)
      /\ env_free_list'[1] = e
      /\ \A i \in 1..(n + 1) : i # 1 => env_free_list'[i] = env_free_list[i - 1]
  BY DEF EnvFree
<1>. HIDE DEF n
<1>2. ASSUME NEW f \in Slot, env_status'[f] = "FREE"
      PROVE  \E i \in DOMAIN env_free_list' : env_free_list'[i] = f
  <2>1. CASE f = e
    BY <1>1, <2>1
  <2>2. CASE f # e
    <3>1. PICK i \in 1..n : env_free_list[i] = f
      BY <1>1, <1>2, <2>2 DEF FreeListExact
    <3>2. i + 1 \in 1..(n + 1) /\ env_free_list'[i + 1] = f
      BY <1>1, <3>1
    <3>. QED
      BY <1>1, <3>2
  <2>. QED
    BY <2>1, <2>2
<1>3. ASSUME NEW i \in 1..(n + 1), i # 1
      PROVE  /\ i - 1 \in 1..n /\ env_free_list'[i] = env_free_list[i - 1]
             /\ env_free_list'[i] \in Slot
             /\ env_status[env_free_list'[i]] = "FREE"
  <2>1. i - 1 \in 1..n /\ env_free_list'[i] = env_free_list[i - 1] /\ env_free_list[i - 1] \in Slot
    BY <1>1, <1>3
  <2>. QED
    BY <1>1, <2>1 DEF FreeListExact
<1>4. ASSUME NEW f \in Slot, NEW i \in DOMAIN env_free_list', env_free_list'[i] = f
      PROVE  env_status'[f] = "FREE"
  BY <1>1, <1>3, <1>4
<1>5. ASSUME NEW i \in DOMAIN env_free_list', NEW j \in DOMAIN env_free_list',
             env_free_list'[i] = env_free_list'[j]
      PROVE  i = j
  <2>1. CASE i = 1 \/ j = 1
    BY <1>1, <1>3, <1>5, <2>1
  <2>2. CASE i # 1 /\ j # 1
    <3>1. i - 1 \in 1..n /\ j - 1 \in 1..n /\ env_free_list[i - 1] = env_free_list[j - 1]
      BY <1>1, <1>3, <1>5, <2>2
    <3>2. i - 1 = j - 1
      BY <1>1, <3>1 DEF FreeListExact
    <3>. QED
      BY <1>1, <3>2
  <2>. QED
    BY <2>1, <2>2
<1>. QED
  BY <1>1, <1>2, <1>4, <1>5 DEF FreeListExact

\* A step that frees and allocates no environment.
LEMMA EnvInvSame ==
    ASSUME EnvInv, NEW st, SameRest(st),
           \A e \in Slot : st[e] = "FREE" <=> env_status[e] = "FREE",
           \A e \in Slot : env_status[e] # "FREE" /\ ipc_recving'[e] => st[e] = "NOT_RUNNABLE",
           \A e \in Slot : env_status[e] # "FREE" /\ ~started'[e] =>
                              st[e] = "NOT_RUNNABLE" /\ ~ipc_recving'[e],
           ipc_recving' \in [Slot -> BOOLEAN], started' \in [Slot -> BOOLEAN],
           UNCHANGED <<env_gen, env_parent, env_free_list>>
    PROVE  EnvInv'
<1>1. FreeListExact'
  BY DEF EnvInv, FreeListExact, SameRest
<1>2. RecvStatus' /\ StartInv'
  BY DEF EnvInv, RecvStatus, StartInv, SameRest
<1>. QED
  BY <1>1, <1>2 DEF EnvInv

\* A step that frees environment e.
LEMMA EnvInvFree ==
    ASSUME CpuInv, EnvInv, NEW e \in Slot, env_status[e] # "FREE", EnvFree(e),
           SameRest([env_status EXCEPT ![e] = "FREE"]),
           UNCHANGED <<idvars, ipc_recving>>
    PROVE  EnvInv'
<1>1. \A f \in Slot : /\ env_status'[f] = "FREE" <=> f = e \/ env_status[f] = "FREE"
                      /\ env_status'[f] = "NOT_RUNNABLE" <=> f # e /\ env_status[f] = "NOT_RUNNABLE"
  BY DEF SameRest, CpuInv
<1>2. env_free_list' \in Seq(Slot) /\ FreeListExact'
  BY <1>1, FreeListPush DEF EnvInv
<1>3. RecvStatus' /\ StartInv'
  BY <1>1 DEF EnvInv, RecvStatus, StartInv, idvars
<1>. QED
  BY <1>2, <1>3 DEF EnvInv, idvars

\* env_alloc, followed by the caller's choice of a status for the new slot.
LEMMA EnvInvAlloc ==
    ASSUME CpuInv, EnvInv, NEW parent_id \in EnvId, EnvAlloc(parent_id),
           NEW s \in {"RUNNABLE", "NOT_RUNNABLE"},
           parent_id = ZeroId \/ s = "NOT_RUNNABLE",
           SameRest([env_status EXCEPT ![Head(env_free_list)] = s])
    PROVE  /\ Head(env_free_list) \in Slot
           /\ env_status[Head(env_free_list)] = "FREE"
           /\ EnvInv'
<1>. DEFINE e == Head(env_free_list)
<1>1. e \in Slot /\ env_free_list \in Seq(Slot) /\ env_free_list # <<>>
      /\ env_free_list' = Tail(env_free_list)
  BY DEF EnvInv, EnvAlloc
<1>2. \A f \in Slot : /\ env_status'[f] = "FREE" <=> f # e /\ env_status[f] = "FREE"
                      /\ f # e => (env_status'[f] = "NOT_RUNNABLE" <=> env_status[f] = "NOT_RUNNABLE")
  BY <1>1 DEF SameRest, CpuInv
<1>3. /\ env_status[e] = "FREE" /\ env_free_list' \in Seq(Slot) /\ FreeListExact'
  BY <1>1, <1>2, FreeListPop DEF EnvInv
<1>4. /\ env_gen' \in [Slot -> 0..MaxGen]
      /\ env_parent' \in [Slot -> EnvId]
      /\ ipc_recving' \in [Slot -> BOOLEAN]
      /\ \A f \in Slot : ipc_recving'[f] <=> f # e /\ ipc_recving[f]
  BY <1>1, ConstAssumption DEF EnvInv, EnvAlloc, NextGen
<1>8. /\ started' \in [Slot -> BOOLEAN]
      /\ started'[e] = (parent_id = ZeroId)
      /\ \A f \in Slot : f # e => started'[f] = started[f]
  <2>1. started' = [started EXCEPT ![e] = (parent_id = ZeroId)] /\ started \in [Slot -> BOOLEAN]
    BY DEF EnvInv, EnvAlloc
  <2>2. (parent_id = ZeroId) \in BOOLEAN
    OBVIOUS
  <2>. HIDE DEF e
  <2>. QED
    BY <1>1, <2>1, <2>2
<1>5. RecvStatus'
  BY <1>2, <1>4 DEF EnvInv, RecvStatus
<1>6. s = "NOT_RUNNABLE" => env_status'[e] = "NOT_RUNNABLE"
  BY <1>1 DEF SameRest, CpuInv
<1>7. StartInv'
  BY <1>2, <1>4, <1>6, <1>8 DEF EnvInv, StartInv
<1>. QED
  BY <1>1, <1>3, <1>4, <1>5, <1>7, <1>8 DEF EnvInv

-----------------------------------------------------------------------------
(* One lemma per action.                                                    *)

LEMMA ReturnStep ==
    ASSUME SchedInv, NEW c \in CPU, NEW no, Dispatch(c, no), Return(c)
    PROVE  SchedInv'
<1>1. CpuInv' /\ SameRest(env_status)
  BY CurrentRuns, Others, HandledSame, TrapReturnKeeps DEF SchedInv, Return
<1>2. EnvInv'
  BY <1>1, EnvInvSame DEF SchedInv, Return, EnvInv, RecvStatus, StartInv, idvars
<1>. QED
  BY <1>1, <1>2 DEF SchedInv

\* TimerIntr and SysYield.
LEMMA YieldStep ==
    ASSUME SchedInv, NEW c \in CPU, pc[c] \in {"boot", "kernel"},
           curenv[c] # NoEnv => env_status[curenv[c]] # "DYING",
           SchedYield(c, env_status, curenv[c]),
           UNCHANGED <<idvars, ipc_recving, env_free_list>>
    PROVE  SchedInv'
<1>1. CpuInv' /\ SameRest(env_status)
  BY Others, HandledSame, SchedYieldKeeps DEF SchedInv
<1>2. EnvInv'
  BY <1>1, EnvInvSame DEF SchedInv, EnvInv, RecvStatus, StartInv, idvars
<1>. QED
  BY <1>1, <1>2 DEF SchedInv

LEMMA ReapStep ==
    ASSUME SchedInv, NEW c \in CPU, ReapZombie(c)
    PROVE  SchedInv'
<1>. DEFINE e == curenv[c]
            st == [env_status EXCEPT ![e] = "FREE"]
<1>1. /\ e \in Slot /\ env_status[e] = "DYING" /\ pc[c] = "kernel"
      /\ EnvFree(e) /\ SchedYield(c, st, NoEnv) /\ UNCHANGED <<idvars, ipc_recving>>
  BY DEF ReapZombie, UserTrap, SchedInv, CpuInv
<1>2. /\ st \in [Slot -> Status] /\ st[e] = "FREE"
      /\ \A f \in Slot : f # e => st[f] = env_status[f]
  BY <1>1 DEF SchedInv, CpuInv, Status
<1>3. Handled(c, st, NoEnv)
  <2>. HIDE DEF st
  <2>. QED
    BY <1>1, <1>2, Others, NoEnvNotSlot DEF Handled, SchedInv
<1>4. CpuInv' /\ SameRest(st)
  <2>. HIDE DEF st
  <2>. QED
    BY <1>1, <1>3, Others, SchedYieldKeeps DEF SchedInv
<1>5. EnvInv'
  BY <1>1, <1>4, EnvInvFree DEF SchedInv
<1>. QED
  BY <1>4, <1>5 DEF SchedInv

\* env_destroy of an environment that is not yet a zombie.
LEMMA DestroyStep ==
    ASSUME SchedInv, NEW c \in CPU, NEW no, Dispatch(c, no),
           NEW e \in Slot, env_status[e] \notin {"FREE", "DYING"},
           EnvDestroy(c, e), UNCHANGED <<idvars, ipc_recving>>
    PROVE  SchedInv'
<1>0. pc[c] = "kernel" /\ curenv[c] \in Slot /\ env_status[curenv[c]] = "RUNNING"
  BY CurrentRuns DEF SchedInv
<1>1. CASE env_status[e] = "RUNNING" /\ curenv[c] # e
  <2>. DEFINE st == [env_status EXCEPT ![e] = "DYING"]
  <2>1. /\ st \in [Slot -> Status] /\ st[e] = "DYING"
        /\ \A f \in Slot : f # e => st[f] = env_status[f]
    BY DEF SchedInv, CpuInv, Status
  <2>2. TrapReturn(c, st, curenv[c]) /\ UNCHANGED env_free_list
    BY <1>1 DEF EnvDestroy
  <2>. HIDE DEF st
  <2>3. Handled(c, st, curenv[c])
    BY <1>0, <1>1, <2>1, Others DEF Handled, SchedInv
  <2>4. CpuInv' /\ SameRest(st)
    BY <1>0, <2>2, <2>3, Others, TrapReturnKeeps DEF SchedInv
  <2>5. EnvInv'
    BY <1>1, <2>1, <2>2, <2>4, EnvInvSame DEF SchedInv, EnvInv, RecvStatus, StartInv, idvars
  <2>. QED
    BY <2>4, <2>5 DEF SchedInv
<1>2. CASE ~(env_status[e] = "RUNNING" /\ curenv[c] # e)
  <2>. DEFINE st == [env_status EXCEPT ![e] = "FREE"]
  <2>1. /\ st \in [Slot -> Status] /\ st[e] = "FREE"
        /\ \A f \in Slot : f # e => st[f] = env_status[f]
    BY DEF SchedInv, CpuInv, Status
  <2>2. /\ EnvFree(e)
        /\ IF curenv[c] = e THEN SchedYield(c, st, NoEnv) ELSE TrapReturn(c, st, curenv[c])
    BY <1>2 DEF EnvDestroy
  <2>3. CpuInv' /\ SameRest(st)
    <3>. HIDE DEF st
    <3>1. CASE curenv[c] = e
      <4>1. Handled(c, st, NoEnv)
        BY <1>0, <2>1, <3>1, Others, NoEnvNotSlot DEF Handled, SchedInv
      <4>. QED
        BY <1>0, <2>2, <3>1, <4>1, Others, SchedYieldKeeps DEF SchedInv
    <3>2. CASE curenv[c] # e
      <4>1. env_status[e] \notin {"RUNNING", "DYING"}
        BY <1>2, <3>2
      <4>2. Handled(c, st, curenv[c])
        BY <1>0, <2>1, <3>2, <4>1, Others DEF Handled, SchedInv
      <4>. QED
        BY <1>0, <2>2, <3>2, <4>2, Others, TrapReturnKeeps DEF SchedInv
    <3>. QED
      BY <3>1, <3>2
  <2>4. EnvInv'
    BY <2>2, <2>3, EnvInvFree DEF SchedInv
  <2>. QED
    BY <2>3, <2>4 DEF SchedInv
<1>. QED
  BY <1>1, <1>2

LEMMA ExoforkStep ==
    ASSUME SchedInv, NEW c \in CPU, SysExofork(c)
    PROVE  SchedInv'
<1>0. /\ Dispatch(c, "other")
      /\ pc[c] = "kernel" /\ curenv[c] \in Slot /\ env_status[curenv[c]] = "RUNNING"
  BY CurrentRuns DEF SchedInv, SysExofork
<1>1. CASE Return(c)
  BY <1>0, <1>1, ReturnStep
<1>2. CASE /\ EnvAlloc(Id(curenv[c]))
           /\ TrapReturn(c, [env_status EXCEPT ![Head(env_free_list)] = "NOT_RUNNABLE"], curenv[c])
  <2>. DEFINE e == Head(env_free_list)
  <2>1. e \in Slot /\ 1 \in DOMAIN env_free_list /\ env_free_list[1] = e
    BY <1>2 DEF EnvAlloc, SchedInv, EnvInv
  <2>2. env_status[e] = "FREE"
    BY <2>1 DEF SchedInv, EnvInv, FreeListExact
  <2>3. Handled(c, [env_status EXCEPT ![e] = "NOT_RUNNABLE"], curenv[c])
    BY <1>0, <2>1, <2>2, HandledOther DEF SchedInv, Status
  <2>4. CpuInv' /\ SameRest([env_status EXCEPT ![e] = "NOT_RUNNABLE"])
    BY <1>0, <1>2, <2>3, Others, TrapReturnKeeps DEF SchedInv
  <2>5. Id(curenv[c]) \in EnvId
    BY <1>0 DEF Id, EnvId, SchedInv, EnvInv
  <2>6. EnvInv'
    BY <1>2, <2>4, <2>5, EnvInvAlloc DEF SchedInv
  <2>. QED
    BY <2>4, <2>6 DEF SchedInv
<1>. QED
  BY <1>1, <1>2 DEF SysExofork

\* The environment envid2env finds is in use.
LEMMA Envid2envAlive ==
    ASSUME SchedInv, NEW c \in CPU, NEW no, Dispatch(c, no), NEW id, NEW perm,
           NEW e \in Envid2env(c, id, perm)
    PROVE  e \in Slot /\ env_status[e] # "FREE"
BY CurrentRuns DEF SchedInv, Envid2env

LEMMA SetStatusStep ==
    ASSUME Misuse = {}, SchedInv, NEW c \in CPU, NEW id \in EnvId, NEW status, SysEnvSetStatus(c, id, status)
    PROVE  SchedInv'
<1>0. /\ Dispatch(c, "other")
      /\ pc[c] = "kernel" /\ curenv[c] \in Slot /\ env_status[curenv[c]] = "RUNNING"
  BY CurrentRuns DEF SchedInv, SysEnvSetStatus
<1>1. CASE Return(c)
  BY <1>0, <1>1, ReturnStep
<1>2. ASSUME NEW e \in Envid2env(c, id, TRUE), LibSetStatus(c, e, status),
             TrapReturn(c, [env_status EXCEPT ![e] = status], curenv[c]),
             started' = [started EXCEPT ![e] = TRUE],
             UNCHANGED <<env_gen, env_parent, ipc_recving, env_free_list>>
      PROVE  SchedInv'
  <2>0. e \in Slot /\ env_status[e] # "FREE"
    BY <1>0, <1>2, Envid2envAlive
  <2>1. /\ e \in Slot /\ env_status[e] = "NOT_RUNNABLE" /\ status = "RUNNABLE" /\ ~ipc_recving[e]
    BY <1>2, <2>0 DEF LibSetStatus, SchedInv, EnvInv, StartInv
  <2>2. Handled(c, [env_status EXCEPT ![e] = status], curenv[c])
    BY <1>0, <2>1, HandledOther DEF SchedInv, Status
  <2>3. CpuInv' /\ SameRest([env_status EXCEPT ![e] = status])
    BY <1>0, <1>2, <2>2, Others, TrapReturnKeeps DEF SchedInv
  <2>4. /\ \A f \in Slot : [env_status EXCEPT ![e] = status][f] = "FREE" <=> env_status[f] = "FREE"
        /\ \A f \in Slot : env_status[f] # "FREE" /\ ipc_recving'[f] =>
              [env_status EXCEPT ![e] = status][f] = "NOT_RUNNABLE"
        /\ \A f \in Slot : env_status[f] # "FREE" /\ ~started'[f] =>
              [env_status EXCEPT ![e] = status][f] = "NOT_RUNNABLE" /\ ~ipc_recving'[f]
        /\ started' \in [Slot -> BOOLEAN]
    BY <1>2, <2>1 DEF SchedInv, CpuInv, EnvInv, RecvStatus, StartInv
  <2>5. EnvInv'
    BY <1>2, <2>3, <2>4, EnvInvSame DEF SchedInv, EnvInv
  <2>. QED
    BY <2>3, <2>5 DEF SchedInv
<1>. QED
  BY <1>1, <1>2 DEF SysEnvSetStatus

LEMMA SysDestroyStep ==
    ASSUME Misuse = {}, SchedInv, NEW c \in CPU, NEW id \in EnvId, SysEnvDestroy(c, id)
    PROVE  SchedInv'
<1>0. Dispatch(c, "other")
  BY DEF SysEnvDestroy
<1>1. CASE Return(c)
  BY <1>0, <1>1, ReturnStep
<1>2. ASSUME NEW e \in Envid2env(c, id, TRUE), LibEnvDestroy(e), EnvDestroy(c, e),
             UNCHANGED <<idvars, ipc_recving>>
      PROVE  SchedInv'
  <2>1. e \in Slot /\ env_status[e] \notin {"FREE", "DYING"}
    BY <1>0, <1>2, Envid2envAlive DEF LibEnvDestroy
  <2>. QED
    BY <1>0, <1>2, <2>1, DestroyStep
<1>. QED
  BY <1>1, <1>2 DEF SysEnvDestroy

LEMMA RecvStep ==
    ASSUME SchedInv, NEW c \in CPU, SysIpcRecv(c)
    PROVE  SchedInv'
<1>. DEFINE e == curenv[c]
            st == [env_status EXCEPT ![e] = "NOT_RUNNABLE"]
<1>1. /\ pc[c] = "kernel" /\ e \in Slot /\ env_status[e] = "RUNNING"
      /\ SchedYield(c, st, e)
      /\ ipc_recving' = [ipc_recving EXCEPT ![e] = TRUE]
      /\ UNCHANGED <<idvars, env_free_list>>
  BY CurrentRuns DEF SchedInv, SysIpcRecv
<1>2. /\ st \in [Slot -> Status] /\ st[e] = "NOT_RUNNABLE"
      /\ \A f \in Slot : f # e => st[f] = env_status[f]
  BY <1>1 DEF SchedInv, CpuInv, Status
<1>. HIDE DEF st
<1>3. Handled(c, st, e)
  BY <1>1, <1>2, Others DEF Handled, SchedInv
<1>4. CpuInv' /\ SameRest(st)
  BY <1>1, <1>3, Others, SchedYieldKeeps DEF SchedInv
<1>5. EnvInv'
  <2>1. /\ \A f \in Slot : st[f] = "FREE" <=> env_status[f] = "FREE"
        /\ \A f \in Slot : env_status[f] # "FREE" /\ ipc_recving'[f] => st[f] = "NOT_RUNNABLE"
        /\ \A f \in Slot : env_status[f] # "FREE" /\ ~started'[f] =>
              st[f] = "NOT_RUNNABLE" /\ ~ipc_recving'[f]
        /\ ipc_recving' \in [Slot -> BOOLEAN] /\ started' \in [Slot -> BOOLEAN]
    BY <1>1, <1>2 DEF SchedInv, EnvInv, RecvStatus, StartInv, idvars
  <2>. QED
    BY <1>1, <1>4, <2>1, EnvInvSame DEF SchedInv, idvars
<1>. QED
  BY <1>4, <1>5 DEF SchedInv

LEMMA SendStep ==
    ASSUME Misuse = {}, SchedInv, NEW c \in CPU, NEW id \in EnvId, SysIpcTrySend(c, id)
    PROVE  SchedInv'
<1>0. /\ Dispatch(c, "other")
      /\ pc[c] = "kernel" /\ curenv[c] \in Slot /\ env_status[curenv[c]] = "RUNNING"
  BY CurrentRuns DEF SchedInv, SysIpcTrySend
<1>1. CASE Return(c)
  BY <1>0, <1>1, ReturnStep
<1>2. ASSUME NEW e \in Envid2env(c, id, FALSE), ipc_recving[e],
             ipc_recving' = [ipc_recving EXCEPT ![e] = FALSE],
             TrapReturn(c, [env_status EXCEPT ![e] = "RUNNABLE"], curenv[c]),
             UNCHANGED <<idvars, env_free_list>>
      PROVE  SchedInv'
  <2>. DEFINE st == [env_status EXCEPT ![e] = "RUNNABLE"]
  <2>1. e \in Slot /\ env_status[e] = "NOT_RUNNABLE"
    BY ZenonT(60), <1>0, <1>2, Envid2envAlive DEF SchedInv, EnvInv, RecvStatus
  <2>2. Handled(c, st, curenv[c])
    BY <1>0, <2>1, HandledOther DEF SchedInv, Status
  <2>3. CpuInv' /\ SameRest(st)
    BY <1>0, <1>2, <2>2, Others, TrapReturnKeeps DEF SchedInv
  <2>4. /\ \A f \in Slot : st[f] = "FREE" <=> env_status[f] = "FREE"
        /\ \A f \in Slot : env_status[f] # "FREE" /\ ipc_recving'[f] => st[f] = "NOT_RUNNABLE"
        /\ \A f \in Slot : env_status[f] # "FREE" /\ ~started'[f] =>
              st[f] = "NOT_RUNNABLE" /\ ~ipc_recving'[f]
        /\ ipc_recving' \in [Slot -> BOOLEAN] /\ started' \in [Slot -> BOOLEAN]
    BY <1>2, <2>1 DEF SchedInv, CpuInv, EnvInv, RecvStatus, StartInv, idvars
  <2>5. EnvInv'
    BY <1>2, <2>3, <2>4, EnvInvSame DEF SchedInv, idvars
  <2>. QED
    BY <2>3, <2>5 DEF SchedInv
<1>. QED
  BY <1>1, <1>2 DEF SysIpcTrySend

LEMMA KernelTrapStep ==
    ASSUME SchedInv, NEW c \in CPU, KernelTrap(c)
    PROVE  SchedInv'
<1>1. pc[c] = "kernel" /\ curenv[c] = NoEnv
  BY DEF KernelTrap, SchedInv, CpuInv, PlaceInv, OnEnv
<1>. QED
  BY <1>1, YieldStep DEF KernelTrap

LEMMA SyscallStep ==
    ASSUME Misuse = {}, SchedInv, NEW c \in CPU, Syscall(c)
    PROVE  SchedInv'
<1>1. CASE SysYield(c)
  BY <1>1, CurrentRuns, YieldStep DEF SysYield, SchedInv
<1>2. CASE SysOther(c)
  BY <1>2, ReturnStep DEF SysOther
<1>3. CASE SysExofork(c)
  BY <1>3, ExoforkStep
<1>4. CASE SysIpcRecv(c)
  BY <1>4, RecvStep
<1>5. ASSUME NEW id \in EnvId, SysEnvDestroy(c, id) \/ SysIpcTrySend(c, id)
      PROVE  SchedInv'
  BY <1>5, SysDestroyStep, SendStep
<1>6. ASSUME NEW id \in EnvId, NEW status \in {"RUNNABLE", "NOT_RUNNABLE"},
             SysEnvSetStatus(c, id, status)
      PROVE  SchedInv'
  BY <1>6, SetStatusStep
<1>. QED
  BY <1>1, <1>2, <1>3, <1>4, <1>5, <1>6 DEF Syscall

LEMMA BodyStep ==
    ASSUME Misuse = {}, SchedInv, NEW c \in CPU, Body(c)
    PROVE  SchedInv'
<1>1. CASE KernelTrap(c)
  BY <1>1, KernelTrapStep
<1>2. CASE ReapZombie(c)
  BY <1>2, ReapStep
<1>3. CASE TimerIntr(c)
  BY <1>3, CurrentRuns, YieldStep DEF TimerIntr, SchedInv
<1>4. CASE KbdIntr(c)
  BY <1>4, ReturnStep DEF KbdIntr
<1>5. CASE Fault(c)
  <2>1. Dispatch(c, "other")
    BY <1>5 DEF Fault
  <2>2. curenv[c] \in Slot /\ env_status[curenv[c]] \notin {"FREE", "DYING"}
    BY <2>1, CurrentRuns DEF SchedInv
  <2>. QED
    BY <1>5, <2>1, <2>2, ReturnStep, DestroyStep DEF Fault
<1>6. CASE Syscall(c)
  BY <1>6, SyscallStep
<1>. QED
  BY <1>1, <1>2, <1>3, <1>4, <1>5, <1>6 DEF Body

\* A step that moves CPU c without touching any environment.
LEMMA EnvInvFrame ==
    ASSUME EnvInv, UNCHANGED <<env_status, idvars, ipc_recving, env_free_list>>
    PROVE  EnvInv'
BY DEF EnvInv, FreeListExact, RecvStatus, StartInv, idvars

LEMMA BootApStep ==
    ASSUME SchedInv, NEW c \in CPU, BootAp(c)
    PROVE  SchedInv'
<1>1. CpuInv'
  <2>1. /\ pc' = [pc EXCEPT ![c] = "lock_mp"] /\ pc[c] = "off"
        /\ cpu_status' = [cpu_status EXCEPT ![c] = "STARTED"]
        /\ UNCHANGED <<kernel_lock, tf, curenv, env_status>>
    BY DEF BootAp
  <2>. QED
    BY <2>1 DEF SchedInv, CpuInv, BigKernelLock, InKernel, PlaceInv, OnEnv, CurenvIsRunning,
         OnSomeCpu, OneCpuPerEnv, Location
<1>. QED
  BY <1>1, EnvInvFrame DEF SchedInv, BootAp

LEMMA TrapStep ==
    ASSUME SchedInv, NEW c \in CPU, NEW no \in TrapNo, Trap(c, no)
    PROVE  SchedInv'
<1>1. CpuInv'
  <2>. DEFINE cs == IF pc[c] = "user" THEN "user" ELSE "kernel"
  <2>1. /\ pc[c] \in {"user", "halted"}
        /\ pc' = [pc EXCEPT ![c] = IF pc[c] = "user" THEN "lock_user" ELSE "lock_halted"]
        /\ cpu_status' = [cpu_status EXCEPT ![c] = "STARTED"]
        /\ tf' = [tf EXCEPT ![c] = [cs |-> cs, no |-> no]]
        /\ UNCHANGED <<kernel_lock, curenv, env_status>>
    BY DEF Trap, SchedInv, CpuInv, PlaceInv
  <2>2. [cs |-> cs, no |-> no] \in Frame
    BY DEF Frame, TrapNo
  <2>3. /\ tf' \in [CPU -> Frame] /\ tf'[c].cs = cs
        /\ \A d \in CPU : d # c => tf'[d] = tf[d]
    BY <2>1, <2>2 DEF SchedInv, CpuInv
  <2>4. /\ pc' \in [CPU -> Location]
        /\ pc'[c] = IF pc[c] = "user" THEN "lock_user" ELSE "lock_halted"
        /\ \A d \in CPU : d # c => pc'[d] = pc[d]
        /\ cpu_status' \in [CPU -> {"UNUSED", "STARTED", "HALTED"}]
        /\ cpu_status'[c] = "STARTED"
        /\ \A d \in CPU : d # c => cpu_status'[d] = cpu_status[d]
    BY <2>1 DEF SchedInv, CpuInv, Location
  <2>5. \A d \in CPU : /\ OnEnv(d)' <=> OnEnv(d)
                       /\ InKernel(d)' <=> InKernel(d)
                       /\ pc'[d] = "monitor" <=> pc[d] = "monitor"
    BY <2>1, <2>3, <2>4 DEF OnEnv, InKernel
  <2>6. BigKernelLock' /\ CurenvIsRunning' /\ OnSomeCpu' /\ OneCpuPerEnv'
    BY <2>1, <2>5 DEF SchedInv, CpuInv, BigKernelLock, CurenvIsRunning, OnSomeCpu, OneCpuPerEnv
  <2>7. PlaceInv'
    BY <2>1, <2>3, <2>4, <2>5 DEF SchedInv, CpuInv, PlaceInv
  <2>. QED
    BY <2>1, <2>3, <2>4, <2>6, <2>7 DEF SchedInv, CpuInv
<1>. QED
  BY <1>1, EnvInvFrame DEF SchedInv, Trap

LEMMA LockStep ==
    ASSUME SchedInv, NEW c \in CPU, LockKernel(c)
    PROVE  SchedInv'
<1>1. CpuInv'
  <2>1. /\ pc[c] \in {"lock_mp", "lock_halted", "lock_user"}
        /\ kernel_lock = NoCPU /\ kernel_lock' = c
        /\ pc' = [pc EXCEPT ![c] = "kernel"]
        /\ UNCHANGED <<cpu_status, tf, curenv, env_status>>
    BY DEF LockKernel, SchedInv, CpuInv, PlaceInv
  <2>2. /\ pc' \in [CPU -> Location] /\ pc'[c] = "kernel"
        /\ \A d \in CPU : d # c => pc'[d] = pc[d]
    BY <2>1 DEF SchedInv, CpuInv, Location
  <2>3. \A d \in CPU : ~InKernel(d)
    BY <2>1, ConstAssumption DEF SchedInv, CpuInv, BigKernelLock
  <2>4. \A d \in CPU : OnEnv(d)' <=> OnEnv(d)
    BY <2>1, <2>2 DEF OnEnv, SchedInv, CpuInv, PlaceInv
  <2>5. BigKernelLock' /\ CurenvIsRunning' /\ OnSomeCpu' /\ OneCpuPerEnv'
    BY <2>1, <2>2, <2>3, <2>4 DEF SchedInv, CpuInv, BigKernelLock, InKernel, CurenvIsRunning,
         OnSomeCpu, OneCpuPerEnv
  <2>6. PlaceInv'
    BY <2>1, <2>2, <2>3, <2>4 DEF SchedInv, CpuInv, PlaceInv, InKernel
  <2>. QED
    BY <2>1, <2>2, <2>5, <2>6 DEF SchedInv, CpuInv
<1>. QED
  BY <1>1, EnvInvFrame DEF SchedInv, LockKernel

LEMMA PopTfStep ==
    ASSUME SchedInv, NEW c \in CPU, EnvPopTf(c)
    PROVE  SchedInv'
<1>1. CpuInv'
  <2>1. /\ pc[c] = "poptf" /\ pc' = [pc EXCEPT ![c] = "user"]
        /\ UNCHANGED <<kernel_lock, cpu_status, tf, curenv, env_status>>
    BY DEF EnvPopTf
  <2>. QED
    BY <2>1 DEF SchedInv, CpuInv, BigKernelLock, InKernel, PlaceInv, OnEnv, CurenvIsRunning,
         OnSomeCpu, OneCpuPerEnv, Location
<1>. QED
  BY <1>1, EnvInvFrame DEF SchedInv, EnvPopTf

LEMMA EnvCreateStep ==
    ASSUME SchedInv, EnvCreate
    PROVE  SchedInv'
<1>. DEFINE e == Head(env_free_list)
            st == [env_status EXCEPT ![e] = "RUNNABLE"]
<1>1. /\ pc[BSP] = "boot" /\ EnvAlloc(ZeroId) /\ env_status' = st /\ UNCHANGED cpuvars
  BY DEF EnvCreate, ApsBooted
<1>2. SameRest(st)
  BY <1>1 DEF SameRest
<1>3. ZeroId \in EnvId
  BY ConstAssumption DEF ZeroId, EnvId, Slot
<1>4. e \in Slot /\ env_status[e] = "FREE" /\ EnvInv'
  BY <1>1, <1>2, <1>3, EnvInvAlloc DEF SchedInv
<1>5. \A d \in CPU : pc[d] # "monitor"
  BY <1>1, ConstAssumption DEF SchedInv, CpuInv, BigKernelLock, InKernel
<1>6. /\ env_status' \in [Slot -> Status] /\ env_status'[e] = "RUNNABLE"
      /\ \A f \in Slot : f # e => env_status'[f] = env_status[f]
  BY <1>1, <1>4 DEF SchedInv, CpuInv, Status
<1>7. UNCHANGED <<kernel_lock, cpu_status, pc, tf, curenv>>
  BY <1>1 DEF cpuvars
<1>8. CpuInv'
  BY <1>4, <1>5, <1>6, <1>7 DEF SchedInv, CpuInv, BigKernelLock, InKernel, PlaceInv, OnEnv,
       CurenvIsRunning, OnSomeCpu, OneCpuPerEnv
<1>. QED
  BY <1>4, <1>8 DEF SchedInv

LEMMA BootDoneStep ==
    ASSUME SchedInv, BootDone
    PROVE  SchedInv'
<1>1. pc[BSP] = "boot" /\ BSP \in CPU /\ curenv[BSP] = NoEnv
  BY ConstAssumption DEF BootDone, ApsBooted, SchedInv, CpuInv, PlaceInv, OnEnv
<1>. QED
  BY <1>1, YieldStep DEF BootDone

-----------------------------------------------------------------------------

LEMMA InitInv == Init => SchedInv
<1>. SUFFICES ASSUME Init PROVE SchedInv
  OBVIOUS
<1>1. CpuInv
  BY ConstAssumption DEF Init, CpuInv, BigKernelLock, InKernel, PlaceInv, OnEnv, CurenvIsRunning,
     OnSomeCpu, OneCpuPerEnv, Location, Status, Frame, NoFrame
<1>2. env_free_list \in Seq(Slot) /\ DOMAIN env_free_list = 1..NENV
  BY ConstAssumption DEF Init, Slot
<1>3. FreeListExact
  <2>1. \A e \in Slot : e + 1 \in 1..NENV /\ env_free_list[e + 1] = e
    BY ConstAssumption DEF Init, Slot
  <2>2. \A i \in 1..NENV : env_free_list[i] = i - 1
    BY DEF Init
  <2>3. \A e \in Slot : env_status[e] = "FREE"
    BY DEF Init
  <2>4. \A i, j \in 1..NENV : i - 1 = j - 1 => i = j
    OBVIOUS
  <2>. QED
    BY <1>2, <2>1, <2>2, <2>3, <2>4 DEF FreeListExact
<1>4. EnvInv
  BY <1>2, <1>3, ConstAssumption DEF Init, EnvInv, RecvStatus, StartInv, EnvId, ZeroId, Slot
<1>. QED
  BY <1>1, <1>4 DEF SchedInv

LEMMA NextInv ==
    ASSUME Misuse = {}, SchedInv, [Next]_vars
    PROVE  SchedInv'
<1>1. CASE EnvCreate
  BY <1>1, EnvCreateStep
<1>2. CASE BootDone
  BY <1>2, BootDoneStep
<1>3. ASSUME NEW c \in CPU, CpuStep(c)
      PROVE  SchedInv'
  BY <1>3, BootApStep, TrapStep, LockStep, PopTfStep, BodyStep DEF CpuStep
<1>4. CASE UNCHANGED vars
  <2>1. UNCHANGED <<kernel_lock, cpu_status, pc, tf, curenv, env_status, idvars, ipc_recving, env_free_list>>
    BY <1>4 DEF vars, cpuvars
  <2>2. CpuInv'
    BY <2>1 DEF SchedInv, CpuInv, BigKernelLock, InKernel, PlaceInv, OnEnv, CurenvIsRunning,
         OnSomeCpu, OneCpuPerEnv
  <2>. QED
    BY <2>1, <2>2, EnvInvFrame DEF SchedInv
<1>. QED
  BY <1>1, <1>2, <1>3, <1>4 DEF Next

\* The inductive invariant holds in every reachable state of the kernel.
THEOREM SchedInvariant == ASSUME Misuse = {} PROVE Spec => []SchedInv
<1>1. SchedInv /\ [Next]_vars => SchedInv'
  BY NextInv
<1>. QED
  BY <1>1, InitInv, PTL DEF Spec

LEMMA InvConsequences ==
    ASSUME SchedInv
    PROVE  /\ TypeOK /\ BigKernelLock /\ OneCpuPerEnv /\ CurenvIsRunning
           /\ RunningIsOnCpu /\ FreeListExact /\ ReceiverIsBlocked
<1>. USE NoEnvNotSlot
<1>1. TypeOK /\ BigKernelLock /\ OneCpuPerEnv /\ CurenvIsRunning /\ FreeListExact
  BY DEF SchedInv, CpuInv, EnvInv, TypeOK
<1>2. RunningIsOnCpu
  BY DEF SchedInv, CpuInv, OnSomeCpu, PlaceInv, OnEnv, RunningIsOnCpu
<1>3. ReceiverIsBlocked
  BY ZenonT(60) DEF SchedInv, CpuInv, EnvInv, RecvStatus, PlaceInv, CurenvIsRunning, ReceiverIsBlocked
<1>. QED
  BY <1>1, <1>2, <1>3

\* The scheduler's and the environments' state is well typed.
THEOREM TypeCorrect == ASSUME Misuse = {} PROVE Spec => []TypeOK
<1>1. SchedInv => TypeOK
  BY InvConsequences
<1>. QED
  BY <1>1, SchedInvariant, PTL

\* Kernel code runs under the big kernel lock, on any number of CPUs.
THEOREM LockCorrect == ASSUME Misuse = {} PROVE Spec => []BigKernelLock
<1>1. SchedInv => BigKernelLock
  BY InvConsequences
<1>. QED
  BY <1>1, SchedInvariant, PTL

\* sched_yield never picks an environment that is current on another CPU.
THEOREM NeverOnTwoCpus == ASSUME Misuse = {} PROVE Spec => []OneCpuPerEnv
<1>1. SchedInv => OneCpuPerEnv
  BY InvConsequences
<1>. QED
  BY <1>1, SchedInvariant, PTL

\* A CPU in user mode runs an environment whose slot is its own.
THEOREM UserModeHasEnv == ASSUME Misuse = {} PROVE Spec => []CurenvIsRunning
<1>1. SchedInv => CurenvIsRunning
  BY InvConsequences
<1>. QED
  BY <1>1, SchedInvariant, PTL

\* No running environment or zombie is left without a CPU.
THEOREM NoneLeftBehind == ASSUME Misuse = {} PROVE Spec => []RunningIsOnCpu
<1>1. SchedInv => RunningIsOnCpu
  BY InvConsequences
<1>. QED
  BY <1>1, SchedInvariant, PTL

\* env_free_list is exactly the free slots, each once.
THEOREM FreeListCorrect == ASSUME Misuse = {} PROVE Spec => []FreeListExact
<1>1. SchedInv => FreeListExact
  BY InvConsequences
<1>. QED
  BY <1>1, SchedInvariant, PTL

\* sys_ipc_try_send only ever writes the registers of an environment no CPU runs.
THEOREM ReceiverCorrect == ASSUME Misuse = {} PROVE Spec => []ReceiverIsBlocked
<1>1. SchedInv => ReceiverIsBlocked
  BY InvConsequences
<1>. QED
  BY <1>1, SchedInvariant, PTL

-----------------------------------------------------------------------------
(* The action property: who may take an environment off its CPU.            *)

\* Leaving the kernel changes only the current environment and a runnable one.
Untouched(st, cur) ==
    \A e \in Slot : e # cur /\ st[e] # "RUNNABLE" => env_status'[e] = st[e]

LEMMA EnvRunUntouched ==
    ASSUME NEW c, NEW e \in Slot, NEW st \in [Slot -> Status], NEW cur \in Slot \cup {NoEnv},
           e = cur \/ st[e] = "RUNNABLE", EnvRun(c, e, st, cur)
    PROVE  Untouched(st, cur)
BY NoEnvNotSlot DEF EnvRun, Untouched

LEMMA SchedYieldUntouched ==
    ASSUME NEW c, NEW st \in [Slot -> Status], NEW cur \in Slot \cup {NoEnv}, SchedYield(c, st, cur)
    PROVE  Untouched(st, cur)
<1>1. ASSUME NEW i \in Slot, st[ScanSlot(cur, i)] = "RUNNABLE", EnvRun(c, ScanSlot(cur, i), st, cur)
      PROVE  Untouched(st, cur)
  BY <1>1, ScanInSlot, EnvRunUntouched
<1>2. ASSUME cur # NoEnv, EnvRun(c, cur, st, cur)
      PROVE  Untouched(st, cur)
  BY <1>2, EnvRunUntouched
<1>3. ASSUME SchedHalt(c, st, cur)
      PROVE  Untouched(st, cur)
  BY <1>3 DEF SchedHalt, Untouched
<1>. QED
  BY <1>1, <1>2, <1>3 DEF SchedYield

LEMMA TrapReturnUntouched ==
    ASSUME NEW c, NEW st \in [Slot -> Status], NEW cur \in Slot \cup {NoEnv}, TrapReturn(c, st, cur)
    PROVE  Untouched(st, cur)
BY SchedYieldUntouched, EnvRunUntouched DEF TrapReturn

\* The environments of CPUs other than c keep their status, or become zombies.
OthersKept(c) ==
    \A e \in Slot : \A d \in CPU \ {c} :
        curenv[d] = e /\ env_status[e] \in {"RUNNING", "DYING"} =>
            env_status'[e] \in {env_status[e], "DYING"}

\* It is enough that the handler itself keeps them.
LEMMA KeptBySt ==
    ASSUME SchedInv, NEW c \in CPU, pc[c] \in {"boot", "kernel"},
           NEW st \in [Slot -> Status], NEW cur \in {curenv[c], NoEnv},
           \A e \in Slot : e # curenv[c] /\ env_status[e] \in {"RUNNING", "DYING"} =>
                              st[e] \in {env_status[e], "DYING"},
           SchedYield(c, st, cur) \/ TrapReturn(c, st, cur)
    PROVE  OthersKept(c)
<1>1. Untouched(st, cur)
  BY SchedYieldUntouched, TrapReturnUntouched DEF SchedInv, CpuInv
<1>. QED
  BY <1>1, NoEnvNotSlot DEF Untouched, OthersKept, SchedInv, CpuInv, OneCpuPerEnv

LEMMA DestroyKept ==
    ASSUME SchedInv, NEW c \in CPU, NEW no, Dispatch(c, no),
           NEW e \in Slot, env_status[e] # "DYING", EnvDestroy(c, e)
    PROVE  OthersKept(c)
<1>0. pc[c] = "kernel" /\ curenv[c] \in Slot
  BY CurrentRuns DEF SchedInv
<1>1. CASE env_status[e] = "RUNNING" /\ curenv[c] # e
  <2>. DEFINE st == [env_status EXCEPT ![e] = "DYING"]
  <2>1. /\ st \in [Slot -> Status]
        /\ \A f \in Slot : env_status[f] \in {"RUNNING", "DYING"} => st[f] \in {env_status[f], "DYING"}
    BY DEF SchedInv, CpuInv, Status
  <2>2. TrapReturn(c, st, curenv[c])
    BY <1>1 DEF EnvDestroy
  <2>. HIDE DEF st
  <2>. QED
    BY <1>0, <2>1, <2>2, KeptBySt
<1>2. CASE ~(env_status[e] = "RUNNING" /\ curenv[c] # e)
  <2>. DEFINE st == [env_status EXCEPT ![e] = "FREE"]
  <2>1. /\ st \in [Slot -> Status]
        /\ \A f \in Slot : f # curenv[c] /\ env_status[f] \in {"RUNNING", "DYING"} => st[f] = env_status[f]
    BY <1>2 DEF SchedInv, CpuInv, Status
  <2>2. SchedYield(c, st, NoEnv) \/ TrapReturn(c, st, curenv[c])
    BY <1>2 DEF EnvDestroy
  <2>. HIDE DEF st
  <2>. QED
    BY <1>0, <2>1, <2>2, KeptBySt
<1>. QED
  BY <1>1, <1>2

LEMMA SameKept ==
    ASSUME SchedInv, NEW c \in CPU, pc[c] \in {"boot", "kernel"},
           SchedYield(c, env_status, curenv[c]) \/ TrapReturn(c, env_status, curenv[c])
    PROVE  OthersKept(c)
BY KeptBySt DEF SchedInv, CpuInv

\* A handler that changes one environment which is current here or runs nowhere.
LEMMA OneKept ==
    ASSUME SchedInv, NEW c \in CPU, pc[c] = "kernel", NEW e \in Slot, NEW s \in Status,
           e = curenv[c] \/ env_status[e] \notin {"RUNNING", "DYING"},
           NEW cur \in {curenv[c], NoEnv},
           \/ SchedYield(c, [env_status EXCEPT ![e] = s], cur)
           \/ TrapReturn(c, [env_status EXCEPT ![e] = s], cur)
    PROVE  OthersKept(c)
<1>. DEFINE st == [env_status EXCEPT ![e] = s]
<1>1. /\ st \in [Slot -> Status]
      /\ \A f \in Slot : f # curenv[c] /\ env_status[f] \in {"RUNNING", "DYING"} => st[f] = env_status[f]
  BY DEF SchedInv, CpuInv
<1>2. SchedYield(c, st, cur) \/ TrapReturn(c, st, cur)
  OBVIOUS
<1>. HIDE DEF st
<1>. QED
  BY <1>1, <1>2, KeptBySt

LEMMA BodyKept ==
    ASSUME Misuse = {}, SchedInv, NEW c \in CPU, Body(c)
    PROVE  pc[c] = "kernel" /\ OthersKept(c)
<1>0. pc[c] = "kernel"
  BY DEF Body, KernelTrap, ReapZombie, TimerIntr, KbdIntr, Fault, Syscall, SysYield, SysOther,
     SysExofork, SysIpcRecv, SysEnvDestroy, SysIpcTrySend, SysEnvSetStatus, Dispatch, UserTrap
<1>1. CASE KernelTrap(c) \/ TimerIntr(c) \/ KbdIntr(c) \/ SysYield(c) \/ SysOther(c)
  BY <1>0, <1>1, SameKept DEF KernelTrap, TimerIntr, KbdIntr, SysYield, SysOther, Return
<1>2. CASE ReapZombie(c)
  BY <1>0, <1>2, OneKept DEF ReapZombie, UserTrap, SchedInv, CpuInv, Status
<1>3. CASE Fault(c)
  <2>1. Dispatch(c, "other")
    BY <1>3 DEF Fault
  <2>2. curenv[c] \in Slot /\ env_status[curenv[c]] # "DYING"
    BY <2>1, CurrentRuns DEF SchedInv
  <2>. QED
    BY <1>0, <1>3, <2>1, <2>2, SameKept, DestroyKept DEF Fault, Return
<1>4. CASE SysExofork(c)
  <2>1. CASE Return(c)
    BY <1>0, <2>1, SameKept DEF Return
  <2>2. CASE /\ EnvAlloc(Id(curenv[c]))
             /\ TrapReturn(c, [env_status EXCEPT ![Head(env_free_list)] = "NOT_RUNNABLE"], curenv[c])
    <3>. DEFINE e == Head(env_free_list)
    <3>1. e \in Slot /\ 1 \in DOMAIN env_free_list /\ env_free_list[1] = e
      BY <2>2 DEF EnvAlloc, SchedInv, EnvInv
    <3>2. env_status[e] = "FREE"
      BY <3>1 DEF SchedInv, EnvInv, FreeListExact
    <3>. QED
      BY <1>0, <2>2, <3>1, <3>2, OneKept DEF Status
  <2>. QED
    BY <1>4, <2>1, <2>2 DEF SysExofork
<1>5. CASE SysIpcRecv(c)
  BY <1>0, <1>5, OneKept, CurrentRuns DEF SysIpcRecv, SchedInv, Status
<1>6. ASSUME NEW id \in EnvId, SysEnvDestroy(c, id)
      PROVE  OthersKept(c)
  <2>1. Dispatch(c, "other")
    BY <1>6 DEF SysEnvDestroy
  <2>. QED
    BY <1>0, <1>6, <2>1, SameKept, DestroyKept, Envid2envAlive DEF SysEnvDestroy, LibEnvDestroy, Return
<1>7. ASSUME NEW id \in EnvId, SysIpcTrySend(c, id)
      PROVE  OthersKept(c)
  <2>1. Dispatch(c, "other")
    BY <1>7 DEF SysIpcTrySend
  <2>2. CASE Return(c)
    BY <1>0, <2>2, SameKept DEF Return
  <2>3. ASSUME NEW e \in Envid2env(c, id, FALSE), ipc_recving[e],
               TrapReturn(c, [env_status EXCEPT ![e] = "RUNNABLE"], curenv[c])
        PROVE  OthersKept(c)
    <3>1. e \in Slot /\ env_status[e] = "NOT_RUNNABLE"
      BY <2>1, <2>3, Envid2envAlive DEF SchedInv, EnvInv, RecvStatus
    <3>. QED
      BY <1>0, <2>3, <3>1, OneKept DEF Status
  <2>. QED
    BY <1>7, <2>2, <2>3 DEF SysIpcTrySend
<1>8. ASSUME NEW id \in EnvId, NEW status \in {"RUNNABLE", "NOT_RUNNABLE"},
             SysEnvSetStatus(c, id, status)
      PROVE  OthersKept(c)
  <2>1. Dispatch(c, "other")
    BY <1>8 DEF SysEnvSetStatus
  <2>2. CASE Return(c)
    BY <1>0, <2>2, SameKept DEF Return
  <2>3. ASSUME NEW e \in Envid2env(c, id, TRUE), LibSetStatus(c, e, status),
               TrapReturn(c, [env_status EXCEPT ![e] = status], curenv[c])
        PROVE  OthersKept(c)
    <3>1. e \in Slot /\ env_status[e] # "FREE"
      BY <2>1, <2>3, Envid2envAlive
    <3>2. env_status[e] = "NOT_RUNNABLE"
      BY <2>3, <3>1 DEF LibSetStatus, SchedInv, EnvInv, StartInv
    <3>. QED
      BY <1>0, <2>3, <3>1, <3>2, OneKept DEF Status, LibSetStatus
  <2>. QED
    BY <1>8, <2>2, <2>3 DEF SysEnvSetStatus
<1>. QED
  BY <1>0, <1>1, <1>2, <1>3, <1>4, <1>5, <1>6, <1>7, <1>8 DEF Body, Syscall

\* Only its own CPU takes a running environment off RUNNING or reaps a zombie.
THEOREM OwnCpuDeschedules == ASSUME Misuse = {} PROVE Spec => OnlyOwnCpuDeschedules
<1>. DEFINE A == \A e \in Slot : \A c \in CPU :
                    curenv[c] = e /\ env_status[e] \in {"RUNNING", "DYING"} /\ kernel_lock # c =>
                       env_status'[e] \in {env_status[e], "DYING"}
<1>1. ASSUME SchedInv, [Next]_vars
      PROVE  [A]_vars
  <2>1. ASSUME NEW c \in CPU, pc[c] \in {"boot", "kernel"}, OthersKept(c)
        PROVE  A
    BY <1>1, <2>1, Others DEF SchedInv, OthersKept
  <2>2. CASE UNCHANGED env_status
    BY <2>2
  <2>3. CASE EnvCreate
    <3>1. /\ EnvAlloc(ZeroId)
          /\ env_status' = [env_status EXCEPT ![Head(env_free_list)] = "RUNNABLE"]
      BY <2>3 DEF EnvCreate
    <3>2. Head(env_free_list) \in Slot /\ env_status[Head(env_free_list)] = "FREE"
      <4>1. 1 \in DOMAIN env_free_list /\ env_free_list[1] = Head(env_free_list)
            /\ Head(env_free_list) \in Slot
        BY <1>1, <3>1 DEF EnvAlloc, SchedInv, EnvInv
      <4>. QED
        BY <1>1, <4>1 DEF SchedInv, EnvInv, FreeListExact
    <3>. QED
      BY <1>1, <3>1, <3>2 DEF SchedInv, CpuInv
  <2>4. CASE BootDone
    BY <1>1, <2>1, <2>4, SameKept, ConstAssumption DEF BootDone, ApsBooted
  <2>5. ASSUME NEW c \in CPU, CpuStep(c)
        PROVE  A
    <3>1. CASE Body(c)
      BY <1>1, <2>1, <3>1, BodyKept
    <3>2. CASE ~Body(c)
      BY <2>2, <2>5, <3>2 DEF CpuStep, BootAp, Trap, LockKernel, EnvPopTf
    <3>. QED
      BY <3>1, <3>2
  <2>. QED
    BY <1>1, <2>2, <2>3, <2>4, <2>5 DEF Next, vars
<1>2. Spec /\ []SchedInv => [][A]_vars
  BY <1>1, PTL DEF Spec
<1>. QED
  BY <1>2, SchedInvariant, PTL DEF OnlyOwnCpuDeschedules
=============================================================================
