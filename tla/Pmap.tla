-------------------------------- MODULE Pmap --------------------------------
(***************************************************************************)
(* Physical pages, their reference counts, the page tables of the          *)
(* environments and the TLBs of the processors: kern/pmap.c, env_setup_vm  *)
(* and env_free of kern/env.c, and the system calls of kern/syscall.c that *)
(* change an address space.                                                *)
(*                                                                         *)
(* Every handler runs under the big kernel lock (module EnvSched), so it   *)
(* is one action; what a processor does outside the lock here is to fill   *)
(* its TLB.  The choice of the next environment is any runnable one: the   *)
(* order of the scan is in EnvSched.  Only the part of an address space    *)
(* below UTOP is modelled, the part pp_ref counts.                         *)
(***************************************************************************)
EXTENDS Integers, FiniteSets

CONSTANTS
    CPU,        \* the processors
    Env,        \* the slots of envs[]
    VA,         \* the page-aligned user addresses below UTOP
    PD,         \* the entries of a page directory below UTOP
    PDX,        \* the directory entry that covers an address
    Page,       \* the physical pages page_init put on the free list
    RefMod,     \* pp_ref is a uint16_t: it counts modulo RefMod
    Misuse,     \* the calls outside the library's idioms that programs make
    NoPage, NoEnv, KernDir

ASSUME PmapAssumption ==
    /\ PDX \in [VA -> PD]
    /\ NoPage \notin Page
    /\ KernDir \notin Page
    /\ NoEnv \notin Env
    /\ RefMod \in Nat \ {0, 1}
    /\ Misuse \subseteq {"map_running", "stray_bits"}

\* The words that can hold the address of a page allocated by page_alloc: env_pgdir,
\* the entries of the page directories, the entries of the page tables.
Dir(e) == <<"dir", e, e>>
Tab(e, va) == <<"tab", e, PDX[va]>>
Pte(e, va) == <<"pte", e, va>>

PlacesOf(e) == {Dir(e)} \cup {Tab(e, va) : va \in VA} \cup {Pte(e, va) : va \in VA}
Place == UNION {PlacesOf(e) : e \in Env}
PtePlace == {Pte(e, va) : e \in Env, va \in VA}

\* The permission word of a system call: whether it has PTE_W, and whether it has bits
\* of the page number.  "No other bits may be set" than those of PTE_SYSCALL, but
\* nothing checks it.  Programs do not set them, unless Misuse has "stray_bits".
Access == {"RO", "RW"}
Perm == [access : Access, stray : {s \in BOOLEAN : s => "stray_bits" \in Misuse}]

VARIABLES
    mem,        \* physical memory and page tables, see MemType
    status,     \* what envs[e].env_status and env_ipc_recving say of e
    parent,     \* the live environment env_parent_id names, or NoEnv
    curenv,     \* cpus[c].cpu_env
    cr3,        \* the page directory CPU c walks
    tlb,        \* what CPU c has cached: address, page, whether writable
    booting     \* i386_init is still creating the first environments

envvars == <<status, parent>>
cpuvars == <<curenv, cr3, tlb>>
vars == <<mem, envvars, cpuvars, booting>>

MemType ==
    [at : [Place -> Page \cup {NoPage}],  \* the page each word points to
     wr : SUBSET PtePlace,                \* the entries with PTE_W
     pp_ref : [Page -> 0..(RefMod - 1)],
     free : SUBSET Page,                  \* page_free_list
     badfree : SUBSET Page]               \* pages page_free was wrongly called on

\* "new" is a child of sys_exofork that was not started yet, "recv" one that waits
\* in sys_ipc_recv, "dying" one destroyed while another CPU runs it.
Status == {"free", "new", "ready", "recv", "dying"}

-----------------------------------------------------------------------------
(* kern/pmap.c.  The operators return the memory they leave behind.  Pages *)
(* on the free list differ in nothing the model keeps, so page_alloc takes *)
(* any of them and the list is a set.                                      *)

Incremented(n) == IF n = RefMod - 1 THEN 0 ELSE n + 1
Decremented(n) == IF n = 0 THEN RefMod - 1 ELSE n - 1

PageAlloc(m, p) == [m EXCEPT !.free = @ \ {p}]

PageFree(m, p) ==
    [m EXCEPT !.free = @ \cup {p},
              !.badfree = IF m.pp_ref[p] # 0 \/ p \in m.free THEN @ \cup {p} ELSE @]

PageIncref(m, p) == [m EXCEPT !.pp_ref[p] = Incremented(@)]

PageDecref(m, p) ==
    LET n == [m EXCEPT !.pp_ref[p] = Decremented(@)]
    IN  IF n.pp_ref[p] = 0 THEN PageFree(n, p) ELSE n

\* The pages that can be the page table of va once pgdir_walk(pgdir, va, 1) is
\* done; none if it returns NULL.
PgdirWalk(m, e, va) ==
    IF m.at[Tab(e, va)] # NoPage THEN {m.at[Tab(e, va)]} ELSE m.free

\* Mutant: the page table's page is not counted.
WithTableUncounted(m, e, va, t) ==
    IF m.at[Tab(e, va)] # NoPage
      THEN m
      ELSE [PageAlloc(m, t) EXCEPT !.at[Tab(e, va)] = t]

\* What pgdir_walk leaves behind when the page table is t.
WithTable(m, e, va, t) ==
    IF m.at[Tab(e, va)] # NoPage
      THEN m
      ELSE [PageIncref(PageAlloc(m, t), t) EXCEPT !.at[Tab(e, va)] = t]

PageLookup(m, e, va) == m.at[Pte(e, va)]

PageRemove(m, e, va) ==
    LET p == PageLookup(m, e, va)
    IN  IF p = NoPage
          THEN m
          ELSE [PageDecref(m, p) EXCEPT !.at[Pte(e, va)] = NoPage,
                                        !.wr = @ \ {Pte(e, va)}]

\* Mutant: the old mapping goes before the new one is counted.
PageInsertLate(m, e, va, p, f, access, t) ==
    LET n == PageIncref(PageRemove(WithTable(m, e, va, t), e, va), p)
    IN  [n EXCEPT !.at[Pte(e, va)] = f,
                  !.wr = IF access = "RW" THEN @ \cup {Pte(e, va)} ELSE @ \ {Pte(e, va)}]

\* page_insert of p at va, the page table being t.  The entry names page f.
PageInsert(m, e, va, p, f, access, t) ==
    LET n == PageRemove(PageIncref(WithTable(m, e, va, t), p), e, va)
    IN  [n EXCEPT !.at[Pte(e, va)] = f,
                  !.wr = IF access = "RW" THEN @ \cup {Pte(e, va)} ELSE @ \ {Pte(e, va)}]

\* The pages that pa | perm can name.  Stray bits lead to some other page; which one
\* depends on numbers that the model does not have.
Named(p, perm) == IF perm.stray THEN Page ELSE {p}

\* What page_insert with the permission word perm can leave behind; nothing if it fails.
Inserted(m, e, va, p, perm) ==
    {PageInsert(m, e, va, p, f, perm.access, t) : f \in Named(p, perm), t \in PgdirWalk(m, e, va)}

\* env_setup_vm with p as the page directory.
EnvSetupVm(m, e, p) == [PageIncref(PageAlloc(m, p), p) EXCEPT !.at[Dir(e)] = p]

\* Mutant: page tables are freed, the directory is forgotten.
EnvFreeKeepsDir(m, e) ==
    LET mine(p) == {q \in PlacesOf(e) : q # Dir(e) /\ m.at[q] = p}
        n(p) == Cardinality(mine(p))
    IN  [m EXCEPT
           !.at = [q \in Place |-> IF q \in PlacesOf(e) \ {Dir(e)} THEN NoPage ELSE @[q]],
           !.wr = @ \ PlacesOf(e),
           !.pp_ref = [p \in Page |-> @[p] - n(p)],
           !.free = @ \cup {p \in Page : m.pp_ref[p] \in 1..n(p)}]

\* The loops of env_free: every entry, every page table and the directory of e are
\* cleared and each page is decremented as often as e pointed to it; a page whose
\* count passes through zero on the way is freed.
EnvFree(m, e) ==
    LET mine(p) == {q \in PlacesOf(e) : m.at[q] = p}
        n(p) == Cardinality(mine(p))
        freed == {p \in Page : m.pp_ref[p] \in 1..n(p)}
    IN  [at |-> [q \in Place |-> IF q \in PlacesOf(e) THEN NoPage ELSE m.at[q]],
         wr |-> m.wr \ PlacesOf(e),
         pp_ref |-> [p \in Page |-> IF m.pp_ref[p] >= n(p)
                                      THEN m.pp_ref[p] - n(p)
                                      ELSE m.pp_ref[p] - n(p) + RefMod],
         free |-> m.free \cup freed,
         badfree |-> m.badfree \cup (freed \cap m.free)]

-----------------------------------------------------------------------------
(* Who runs.                                                               *)

\* Mutant: the TLB keeps what it has.
EnvRunNoFlush(c, e) ==
    /\ curenv' = [curenv EXCEPT ![c] = e]
    /\ cr3' = [cr3 EXCEPT ![c] = mem'.at[Dir(e)]]
    /\ UNCHANGED tlb

\* env_run: lcr3() loads the page directory and empties the TLB.  Every way back to
\* user mode is env_run, so the invlpg of tlb_invalidate, which concerns no CPU but
\* the one that executes it, leaves nothing to see.
EnvRun(c, e) ==
    /\ curenv' = [curenv EXCEPT ![c] = e]
    /\ cr3' = [cr3 EXCEPT ![c] = mem'.at[Dir(e)]]
    /\ tlb' = [tlb EXCEPT ![c] = {}]

\* Mutant: the CPU halts on the page directory it had.
SchedHaltKeepsCr3(c) ==
    /\ curenv' = [curenv EXCEPT ![c] = NoEnv]
    /\ tlb' = [tlb EXCEPT ![c] = {}]
    /\ UNCHANGED cr3

SchedHalt(c) ==
    /\ curenv' = [curenv EXCEPT ![c] = NoEnv]
    /\ cr3' = [cr3 EXCEPT ![c] = KernDir]
    /\ tlb' = [tlb EXCEPT ![c] = {}]

OnOtherCpu(c, e) == \E d \in CPU \ {c} : curenv[d] = e

\* sched_yield, with the statuses the handler leaves.
SchedYield(c) ==
    LET runnable == {e \in Env : status'[e] = "ready" /\ ~OnOtherCpu(c, e)}
    IN  \/ \E e \in runnable : EnvRun(c, e)
        \/ runnable = {} /\ SchedHalt(c)

\* A trap from user mode finds curenv running, or destroyed meanwhile.
InKernel(c) == ~booting /\ curenv[c] # NoEnv /\ status[curenv[c]] = "ready"

\* The trap ends in env_run(curenv).
Return(c) == EnvRun(c, curenv[c])

\* The environments envid2env(envid, &e, 1) accepts for the environment on CPU c.
Kin(c) == {e \in Env : status[e] # "free" /\ (e = curenv[c] \/ parent[e] = curenv[c])}

\* fork, spawn and dumbfork change the memory of a child before they start it.
Mappable(c) ==
    {e \in Kin(c) : e = curenv[c] \/ status[e] = "new" \/ "map_running" \in Misuse}

-----------------------------------------------------------------------------
(* The actions.                                                            *)

Init ==
    /\ mem = [at |-> [q \in Place |-> NoPage],
              wr |-> {},
              pp_ref |-> [p \in Page |-> 0],
              free |-> Page,
              badfree |-> {}]
    /\ status = [e \in Env |-> "free"]
    /\ parent = [e \in Env |-> NoEnv]
    /\ curenv = [c \in CPU |-> NoEnv]
    /\ cr3 = [c \in CPU |-> KernDir]
    /\ tlb = [c \in CPU |-> {}]
    /\ booting = TRUE

\* env_create.  If memory runs out the kernel panics.
EnvCreate(e) ==
    /\ booting
    /\ status[e] = "free"
    /\ \E p \in mem.free : mem' = EnvSetupVm(mem, e, p)
    /\ status' = [status EXCEPT ![e] = "ready"]
    /\ UNCHANGED <<parent, cpuvars, booting>>

\* One page of region_alloc, called by load_icode.
RegionAlloc(e, va) ==
    /\ booting
    /\ status[e] = "ready"
    /\ \E p \in mem.free : \E t \in PgdirWalk(PageAlloc(mem, p), e, va) :
          mem' = PageInsert(PageAlloc(mem, p), e, va, p, p, "RW", t)
    /\ UNCHANGED <<envvars, cpuvars, booting>>

BootDone ==
    /\ booting
    /\ \E e \in Env : status[e] = "ready"
    /\ booting' = FALSE
    /\ UNCHANGED <<mem, envvars, cpuvars>>

\* An idle CPU takes the timer interrupt.
Wakeup(c) ==
    /\ ~booting
    /\ curenv[c] = NoEnv
    /\ UNCHANGED <<mem, envvars, booting>>
    /\ SchedYield(c)

\* The timer interrupt or sys_yield.
Yield(c) ==
    /\ InKernel(c)
    /\ UNCHANGED <<mem, envvars, booting>>
    /\ SchedYield(c)

\* User mode touches va: the CPU walks the tables under cr3 and caches the entry.
TlbFill(c, va) ==
    /\ curenv[c] # NoEnv
    /\ \E e \in Env :
          /\ mem.at[Dir(e)] = cr3[c]
          /\ mem.at[Pte(e, va)] # NoPage
          /\ tlb' = [tlb EXCEPT ![c] =
                       @ \cup {<<va, mem.at[Pte(e, va)],
                           IF Pte(e, va) \in mem.wr THEN "RW" ELSE "RO">>}]
    /\ UNCHANGED <<mem, envvars, curenv, cr3, booting>>

\* sys_exofork.  It fails with E_NO_MEM when no page is free for the directory.
SysExofork(c, e) ==
    /\ InKernel(c)
    /\ status[e] = "free"
    /\ \E p \in mem.free : mem' = EnvSetupVm(mem, e, p)
    /\ status' = [status EXCEPT ![e] = "new"]
    /\ parent' = [parent EXCEPT ![e] = curenv[c]]
    /\ UNCHANGED booting
    /\ Return(c)

SysEnvSetStatus(c, e) ==
    /\ InKernel(c)
    /\ e \in Kin(c)
    /\ status[e] = "new"
    /\ status' = [status EXCEPT ![e] = "ready"]
    /\ UNCHANGED <<mem, parent, booting>>
    /\ Return(c)

\* sys_page_alloc.  The page goes back if no page table can be allocated.
SysPageAlloc(c, e, va, perm) ==
    /\ InKernel(c)
    /\ e \in Mappable(c)
    /\ \E p \in mem.free :
          LET m == PageAlloc(mem, p)
          IN  \/ mem' \in Inserted(m, e, va, p, perm)
              \/ PgdirWalk(m, e, va) = {} /\ mem' = PageFree(m, p)
    /\ UNCHANGED <<envvars, booting>>
    /\ Return(c)

\* Mutant: write access is not checked against the source.
MayMapUnchecked(e, va, perm) == PageLookup(mem, e, va) # NoPage

\* The checks of sys_page_map and sys_ipc_try_send on the source.
MayMap(e, va, perm) ==
    /\ PageLookup(mem, e, va) # NoPage
    /\ perm.access = "RW" => Pte(e, va) \in mem.wr

SysPageMap(c, se, sva, de, dva, perm) ==
    /\ InKernel(c)
    /\ {se, de} \subseteq Mappable(c)
    /\ MayMap(se, sva, perm)
    /\ mem' \in Inserted(mem, de, dva, PageLookup(mem, se, sva), perm)
    /\ UNCHANGED <<envvars, booting>>
    /\ Return(c)

SysPageUnmap(c, e, va) ==
    /\ InKernel(c)
    /\ e \in Mappable(c)
    /\ mem' = PageRemove(mem, e, va)
    /\ UNCHANGED <<envvars, booting>>
    /\ Return(c)

\* sys_ipc_recv blocks the caller and schedules another.
SysIpcRecv(c) ==
    /\ InKernel(c)
    /\ status' = [status EXCEPT ![curenv[c]] = "recv"]
    /\ UNCHANGED <<mem, parent, booting>>
    /\ SchedYield(c)

\* sys_ipc_try_send of a value, or of a page that the receiver does not want.
SysIpcTrySendValue(c, e) ==
    /\ InKernel(c)
    /\ status[e] = "recv"
    /\ status' = [status EXCEPT ![e] = "ready"]
    /\ UNCHANGED <<mem, parent, booting>>
    /\ Return(c)

\* sys_ipc_try_send of a page: dva is the receiver's env_ipc_dstva.  If the sender has
\* none at sva, the call fails or the kernel stops (SysIpcTrySend of EnvSched).
SysIpcTrySend(c, e, sva, dva, perm) ==
    /\ InKernel(c)
    /\ status[e] = "recv"
    /\ MayMap(curenv[c], sva, perm)
    /\ mem' \in Inserted(mem, e, dva, PageLookup(mem, curenv[c], sva), perm)
    /\ status' = [status EXCEPT ![e] = "ready"]
    /\ UNCHANGED <<parent, booting>>
    /\ Return(c)

\* The slot is free again; the id of its environment names nobody any more.
Gone(e) ==
    /\ status' = [status EXCEPT ![e] = "free"]
    /\ parent' = [f \in Env |-> IF f = e \/ parent[f] = e THEN NoEnv ELSE parent[f]]

\* Mutant: the environment that destroyed itself is run again.
EnvDestroyReturns(c, e) ==
    /\ InKernel(c)
    /\ e \in Kin(c)
    /\ status[e] # "dying"
    /\ ~OnOtherCpu(c, e)
    /\ mem' = EnvFree(mem, e)
    /\ Gone(e)
    /\ UNCHANGED booting
    /\ Return(c)

\* env_destroy: by exit, by a fault without upcall, or by the parent.
EnvDestroy(c, e) ==
    /\ InKernel(c)
    /\ e \in Kin(c)
    /\ status[e] # "dying"
    /\ UNCHANGED booting
    /\ IF OnOtherCpu(c, e)
         THEN /\ status' = [status EXCEPT ![e] = "dying"]
              /\ UNCHANGED <<mem, parent>>
              /\ Return(c)
         ELSE /\ mem' = EnvFree(mem, e)
              /\ Gone(e)
              /\ IF e = curenv[c] THEN SchedYield(c) ELSE Return(c)

\* trap() frees the environment it came from if that is dying.
ReapZombie(c) ==
    /\ ~booting
    /\ curenv[c] # NoEnv
    /\ status[curenv[c]] = "dying"
    /\ mem' = EnvFree(mem, curenv[c])
    /\ Gone(curenv[c])
    /\ UNCHANGED booting
    /\ SchedYield(c)

Next ==
    \/ BootDone
    \/ \E e \in Env : EnvCreate(e) \/ \E va \in VA : RegionAlloc(e, va)
    \/ \E c \in CPU :
          \/ Wakeup(c) \/ Yield(c) \/ SysIpcRecv(c) \/ ReapZombie(c)
          \/ \E va \in VA : TlbFill(c, va)
          \/ \E e \in Env :
                \/ SysExofork(c, e) \/ SysEnvSetStatus(c, e) \/ EnvDestroy(c, e)
                \/ SysIpcTrySendValue(c, e)
                \/ \E va \in VA : SysPageUnmap(c, e, va)
                \/ \E va \in VA, perm \in Perm : SysPageAlloc(c, e, va, perm)
                \/ \E sva, dva \in VA, perm \in Perm :
                      \/ SysIpcTrySend(c, e, sva, dva, perm)
                      \/ \E de \in Env : SysPageMap(c, e, sva, de, dva, perm)

Spec == Init /\ [][Next]_vars

-----------------------------------------------------------------------------
(* Properties.                                                             *)

\* The words that point to page p.
Refs(at, p) == {q \in Place : at[q] = p}

\* Every word, count, environment and CPU stays in its range.
TypeOK ==
    /\ mem \in MemType
    /\ status \in [Env -> Status]
    /\ parent \in [Env -> Env \cup {NoEnv}]
    /\ curenv \in [CPU -> Env \cup {NoEnv}]
    /\ cr3 \in [CPU -> Page \cup {KernDir}]
    /\ tlb \in [CPU -> SUBSET (VA \X Page \X Access)]
    /\ booting \in BOOLEAN

\* pp_ref is the number of words that point to the page, whatever page_insert,
\* page_remove, pgdir_walk and env_free did to it in any order.
RefExact == \A p \in Page : mem.pp_ref[p] = Cardinality(Refs(mem.at, p))

\* A page is on the free list exactly when nothing points to it: no page in use is
\* handed out again, none is lost, and page_free is never called wrongly.
FreeExact ==
    /\ \A p \in Page : p \in mem.free <=> Refs(mem.at, p) = {}
    /\ mem.badfree = {}

\* A page directory or page table has one owner and is mapped nowhere below UTOP
\* (pgdir_walk, env_setup_vm).
TablesPrivate ==
    \A q \in Place \ PtePlace :
        mem.at[q] # NoPage => Refs(mem.at, mem.at[q]) = {q}

\* An address space is there exactly as long as its environment, and an entry only
\* together with the table and the directory it hangs under, which nobody shares.
TreesWhole ==
    /\ TablesPrivate
    /\ \A e \in Env :
           /\ mem.at[Dir(e)] # NoPage <=> status[e] # "free"
           /\ \A va \in VA :
                 /\ mem.at[Pte(e, va)] # NoPage => mem.at[Tab(e, va)] # NoPage
                 /\ mem.at[Tab(e, va)] # NoPage => mem.at[Dir(e)] # NoPage

\* No CPU walks a page directory other than that of the environment it runs: not
\* that of one that was freed, nor a page given to somebody else since.
Cr3Live ==
    \A c \in CPU :
        cr3[c] = IF curenv[c] = NoEnv THEN KernDir ELSE mem.at[Dir(curenv[c])]

\* What a CPU has cached is what the page table of its environment says: no access
\* to a page that was unmapped, no write through an entry that lost PTE_W.
TlbCoherent ==
    \A c \in CPU : \A t \in tlb[c] :
        /\ curenv[c] # NoEnv
        /\ mem.at[Pte(curenv[c], t[1])] = t[2]
        /\ t[3] = "RW" => Pte(curenv[c], t[1]) \in mem.wr

Writable(m, p) == \E q \in m.wr : m.at[q] = p

\* A page that is mapped read-only everywhere stays so until it is freed: no
\* sequence of maps and sends gives write access back, if the permission words have no
\* stray bits (those that sys_page_map and sys_ipc_try_send should refuse).
ReadOnlyStays ==
    [][\A p \in Page :
          Refs(mem.at, p) # {} /\ ~Writable(mem, p) => ~Writable(mem', p)]_vars

=============================================================================
