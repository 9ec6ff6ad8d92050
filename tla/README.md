# A TLA+ model of JOS (Lab 6)

## 1. The system

The repository holds six cumulative copies of the MIT JOS teaching operating
system, one per lab. `src/Lab6/Code` is the last and complete one; it is the one
modelled here, and every path below is relative to it.

JOS is an exokernel for x86 multiprocessors. A small kernel (`kern/`) multiplexes
CPUs, physical pages, the console and a network card. Everything else runs in user
environments: a C library (`lib/`) that implements fork, pipes and files by system
calls, a file server (`fs/`), a network server with its input, output and timer
helpers (`net/`), and programs (`user/`).

### 1.1 Inventory

| Component | State | Operations | Interacts with | What is hard | Correct when |
|---|---|---|---|---|---|
| Environments, scheduler, kernel lock (`kern/env.c`, `sched.c`, `trap.c`, `spinlock.c`, `init.c`, part of `syscall.c`) | `envs[]`: status, id, parent, IPC flag; free list; per CPU `cpu_env`, `cpu_status`; `kernel_lock` | boot of the CPUs, trap, yield, halt, fork, destroy, block, wake | every system call; lapic timer | CPUs interleave outside the lock; an environment is destroyed while another CPU runs it; slots and ids are reused | the lock covers the kernel, one CPU per environment, nobody is lost, free list exact, zombies freed, no starvation |
| Physical memory, address spaces (`kern/pmap.c`, `env.c`, part of `syscall.c`) | page directories and tables, `pp_ref`, `page_free_list`, `cr3` and TLB of each CPU | page_alloc/free/insert/remove, pgdir_walk, sys_page_alloc/map/unmap, IPC page, env_free | scheduler (cr3), fork, pipes, file server | allocation fails half-way; directories are freed while CPUs hold them; TLBs of other CPUs | counts and free list exact, tables private, no stale cr3 or translation, write access not regained |
| Copy-on-write fork (`lib/fork.c`, `pgfault.c`, `pfentry.S`) | PTE flags, PFTEMP, handler, position in the loop | fork, duppage, pgfault | page tables, exofork | the parent writes its stack while its address space is copied; faults nest in fork | a child is a copy; nothing is shared for writing unless asked |
| Pipes and descriptors (`lib/pipe.c`, `fd.c`, `pageref.c`) | Fd and data pages in each table, ring, positions | read, write, close, dup, pipeisclosed | fork, spawn, scheduler | no count of ends: two page reference counts are compared while others change them | bounded FIFO; end reported exactly when nobody holds it; nobody waits for ever |
| IPC (`sys_ipc_*`, `lib/ipc.c`) | receiving flag, value, perm, sender | send, try_send, recv | all servers | sender spins; messages from anybody | as part of its users |
| Block cache, disk (`fs/bc.c`, `ide.c`) | mapped blocks, dirty bits, disk | fault, flush | file system | write-back order, crash | a block in memory is the block on disk or newer |
| File system (`fs/fs.c`) | bitmap, inodes, indirect blocks, directories | alloc, walk, create, read, write, truncate, flush | block cache | partial failures, stale blocks, crash between writes | a block has one owner; free blocks are unused |
| File server, client (`fs/serv.c`, `lib/file.c`) | open table, Fd pages, request page | open, read, write, stat, flush, set_size | IPC, page counts | a client dies with open files; ids reused | a request reaches the file it was opened for; the server goes on |
| Network server (`net/serv.c`, `input.c`, `output.c`, `timer.c`) | request buffers, threads, timers | serve, worker threads, timers | lwIP, IPC | requests held by blocked threads; packet page reuse | buffers returned; server never stops |
| Threads, lwIP port (`net/lwip/jos/arch`) | thread queue, semaphores, mailboxes | yield, wait, wakeup, post, fetch, timeouts | lwIP | wakeups and timeouts race; objects reused under a waiter | mailbox is a FIFO; no lost wakeup |
| Network card (`kern/e1000.c`) | descriptor rings | transmit, receive | card (DMA) | rings wrap, card and driver share them | every packet once, in order |
| spawn, malloc, sockets (`lib/`) | | | | partial failures | |
| console, time, lapic, mpconfig, picirq, kdebug, monitor, boot loader, string utilities, `fsformat` | | | | device registers, conversions | not modelled |
| vendored lwIP, earlier labs | | | | third party, older copies | not modelled |

The kernel runs with interrupts off and under one lock, so everything a CPU does
between `lock_kernel()` and `unlock_kernel()` is atomic for the others. The
concurrency that is left is at six places, and the models are cut along them: the
kernel's steps outside the lock (`EnvSched`), what the hardware of another CPU keeps
of a page table (`Pmap`), sequences of system calls and memory accesses in user
code that other environments can see in between (`Fork`, `Pipe`), a server and its
clients, who share pages and talk by IPC (`FileServer`), the threads of the network
server, which take turns in one environment (`NetThreads`, `NetServer`), and the
network card, which works on its rings beside the driver (`E1000`). The file system
below the file server (`FileSys`) is sequential; there the machine may stop between any
two writes to the disk.

The hazards this gives rise to, each with its line and the properties that watch it,
are in `PROJECT.json`.

## 2. Plan

| Order | Module | Question | State |
|---|---|---|---|
| 1 | `EnvSched` | who runs where, life and death of environments | done, invariants proved |
| 2 | `Pmap` | counts, free list, lifetimes, TLBs | done, invariants proved |
| 3 | `Pipe` implements `PipeSpec` | pipes from page counts | done, invariants and refinement proved |
| 4 | `Fork` implements `ForkSpec` | copy-on-write | done, invariants and refinement proved |
| 5 | `FileSys` implements `FileSysSpec` | block ownership, directories, crash between two disk writes | done, invariants proved |
| 6 | `FileServer` implements `FileServerSpec` | open table, file ids, shared Fd pages, dead clients | done, invariant and refinement proved |
| 7 | `NetThreads`, `NetServer` | threads, semaphores, mailboxes, request buffers | done, invariants proved |
| 8 | `E1000` | the two descriptor rings against a card | done, order of frames proved |
| 9 | proofs | `NoLeak` and the refinement of `FileSys` | left |

The abstract specifications are a bounded queue (`PipeSpec`), a copied memory
(`ForkSpec`), a set of files on a disk that survives crashes (`FileSysSpec`) and open files
(`FileServerSpec`).

How the modules compose: `Pmap` takes "one handler is atomic" and "an environment runs
on one CPU" from `EnvSched` (`LockCorrect`, `NeverOnTwoCpus`); `Pipe`, `Fork` and
`FileServer` take "a reference count is the number of mappings" and "a page is free when
nothing maps it" from `Pmap` (`RefCorrect`, `FreeCorrect`); `Pipe`, `FileServer` and
`NetServer` take their fairness from `RunnableRuns` of `EnvSched`. `FileServer` has only the
sizes of files; what is in them is `FileSys`, each of whose steps is one handler of the server.
`NetServer` is built on `NetThreads`, which it extends. Otherwise they are separate modules:
their product would tell no more and could not be checked.

## 3. The modules

### 3.1 `EnvSched`: environments, scheduler, big kernel lock

State: `kernel_lock`, and for each CPU `cpu_status`, `curenv`, `pc` (where it is) and
`tf` (the frame it trapped with); for each slot of `envs[]` its status, the generation
of its id, the parent's id, `env_ipc_recving`; the free list in its order. `started` is
a history variable that states what programs do.

| Action | Code |
|---|---|
| `BootAp`, `EnvCreate`, `BootDone` | `i386_init` from `boot_aps` on |
| `Trap` | `trap()` up to `lock_kernel()`, with the `xchg` on `cpu_status` |
| `LockKernel` | `spin_lock` getting the lock; from `hlt` with a user frame it is taken twice |
| `KernelTrap`, `ReapZombie`, `TimerIntr`, `KbdIntr`, `Fault`, `Sys*` | the rest of `trap()` with the lock held, each ending in `env_run`, `sched_yield` or `sched_halt` |
| `EnvPopTf` | `env_pop_tf()`, after the lock was released |

`Envid2env`, `EnvAlloc`, `EnvFree`, `EnvDestroy`, `SchedYield`, `EnvRun`, `SchedHalt`
and `TrapReturn` are the functions of these names. They take the statuses the handler
has set so far, as the C code has by then; that is how a handler with several
effects stays one action. Return values are left out where no state depends on them.

`Misuse` names calls that the system calls permit but no program or library function in
the repository makes: `"set_status"`, `sys_env_set_status` on an environment that was
started before, `"destroy_zombie"`, destroying one twice, and `"send_unmapped"`, sending a page
that is not mapped: `sys_ipc_try_send` then reads `*pte` through an unset pointer (`ReadsNoPte`), so that
the call fails or the kernel stops.

### 3.2 `Pmap`: physical memory, page tables, TLBs

`mem.at` maps every word that can hold the address of an allocated page (the directory of
an environment, an entry of the directory, an entry of a table) to that page; `mem.wr` has
the entries with `PTE_W`; `pp_ref`, `free` and `badfree` (pages `page_free` was wrongly
called on) are the allocator. For each CPU there are `curenv`, `cr3` and `tlb`. The part
above UTOP is the same everywhere and never counted; it is left out.

The operators `PageAlloc`, `PageFree`, `PageDecref`, `PgdirWalk`/`WithTable`,
`PageLookup`, `PageRemove`, `PageInsert`, `EnvSetupVm` and `EnvFree` map a memory to the
memory that the function leaves. The handlers are built from them in the order of the
code, with the failure of each allocation. `TlbFill` is the MMU: it caches an entry of
the tables under `cr3` whenever user mode touches an address. `EnvRun` empties the TLB, as
`lcr3` does. `invlpg` is not visible: every handler that executes it leaves by `env_run`.

`RefMod` is the range of the counter (65536 in the code). `Misuse = {"map_running"}` lets
a parent edit the address space of a child that runs already. A permission word (`Perm`) is the access it
gives and, only with `Misuse = {"stray_bits"}`, bits outside `PTE_SYSCALL`: the system calls do not
refuse them, and `page_insert` joins them to the page number, so that the entry names any page (`Named`).
No caller in the repository sets them; `lib/` masks with `PTE_SYSCALL`.

### 3.3 `Pipe` and `PipeSpec`

`PipeSpec` is a bounded queue with two ends: bytes come out once and in order, an end that
nobody holds stays gone, and callers are told of it only then. `Pipe` is `lib/pipe.c` at
the grain of one system call or one access to shared memory: the Fd page and the data page
of a descriptor are mapped and unmapped separately (`Close`/`CloseData`,
`Dup`/`DupData`/`DupFd`, `Duppage`), a byte is copied and the position advanced separately
(`TakeByte` or `StoreByte`, then `Advance`), and `_pipeisclosed` reads the two reference
counts separately (`CheckFd`, then `SaysClosed`, `SaysOpen` or `CheckAgain`).
`Run` is the kernel putting an environment on a CPU, which counts `env_runs`. `Kill` is
the end of an environment at any point. The refinement maps the ring between the
positions to the queue and the numbers of Fd mappings of started environments to the holders (`Held`).

What a pipe says about its ends is true under two conditions, and false without either:

- One CPU (`CPUS ?= 1`, `GNUmakefile:152`). On several CPUs another environment can map and unmap pages between
  the two reads of `_pipeisclosed`, and `env_runs`, which counts only the caller's own runs, does not show it.
- Nobody is in `read`, `write` or `pipeisclosed` on an end while a fork is copying that end (`InUse`, `Copying`). The other
  end may be in use, and everybody may close, dup and die. `user/testpipe.c` forks before anybody uses the pipe; in
  `user/primespipe.c:28` and `user/sh.c:92` the forking environment holds one end of an older pipe whose other end is
  in use, which is within the condition. An environment that is killed inside `fork` leaves a child that never runs and
  copies for ever, and later calls on its ends are outside.

`Misuse = {"fork_shared"}` lifts the second condition. That the bytes are a bounded queue (`BytesAreQueue`) depends on neither.

### 3.4 `Fork` and `ForkSpec`

`ForkSpec` says that a child gets a copy of the parent's memory and that writes are
private except in pages asked to be shared. `Fork` is `lib/fork.c`: each system call of
`fork`, `duppage` and `pgfault` is an action (`ForkBegin`, `Exofork`, `Look`, `DupChild`,
`DupSelf`, `ChildHandler`, `Start`; `FaultAlloc`, `FaultCopy`, `FaultMap`, `FaultUnmap`),
between any two of which the environment writes its stack and others run. A write to a
page without `PTE_W` is `Fault`: it starts `pgfault()` or destroys the environment. The
refinement maps page tables and contents to what each running environment finds at each
address. A page that `page_alloc` cleared has the content `Cleared`, which no program
writes, so that a missed copy shows.

### 3.5 `FileSys` and `FileSysSpec`

`FileSysSpec` is what the file server needs: named sequences of blocks, of which a request
changes one, and a `saved` version of each that takes its place when the machine stops.
`FileSys` is `fs/fs.c` and `fs/bc.c`. `mem` and `disk` map each word of the disk to what the block
cache and the disk hold there, so that a block is whatever those who point to it take it
for: bitmap, directory, indirect block or data. The operators `AllocBlock`, `FileBlockWalk`,
`FileGetBlock`, `DirScan`/`DirLookup`/`DirAllocFile`, `WalkPath`, `FileFlush`, `FileCreate`,
`TruncateBlocks`, `FileSetSize`, `FileRead`, `FileWrite`, `FsSync` and `ServeOpen` map the
state of a request to that after the function of this name, with its error; `Then` is "return on
error". They collect in `seen` what the disk held after each `flush_block`. `Serve` answers the
request, or lets the machine stop after any of these writes and boot from the disk. `Open`, `SetSize`,
`Read`, `Write`, `FlushFile`, `Sync` and `Reboot` are the requests; they may also be about "/", which `serve_open`
hands out like a file (`user/ls.c` reads it). The refinement maps the names in
the root directory to contents, once in `mem` and once in `disk`.

`Misuse` has three things that the code does not survive. `"dirty_meta"` lets a block that is not
clear become an indirect or a directory block (finding 3); `"partial_truncate"` lets a file lose
blocks and keep its indirect block: the pointers in that block reach the disk later than the bitmap,
and a crash in between leaves pointers to free blocks. `"write_root"` lets a client write to "/", truncate it or change its
size: no handler looks at the type of the file, the directory's blocks are freed or filled with data, and every file is lost or
changed. No program of the repository does the last two (`user/writemotd.c` and `O_TRUNC` cut a file to nothing); the first happens in ordinary use.

### 3.6 `FileServer` and `FileServerSpec`

`FileServerSpec` says what open files are: a descriptor stands for a file and a seek position, which
`dup` and `fork` share; a call takes effect at one moment between its start and its return.
`FileServer` is `fs/serv.c` and `lib/file.c` at the grain of a system call or an access to an Fd
page.

| Action | Code |
|---|---|
| `Open`, `OnFile`, `AskSeek` | a call of `lib/file.c` or `lib/fd.c` up to its first system call |
| `Send`, `Await` | `sys_ipc_try_send` of the request, `sys_ipc_recv` of the answer |
| `Close`, `Seek`, `Dup`, `Fork` | what clients do to Fd pages and their mappings |
| `Kill` | the end of a client between any two of its steps |
| `Busy`, `Full`, `ServeOpen` | `openfile_alloc`, one slot at a time, and the rest of `serve_open` |
| `Handle` | `openfile_lookup` and `serve_read`, `serve_write`, `serve_set_size`, `serve_flush` up to the access to the file |
| `Advance` | `fd_offset += r` |
| `Reply`, `Again` | `ipc_send` of the answer with the Fd page, the next `ipc_recv` |

A slot is free when `pageref` finds the server's mapping alone (`Shared`). The state has the
table (`opentab`), the Fd pages (`page`), who maps them (`fds`), where each client (`cl`) and the
server (`srv`) are. `Misuse = {"seek_race"}` lets a client write the position of a shared Fd page between
`Handle` and `Advance` of another client's request: the seek is lost, `IsOpenFiles` fails.
`"kill_waiting"` lets a client be destroyed while the server works for it: `ipc_send` to it panics the
server.

### 3.7 `NetThreads` and `NetServer`

`NetThreads` has the operators of `net/lwip/jos/arch`: the queue of threads that take turns,
`thread_wait` on an address (`Block`, `Poll`), semaphores whose counter and flag are that address, and
mailboxes of two semaphores and a ring (`Post`, `Fetch`). `NetServer` composes them into the programs of
`net/serv.c`: the main thread (`Flush`, `get_buffer`, the receive in which `Request`, `Input` and `Tick`
arrive, `TimerYield`/`TimerAnswer`, `Spawn`), one worker per request (`Recv`, `Call`, `Called`,
`Deliver`, `Ack`, `Reply`, `Halt`) and lwIP's own thread (`TcpipFetch`, `TcpipServe`). A request without its
page (`BareRequest`) is dropped (`Unpaged`), and so is one for which there is no memory (`ThreadFails`): their
buffers are lost, and `kept` records which. lwIP itself is abstracted to what the threads see: it completes a call by signalling the socket, or leaves a write
on a slow socket to be finished by an acknowledgement.

### 3.8 `E1000`

`kern/e1000.c` and the card. `e1000_transmit` and `e1000_receive` fill or empty a descriptor; the write
to the tail register that ends each call is a step of its own (`TransmitTail`, `ReceiveTail`), for the card
runs beside the driver. `CardSend` and `CardReceive` are the card, as the driver takes it to be:
it works from head to tail and sets DD. `accepted`, `onwire`, `arrived` and `delivered` record the frames.

## 4. The runs

| Run | Instance | States | Shows |
|---|---|---|---|
| `sched` | 2 CPUs, 3 slots, 1 generation | 144,335 | the eight safety properties of `EnvSched`, `RunnableRuns`, `ZombieIsReaped` |
| `pmap_core` | 2 CPUs, 3 environments, 2 addresses, 5 pages | 10,971 | the seven safety properties of `Pmap` |
| `pipe` | 2 environments, 1 CPU, 2 descriptors, ring of 2, 3 bytes | 287,841 | `Pipe` implements `PipeSpec`; `DataOutlivesFds`; `LoopReturns` |
| `pipe_fork` | 3 environments, 1 CPU, `fork_shared` | | finding 1 |
| `pipe_drain` | 2 environments | | finding 2 |
| `fork` | 2 environments, 4 addresses of each kind, 6 pages, 2 values | 64,751 | `Fork` implements `ForkSpec`; `NoWriteSharing`; `FaultsAreHandled` |
| `fs` | 6 blocks, one direct pointer, two File structures to a block, 2 names | 26,413 | `FileSys` implements `FileSysSpec`; `BlockOwned`, `FlushIsDurable`, `NoLeak` |
| `fs_indirect` | the same with `dirty_meta` | | finding 3 |
| `fileserver` | 2 clients with 2 descriptors, 2 slots, 2 ids to a slot, 1 file | 560,640 | `FileServer` implements `FileServerSpec`; `LiveFdsAreValid`; `AcceptedIsAnswered` |
| `net` | 2 clients, 2 sockets, 4 buffers, mailboxes of 2, 1 lost buffer | 706,525 | `BuffersAreOwned`, `NoLostWakeup`, `CallsOutliveMessages`, `SendsAreAnswered` |
| `e1000` | 3 and 4 descriptors, 7 frames out, 4 in | 665 | `FramesInOrder`, `FramesAreSent` |
| `e1000_turn` | the same, 5 frames in | | finding 4 |

Bounds. `sched`: three slots on two CPUs make one environment wait while two run, the least in
which a scan can be unfair, and let parent and child reuse each other's slots in both orders. With
`MaxGen = 1` ids repeat at once, the case that a larger bound reaches later; the safety properties are
proved for all values.
`pmap_core`: an environment needs a directory, a table and a page; five pages run out at
each of the allocations of a handler while two address spaces exist, and `RefMod = 16` has
room for all words, as the theorems assume. Both addresses lie under one table, so that a table is
found and created. `pipe`: a ring of two fills and empties, the third byte reuses a place;
`Request = 3` exceeds the ring, so a write waits half-way; with two slots a dup over an open
descriptor closes it. A fork of a pipe that others use needs a third environment and a hundred times the states: the run has
two, `pipe_fork` has three, and the theorems are about any number. `fork`: the four addresses are one of each case of `duppage`, and the stack; six
pages are two more than the first program needs, so allocation in `pgfault` both succeeds
and fails. `VA` is walked in order, so that the stack comes last, as in the code.
`fs`: three of the six blocks are the boot block, the super block and the bitmap; the other three hold
a directory, a file's data and its indirect block, so that each request also runs out of space at each
of its allocations. A file of two blocks uses `f_indirect`. Both names fit in one block of
the directory, which therefore grows only once in the run (the theorems have directories of any length). The datum 5 is also the number of a block.
`fileserver`: one client runs from the start and may fork the other; with two slots and `MaxDescs = 2` a
slot is freed, reused under its next id and reused again under its first; a file of one block has a position
at its end and one before it. Two clients ask at once, so that one waits while the other is served.
`net`: one socket is used by both clients and the other has a slow peer; four buffers are fewer than
the three packets, the timer, both clients and the lost one need at worst, so the panic of `get_buffer` is reached, and so
are the panics of `Unpaged` and `ThreadFails`; mailboxes of two fill. With eight buffers, which are enough for all of
these, the results are the same.
`e1000`: with seven calls each a transmit ring of three turns twice and a receive ring of four almost twice; the card may
lag by the whole ring, so that the driver also fills it.

`pmap_core` and `net` run with deadlock checked. The other runs allow the system to stop: the kernel
monitor, all environments dead, the bounds on bytes and frames reached, a full disk.

### Fairness

- `EnvSched`: weak fairness of the boot, of the handler on each CPU and of `env_pop_tf`: a
  CPU executes its instructions. Strong fairness of the timer trap: the LAPIC timer is
  periodic and holds an interrupt pending while they are off, so a CPU that is in
  user mode or halted again and again takes one. `FairLockSpec` adds strong fairness of
  `LockKernel`: `spin_lock` spins on `xchg`, and that every spinning CPU gets it in the end is
  a property of the bus arbitration and not of the code. The two liveness
  properties are checked under it.
- `Pipe`: weak fairness of `Run` for each environment is `RunnableRuns`. Strong fairness of
  an environment's own steps says that a time slice lets it take steps; that of
  `SaysClosed \/ SaysOpen` that a slice is longer than `_pipeisclosed`, so that a check which is
  started over and over is completed. No fairness for `Close`, `Kill`, `Fork` or `Call`.
- `FileServer`: weak fairness of the server as a whole and of each client's `Await`: both are runnable
  and `RunnableRuns` lets them run. Nothing is assumed of `Send`: who of several spinning senders finds the server
  receiving is luck, and a client may starve there.
- `NetServer`: weak fairness of the server while it does not wait for a message, of the timer and of each client's `Await`.
  Nothing of requests and packets.
- `E1000`: the card sends while its ring is not empty, and a call of the driver is completed.

### Findings

1. `pipe_fork`: `fork` maps all Fd pages of the child before any data page. In between
   the counts of the read end and of the pipe can agree although there is a writer, and
   they stay so while the parent is off the CPU, for ever if it dies there: the check on `env_runs` does not help.
2. `pipe_drain`: `devpipe_read` looks for bytes first and for writers second, and returns 0
   without looking again. What a writer stored and closed in between is lost.
3. `fs_indirect`: `file_block_walk` uses a new indirect block as it is. What an earlier owner left there is
   taken for the numbers of the file's blocks, which are free or belong to others.
4. `e1000_turn`: `e1000_receive` never clears DD, so from the second turn of the ring on it hands out
   what a descriptor held before when nothing has come.

Further disagreements and limits seen while modelling, without a run of their own:

- Scheduler. `env_destroy` defers only if the status is `ENV_RUNNING` (`kern/env.c:490`): a second
  `sys_env_destroy` of a zombie frees it under the CPU that runs it, and with
  `Misuse = {"destroy_zombie"}` `OnlyOwnCpuDeschedules` fails. `sys_env_set_status` overwrites any status: with
  `"set_status"`, `OneCpuPerEnv` fails. The scan of `sched_yield` restarts at slot 0 when the environment of a
  CPU was freed, so a high slot starves if low ones keep being forked and freed; `RunnableRuns` says so.
- Memory. `tlb_invalidate` works on the CPU that edits a page table (`kern/pmap.c:582`): a parent that
  remaps a page of a child running elsewhere leaves that CPU's translation in place, and with
  `Misuse = {"map_running"}` `TlbCoherent` fails. `pp_ref` wraps: with a small `RefMod`, `RefExact` fails.
  "No other bits may be set" in a permission word (`kern/syscall.c:180`), but `sys_page_alloc`, `sys_page_map`
  and `sys_ipc_try_send` look only at `PTE_U`, `PTE_P` and `PTE_W` (lines 205, 266, 271, 358): with `Misuse = {"stray_bits"}`
  `RefExact` and `ReadOnlyStays` fail at once. `sys_ipc_try_send` reads `*pte` before it looks whether there is a page (line 358).
- Pipes. `p_rpos` and `p_wpos` are signed 32-bit numbers that are never reset: after 2^31 bytes they are negative, and so is
  the index `p_rpos % PIPEBUFSIZ`. On two CPUs the `env_runs` check of
  `_pipeisclosed` cannot see what another CPU does between its two reads (the comment in
  `user/testpiperace2.c` relies on it), and `NoFalseEof` fails; the pipe run therefore has one CPU.
- Fork. `duppage` ignores the result of `sys_page_map` for shared and read-only pages: with an address in
  `MapFails`, `IsCopy` fails. A parent that panics in the middle of `fork` leaves a child that never runs.
- File system. With `"partial_truncate"` a crash leaves pointers to free blocks. With `"write_root"` `BlockOwned`, `NoLeak` and
  `IsFiles` fail: `serve_set_size`, `serve_write` and `O_TRUNC` act on "/" as on any file (`fs/serv.c:128-157`, 200, 249). A size
  of "/" that is no multiple of a block, which the model does not have, trips the assertion of `dir_lookup` (`fs/fs.c:217`). `file_write` extends the file
  before it finds the disk full. A directory that cannot grow keeps its larger size, and a hole that later lookups fill.
  A hole shows what an earlier owner of its block left. A crash between bitmap and pointer
  loses the block for ever (`NoLeak` is about requests that are answered). `check_bc` overwrites the super block at each boot and restores it.
- File server. `env_ipc_perm` keeps the permission of the message before if a message has no page
  (`kern/syscall.c:368`), so the check of `serve` does not notice that. A client that is destroyed while it waits makes
  `ipc_send` panic the server. `seek` on a shared descriptor can be lost. A message from anybody is taken for
  the answer of the server (`lib/file.c:28`). Right after a fork the request page is copy-on-write, so a call
  that does not write it first cannot send it. A file id is negative, and an open fails, after 2^21 opens of one slot.
- Network server. When `QUEUE_SIZE` requests are blocked the server panics; a request without a page
  keeps its buffer for ever if no message with a page came before (`Unpaged`); after one `env_ipc_perm` still says that there is a page
  (`kern/syscall.c:368`), and the thread that reads it, and the server, die of a page fault. The result of `thread_create`
  is not looked at (`net/serv.c:301`), so that out of memory a request and its buffer are lost too (`ThreadFails`). `BuffersAreOwned` says that
  these are the only ones. `sys_mbox_trypost` waits when the mailbox is full instead of failing. `input` reuses its page after 50 ms, whether
  or not the server is done with it. A semaphore or mailbox that is freed never wakes those who wait for it. Threads that wait for
  room in a mailbox can be served in another order than they came. Two clients that use one slow socket can
  get each other's completion: `CallsOutliveMessages` fails if `Slow` contains the shared socket.
- Card. If all transmit descriptors are filled, head meets tail, the card takes the ring for empty and the driver waits for it
  for ever (`Jammed`; `src/Lab6/Exercise6/README.md:1` asks for a full ring to be handled). `FramesAreSent` excepts that state.

## 5. The proofs

TLAPS checks, for every value of the constants that the `ASSUME`s admit:

`EnvSchedProofs`, theorem `SchedInvariant`: `Spec => []SchedInv`, and from it the seven
safety invariants of `sched` and `OnlyOwnCpuDeschedules`. None of the invariants is inductive by
itself: that nobody else takes an environment off its CPU depends on where the other CPUs
are and on the statuses of their `curenv`. `SchedInv` is
  - `CpuInv`: types, `BigKernelLock`, `CurenvIsRunning`, `OneCpuPerEnv`, what `pc`, `tf` and
    `cpu_status` of a CPU say about each other (`PlaceInv`), and that whoever is running or
    a zombie is current somewhere (`OnSomeCpu`);
  - `EnvInv`: identities, `FreeListExact`, that a receiver is blocked (`RecvStatus`), and that a child
    that was not started is blocked and does not receive (`StartInv`, which makes
    `sys_env_set_status` harmless).

A handler changes statuses first and leaves the kernel last, and the proof has the same form:
`Handled(c, st, cur)` is what holds of the statuses at that point with respect to the other CPUs; one
lemma per handler establishes it, and `EnvRunKeeps`, `SchedHaltKeeps`, `SchedYieldKeeps` and
`TrapReturnKeeps` show that every way out of the kernel restores `CpuInv` from it.
Assumed: programs do not make the three calls of `Misuse`.

`PmapProofs`, theorem `PmapInvariant`: `Spec => []PmapInv`, and from it the seven properties of
`pmap_core` and `TablesPrivate`. Assumed: `Misuse = {}` (no edits of a running child, no stray permission bits) and `CountsFit`: there are finitely many words in
page tables, and fewer than `RefMod - 1` (the counter could wrap otherwise).
`PmapInv` is `GoodMem` (counts, free list, and the shape and privacy of the trees of tables, each
needed for the others, as a count that is off by one frees a page in use) and `CpuInv` (the
`cr3` of a CPU is the directory of its environment, what it has cached is in the table, an
address space is there as long as its environment). Inside a handler a count is off: the
lemmas speak of `Exact(m, H, x)`, a memory that is correct except that the pages of `H` are
allocated and nothing points to them yet, and page `x` is counted once more than it is pointed to.
`page_insert` is the chain alloc, incref, remove, store, and each link has its lemma
(`ExactAlloc`, `ExactIncref`, `ExactRemove`, `ExactStore`). `Remapped` says what a handler did to
one address space, `Handled` what the other CPUs are owed, and `RunLeaves`, `HaltLeaves` and
`YieldLeaves` restore the invariant on the way out.

`FileServerProofs`, theorem `FileServerInvariant`: `Spec => []FileServerInv`, and from it `TypeOK` and
`LiveFdsAreValid`. That a descriptor's file id is valid is not inductive: a request that
carries a file id must still have its descriptor when it arrives (`CallInv`), or the slot might have been
given away in between, and a page that the server is about to map must be that of the slot it has just filled in
(`ServerInv`). Nothing is assumed of `Misuse`: the file ids are right even when clients die while they are served.

In the same module, theorem `FileServerIsOpenFiles`: `Spec => IsOpenFiles` if `Misuse = {}`. Beside the
invariant it uses `Attended`, that the client the server works for is there. `CallsAreTold` and `OpenNow` say what the
refinement mapping comes to at each place of a client and for each slot; then each action of `FileServer` has a lemma
that names the step of `FileServerSpec` it is (`AskRefines`, `HandleRefines`, `ReplyRefines`, ...) or that it
stutters (`SendStutters`, `AdvanceStutters`, ...). The point of it is `Advance`: programs see the new position already when the
file is accessed, as nobody can look at it before the answer.

`ForkProofs`, theorem `ForkInvariant`: `Spec => []IInv`, and from it `TypeOK`, `NoWriteSharing` and
`FaultsAreHandled`, whatever system call fails. `NoWriteSharing` is not inductive: `duppage` decides by an
entry it has read before (`DupInv` says that the decision still fits the entry, although a fault may have replaced
the page), two entries with one page say what the program wants of the address and no more (`MappingsInv`), the child does
not run before its parent is done with it (`ChildInv`), and the page at PFTEMP is nobody else's (`TempInv`).
`FaultsAreHandled` needs where in `fork` the upcall is set (`HandlerInv`).

In the same module, theorem `ForkIsCopy`: `Spec => IsCopy` if `MapsAreMade`: no address is in `MapFails` and none
is a read-only page marked `PTE_SHARE`, for which the call in `duppage` fails. Beside `IInv` it needs `CInv`, which says who has which
page: a page is mapped at one address only (`OnePlace`), whoever runs has all of its memory (`FullInv`), a child has the pages
of its parent at the addresses that `fork` has dealt with, but for the stack (`CopiedInv`, `StackInv`), a shared page is the same
for all (`SharedInv`), and what `pgfault` has copied is still up to date when it is mapped (`FreshInv`): a page
somebody else can change in between would be writable by him, which `NoWriteSharing` excludes. The stack is special because
the parent writes it while `fork` runs; it comes last, and the child gets the page that the parent has at that moment.

`PipeProofs`, theorem `PipeInvariant`: `Spec => []PipeInv`, and from it `TypeOK` and `DataOutlivesFds`, for any finite set of
environments on any number of CPUs and for any `Misuse`. `PipeInv` has two layers. `RingInv` is about the bytes: whoever
moves a byte is alone at his end (`Alone`), the bytes between the positions are the next ones (`Ring`), and what a reader holds or the
place a writer is about to fill is still right (`Moving`, `Room`). `DescInv` is about the pages: what each environment has mapped
of a descriptor while it dups, closes or is being forked (`Backed`, `Bare`, `Dupped`, `Forking`, `Marked`); summed over the environments it gives
the relation between the two reference counts.
From `RingInv`, with the contents of the ring written as consecutive numbers, `Spec => BytesAreQueue` (`PipeBytes`), again with no
condition on CPUs or programs.
The third layer needs `Disciplined`, the two conditions of 3.3: one CPU, and `Misuse = {}`. `EndInv` (theorem `PipeEnds`) says that
nobody is in a call on an end that a fork is copying (`Apart`) and that a count which `_pipeisclosed` has read is still
the count if `env_runs` has not changed (`Counted`). On one CPU nobody else has run; on two the argument fails, and `NoFalseEof` is
false. An end that nobody copies has a data page for each of its Fd pages, and so has the other end wherever it is held
(`DataCoversEnd`): if the caller's end has as many mappings as the pipe, the other end has no holder, even while a fork copies it.
From this follow `NoFalseEof` (`EofIsTrue`) and `Spec => IsQueue` (`PipeIsQueue`).

`E1000Proofs`, theorem `FramesCorrect`: `Spec => []FramesInOrder`, for rings of any size and any number of turns, with no further assumption.
`SentInv` says which frame each descriptor between head and tail holds, and that none of them looks done; as the driver looks
before it fills one, it writes over none, not even when head and tail meet because all are filled (`Places`, `Turn`). `ReceivedInv` says
which frames a descriptor may hold. That DD means "a frame has come here", so that the one handed out is the next, is so until the driver has
handed out as many as there are descriptors (`FirstTurnInv`), and no longer: finding 4.

`NetServerProofs`, theorem `Base`: `Spec => []BaseInv`, and from it `TypeOK` and `BuffersAreOwned`, for any number of
workers, clients and sockets and mailboxes of any size. `BaseInv` has the places of the threads (`MainInv`, `LwipInv`,
`WorkerInv`), the queue, and the ring of a mailbox (`RingInv`): the messages are the ones from `head` on and as many as the
semaphore counts, which makes the test of `sys_arch_mbox_fetch` for an empty ring right when the ring is full and
`head = nextq`. A lemma for each step on a mailbox (`PostStep`, `FetchStep`) serves every thread that takes one.

Theorem `OneThingAtATime`: `Spec => []NetInv` if `OwnSlow`, and from it `NoLostWakeup` (`NothingIsLeft`) and
`CallsOutliveMessages` (`CallersWait`). Both rest on one fact about the whole server. When a message is taken nothing could
have gone on (`QuietInv`), and it starts one thing: a call to lwIP, or a packet for those who wait for packets. From then on there is at most one
`Token` (`OneToken`), which passes from the caller to the mailbox of lwIP, to lwIP's thread, to the semaphore of
the socket and back to the caller, and from a packet to one receiver, since two never find one each (`PacketInv`). So there is at most
one call in flight, and the completion on the one semaphore of a socket is for the only thread that waits there
(`CallInv`). `WaitInv` says that a thread which waits was blocked on what it needs, and has been woken if it is there: the flag of
`sys_sem_signal` is for all waiters, and is set again by whoever waits again. `RoundInv` says where the token may be after `n` rounds of
`thread_yield`, and which threads still have their turn before the main thread (`Ahead`): at most three
rounds later the last is woken, so `serve` leaves its loop because nothing is left and not because it has counted to 32.
`OwnSlow` says that no two clients use a socket whose peer may be behind. It is needed: a second write would be put in the place of
the first in `conn->write_msg`, and TLC shows `CallsOutliveMessages` violated at once. `do_write` does not look whether there
is one. `MCNetServer` states `OwnSlow` of the checked instance.

`FileSysProofs`, theorem `FileSysInvariant`: `Spec => []FSInv` if `Careful`, and from it `BlockOwned` (`BlocksOwned`) and
`FlushIsDurable` (`FlushesAreDurable`), for a disk of any size. `Careful` says that `Misuse` has neither `dirty_meta`, which
is finding 3, nor `partial_truncate` or `write_root`, which no program of the repository does: whatever else clients ask, in any order, and wherever the
machine stops, only a request of these three kinds leads to a shared or a free block in a file. `BlockOwned` is not inductive: it is about the files with a name, and a request may give a
name to any other File structure of the directory, whose pointers must be sound as well (`Structs`, `AllSlots`); the bitmap may not hand
out the reserved blocks (`Reserved`), pointers of the directory must lie within its size (`InSize`), and names must
be different (`NamedOnce`). All this is `Good(img)`. It must hold of the disk too, since the machine may boot from it at any time, and the disk lags behind the
cache. `Older(disk, mem)` says how: each pointer and name on the disk is that of the cache or none yet, and a block that the cache points to is
already taken in the bitmap of the disk, which is why `alloc_block` flushes the bitmap first. Then every such disk is `Good`
(`OlderIsGood`). `Visible` says that named files are on the disk, as `file_create` flushes the directory.
A request is a composition of functions of `fs.c`, so the proof has a lemma for each of them (`LinkOk`, `WalkOk`, `GetOk`, `ScanOk`,
`DirAllocOk`, `FileCreateOk`, `SetSizeOk`, `FlushFileOk`, ...) about a request in progress (`Ok`: both images, and every disk a crash in the request
would leave) and about what it leaves as it was (`Carry`, `Names`). Below them is one lemma for each change of the images: blocks are flushed
(`Mixed`), a block is linked in (`Linked`), pointers are cleared (`Cut`), words that are no pointers change (`Touch`).

The assumptions of the modules (`ConstAssumption`, `PmapAssumption`, `PipeAssumption`,
`ForkAssumption`, `Layout`, `E1000Assumption`, and `Constants` of `FileServer` and `NetServer`) are evaluated by TLC in every run.

Only model-checked, within the bounds of section 4: all liveness properties; that `FileSys` implements `FileSysSpec`, and
its invariant `NoLeak`.

## 6. What is not modelled

Register contents, ELF loading, `boot_alloc` and the static mappings above UTOP, user pointers
checks (`user_mem_check`), page contents except in `Fork`, the layout of trap frames. Positions of a pipe are
unbounded numbers. One environment reads a pipe at a time and one writes: two readers race on
`p_rpos`, which the code does not claim to support. `serve_stat` changes nothing and is left out, as are the modes of
`open`, which the client checks against constants. The messages of `FileServer` are those that `lib/file.c` sends.
Semaphores and mailboxes are never freed, waits have no time limit, and lwIP's timers do not run in `NetServer`.
Wrong lengths and card errors are not in `E1000`.

Vendored lwIP, which is more than half of the lines of the repository, and the copies of the kernel in the
earlier labs' directories are third-party or older code; device drivers for console and interrupt controllers,
the boot loader, string functions, test programs and `fsformat` have no state that other parts depend on beyond a call.
The components planned or left out, with the reason for each, are listed in `PROJECT.json`.
