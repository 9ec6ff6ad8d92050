-------------------------------- MODULE Fork --------------------------------
(***************************************************************************)
(* Copy-on-write fork: lib/fork.c and lib/pgfault.c, user code that edits  *)
(* page tables by system calls and takes its own page faults.  A step is   *)
(* one system call, one copy of a page, or one write of the program; while *)
(* an environment is inside fork() it still writes its stack, and the      *)
(* other environments run on other CPUs.                                   *)
(*                                                                         *)
(* Page tables, reference counts and the free list are those of Pmap: here *)
(* a page is free when nothing maps it (FreeCorrect of PmapProofs).        *)
(***************************************************************************)
EXTENDS Naturals

CONSTANTS
    Env,        \* environments
    Root,       \* the first one
    VA,         \* 0..n: the mapped pages below USTACKTOP, in address order
    Stack,      \* the page of the user stack, the last of them
    Kind,       \* how the program that starts as Root maps each address
    Page,       \* physical pages
    Val,        \* what a program may have in a page
    MapFails,   \* the addresses for whose page table memory may be lacking in a child
    NoPage, Cleared

ASSUME ForkAssumption ==
    /\ Root \in Env
    /\ VA # {} /\ VA \subseteq Nat
    /\ Stack \in VA /\ \A va \in VA : va <= Stack
    /\ Kind \in [VA -> {"rw", "ro", "share", "share_ro"}] /\ Kind[Stack] = "rw"
    /\ NoPage \notin Page \cup [VA -> Val]
    /\ Cleared \notin Val
    /\ MapFails \subseteq VA

\* The bits of a page table entry beyond PTE_P and PTE_U.
Flag == {"W", "COW", "SHARE"}
\* The bits of Flag in PTE_SYSCALL.
SyscallFlags == Flag

VARIABLES
    pt,         \* the page and flags each environment maps at each address
    pftemp,     \* the page it maps at PFTEMP
    content,    \* what is in a physical page: a value, or zeroes that page_alloc wrote
    handler,    \* whether it has an exception stack and env_pgfault_upcall
    at,         \* where it is in fork(), see At
    fault       \* where it is in pgfault(): the step and the address, or None

vars == <<pt, pftemp, content, handler, at, fault>>

Unmapped == [page |-> NoPage, flags |-> {}]
NoFault == [pc |-> "none"]
User == [pc |-> "user"]

Live(e) == at[e].pc \notin {"free", "new"}
\* e executes program code or fork(), not pgfault().
In(e, pc) == at[e].pc = pc /\ fault[e] = NoFault
Goto(e, l) == at' = [at EXCEPT ![e] = l]

Mapped(p) == \E e \in Env : pftemp[e] = p \/ \E va \in VA : pt[e][va].page = p
FreePages == {p \in Page : ~Mapped(p)}

FlagsOf(kind) == CASE kind = "rw" -> {"W"}
                   [] kind = "ro" -> {}
                   [] kind = "share" -> {"W", "SHARE"}
                   [] kind = "share_ro" -> {"SHARE"}

\* Root is loaded and has called nothing yet.
Init ==
    /\ \E where \in [VA -> Page], image \in [VA -> Val] :
         /\ \A v1, v2 \in VA : v1 # v2 => where[v1] # where[v2]
         /\ pt = [e \in Env |-> [va \in VA |->
                    IF e = Root THEN [page |-> where[va], flags |-> FlagsOf(Kind[va])]
                                ELSE Unmapped]]
         /\ content = [p \in Page |-> IF \E va \in VA : where[va] = p
                                       THEN image[CHOOSE va \in VA : where[va] = p]
                                       ELSE Cleared]
    /\ pftemp = [e \in Env |-> NoPage]
    /\ handler = [e \in Env |-> FALSE]
    /\ at = [e \in Env |-> IF e = Root THEN User ELSE [pc |-> "free"]]
    /\ fault = [e \in Env |-> NoFault]

-----------------------------------------------------------------------------
(* What the kernel does.                                                   *)

\* sys_page_map's check, and its page_insert.
MayMap(src, flags) == src.page # NoPage /\ ("W" \in flags => "W" \in src.flags)
PageMap(table, e, va, page, flags) == [table EXCEPT ![e][va] = [page |-> page, flags |-> flags]]

\* Pages that nothing maps any more count as cleared: page_alloc clears them before
\* anybody sees them again.
ClearFree == content' = [p \in Page |-> IF Mapped(p)' THEN content[p] ELSE Cleared]

\* The environment is destroyed; a child it was making stays as it is.
Destroy(e) ==
    /\ pt' = [pt EXCEPT ![e] = [va \in VA |-> Unmapped]]
    /\ pftemp' = [pftemp EXCEPT ![e] = NoPage]
    /\ handler' = [handler EXCEPT ![e] = FALSE]
    /\ fault' = [fault EXCEPT ![e] = NoFault]
    /\ Goto(e, [pc |-> "free"])
    /\ ClearFree

\* Exit, any panic of the library, and destruction by another environment.
Die(e) == Live(e) /\ Destroy(e)

-----------------------------------------------------------------------------
(* The program.                                                            *)

\* Inside fork() only the stack is written.  A write to a page without PTE_W enters
\* page_fault_handler: the upcall, if there is one, and pgfault() tests for PTE_COW.
MayWrite(e, va) ==
    /\ Kind[va] \in {"rw", "share"}
    /\ In(e, "user") \/ (Live(e) /\ fault[e] = NoFault /\ va = Stack)

Write(e, va, v) ==
    /\ MayWrite(e, va)
    /\ "W" \in pt[e][va].flags
    /\ content' = [content EXCEPT ![pt[e][va].page] = v]
    /\ UNCHANGED <<pt, pftemp, handler, at, fault>>

Fault(e, va) ==
    /\ MayWrite(e, va)
    /\ "W" \notin pt[e][va].flags
    /\ IF handler[e] /\ "COW" \in pt[e][va].flags
         THEN /\ fault' = [fault EXCEPT ![e] = [pc |-> "alloc", va |-> va]]
              /\ UNCHANGED <<pt, pftemp, content, handler, at>>
         ELSE Destroy(e)

\* pgfault().  Lack of memory is a panic, Die.
InFault(e, pc) == fault[e].pc = pc
FaultGoto(e, pc) == fault' = [fault EXCEPT ![e] = [pc |-> pc, va |-> fault[e].va]]

FaultAlloc(e) ==
    /\ InFault(e, "alloc")
    /\ \E p \in FreePages : pftemp' = [pftemp EXCEPT ![e] = p]
    /\ FaultGoto(e, "copy")
    /\ UNCHANGED <<pt, content, handler, at>>

\* Mutant: the page is not copied.
FaultCopyNot(e) ==
    /\ InFault(e, "copy")
    /\ FaultGoto(e, "map")
    /\ UNCHANGED <<pt, pftemp, content, handler, at>>

FaultCopy(e) ==
    /\ InFault(e, "copy")
    /\ content' = [content EXCEPT ![pftemp[e]] = content[pt[e][fault[e].va].page]]
    /\ FaultGoto(e, "map")
    /\ UNCHANGED <<pt, pftemp, handler, at>>

FaultMap(e) ==
    /\ InFault(e, "map")
    /\ pt' = PageMap(pt, e, fault[e].va, pftemp[e], {"W"})
    /\ FaultGoto(e, "unmap")
    /\ UNCHANGED <<pftemp, handler, at>>
    /\ ClearFree

\* Mutant: PFTEMP stays mapped.
FaultKeepsTemp(e) ==
    /\ InFault(e, "unmap")
    /\ fault' = [fault EXCEPT ![e] = NoFault]
    /\ UNCHANGED <<pt, pftemp, content, handler, at>>

\* PFTEMP is unmapped and the write is tried again.
FaultUnmap(e) ==
    /\ InFault(e, "unmap")
    /\ pftemp' = [pftemp EXCEPT ![e] = NoPage]
    /\ fault' = [fault EXCEPT ![e] = NoFault]
    /\ UNCHANGED <<pt, content, handler, at>>

-----------------------------------------------------------------------------
(* fork().                                                                 *)

\* set_pgfault_handler allocates the exception stack and sets the upcall unless
\* _pgfault_handler is set, which a child inherits with the parent's data.
ForkBegin(e) ==
    /\ In(e, "user")
    /\ handler' = [handler EXCEPT ![e] = TRUE]
    /\ Goto(e, [pc |-> "exofork"])
    /\ UNCHANGED <<pt, pftemp, content, fault>>

Exofork(e, c) ==
    /\ In(e, "exofork")
    /\ at[c].pc = "free"
    /\ at' = [at EXCEPT ![e] = [pc |-> "look", child |-> c, todo |-> VA], ![c] = [pc |-> "new"]]
    /\ UNCHANGED <<pt, pftemp, content, handler, fault>>

\* The address fork() has got to, the lowest of those left.
Here(e) == CHOOSE va \in at[e].todo : \A w \in at[e].todo : va <= w
Onward(e) == [pc |-> "look", child |-> at[e].child, todo |-> at[e].todo \ {Here(e)}]

\* fork() and duppage() look at the page table entry.
Look(e) ==
    LET pte == pt[e][Here(e)]
        how == IF pte.page = NoPage THEN "skip"
               ELSE IF "SHARE" \in pte.flags THEN "share"
               ELSE IF pte.flags \cap {"W", "COW"} # {} THEN "cow"
               ELSE "ro"
    IN  /\ In(e, "look")
        /\ at[e].todo # {}
        /\ Goto(e, IF how = "skip" THEN Onward(e)
                   ELSE [pc |-> "map", child |-> at[e].child, todo |-> at[e].todo, how |-> how])
        /\ UNCHANGED <<pt, pftemp, content, handler, fault>>

\* duppage() maps the page in the child.  Only the copy-on-write branch looks at the
\* result of sys_page_map; its failure is a panic, Die.
DupChild(e) ==
    LET va == Here(e)
        how == at[e].how
        flags == CASE how = "share" -> SyscallFlags
                   [] how = "cow" -> {"COW"}
                   [] how = "ro" -> {}
        next == IF how = "cow" THEN [at[e] EXCEPT !.pc = "self"] ELSE Onward(e)
    IN  /\ In(e, "map")
        /\ \E fails \in IF va \in MapFails /\ how # "cow" THEN BOOLEAN ELSE {FALSE} :
             pt' = IF fails \/ ~MayMap(pt[e][va], flags)
                     THEN pt
                     ELSE PageMap(pt, at[e].child, va, pt[e][va].page, flags)
        /\ Goto(e, next)
        /\ UNCHANGED <<pftemp, content, handler, fault>>

\* Mutant: a page that is mapped copy-on-write by now is left as it is.
DupSelfOnce(e) ==
    /\ In(e, "self")
    /\ Goto(e, Onward(e))
    /\ UNCHANGED <<pt, pftemp, content, handler, fault>>

\* duppage() marks the parent's own mapping, of whatever page it has there by now.
DupSelf(e) ==
    /\ In(e, "self")
    /\ pt' = PageMap(pt, e, Here(e), pt[e][Here(e)].page, {"COW"})
    /\ Goto(e, Onward(e))
    /\ UNCHANGED <<pftemp, content, handler, fault>>

\* Mutant: the child gets no upcall.
ChildHandlerNot(e) ==
    /\ In(e, "look")
    /\ at[e].todo = {}
    /\ Goto(e, [pc |-> "start", child |-> at[e].child])
    /\ UNCHANGED <<pt, pftemp, content, handler, fault>>

\* The child's exception stack and upcall.
ChildHandler(e) ==
    /\ In(e, "look")
    /\ at[e].todo = {}
    /\ handler' = [handler EXCEPT ![at[e].child] = TRUE]
    /\ Goto(e, [pc |-> "start", child |-> at[e].child])
    /\ UNCHANGED <<pt, pftemp, content, fault>>

\* sys_env_set_status: the child runs.
Start(e) ==
    /\ In(e, "start")
    /\ at' = [at EXCEPT ![e] = User, ![at[e].child] = User]
    /\ UNCHANGED <<pt, pftemp, content, handler, fault>>

Next ==
    \E e \in Env :
      \/ Die(e) \/ ForkBegin(e) \/ Look(e) \/ DupChild(e) \/ DupSelf(e) \/ ChildHandler(e)
      \/ Start(e) \/ FaultAlloc(e) \/ FaultCopy(e) \/ FaultMap(e) \/ FaultUnmap(e)
      \/ \E c \in Env : Exofork(e, c)
      \/ \E va \in VA : Fault(e, va) \/ \E v \in Val : Write(e, va, v)

Spec == Init /\ [][Next]_vars

-----------------------------------------------------------------------------
(* Properties.                                                             *)

AtType ==
    [pc : {"free", "new", "user", "exofork"}]
    \cup [pc : {"look"}, child : Env, todo : SUBSET VA]
    \cup [pc : {"map"}, child : Env, todo : (SUBSET VA) \ {{}}, how : {"share", "cow", "ro"}]
    \cup [pc : {"self"}, child : Env, todo : (SUBSET VA) \ {{}}, how : {"cow"}]
    \cup [pc : {"start"}, child : Env]

\* Every variable stays in its range, and PFTEMP is mapped only inside pgfault().
TypeOK ==
    /\ pt \in [Env -> [VA -> [page : Page \cup {NoPage}, flags : SUBSET Flag]]]
    /\ pftemp \in [Env -> Page \cup {NoPage}]
    /\ content \in [Page -> Val \cup {Cleared}]
    /\ handler \in [Env -> BOOLEAN]
    /\ at \in [Env -> AtType]
    /\ fault \in [Env -> {NoFault} \cup [pc : {"alloc", "copy", "map", "unmap"}, va : VA]]
    /\ \A e \in Env : pftemp[e] # NoPage => fault[e].pc \in {"copy", "map", "unmap"}

\* A page that two environments map and did not ask to share is writable by neither,
\* except in the parent between the two calls of duppage(), which write nothing the
\* child must not see.
NoWriteSharing ==
    \A e1, e2 \in Env, va \in VA :
       (/\ e1 # e2
        /\ pt[e1][va].page = pt[e2][va].page
        /\ "W" \in pt[e1][va].flags)
         => \/ "SHARE" \in pt[e1][va].flags
            \/ at[e1].pc = "self" /\ at[e1].child = e2 /\ Here(e1) = va

\* A program that writes what it may is never destroyed for it: whoever can meet a
\* copy-on-write page has a handler (the order of the calls in fork()).
FaultsAreHandled ==
    \A e \in Env, va \in VA :
       Live(e) /\ "COW" \in pt[e][va].flags => handler[e]

\* fork() is indistinguishable from copying the memory (lib/fork.c as a whole).
Copy == INSTANCE ForkSpec WITH
    Shared <- {va \in VA : Kind[va] \in {"share", "share_ro"}},
    None <- NoPage,
    view <- [e \in Env |-> IF Live(e)
                             THEN [va \in VA |-> IF pt[e][va].page = NoPage THEN NoPage
                                                 ELSE content[pt[e][va].page]]
                             ELSE NoPage]
IsCopy == Copy!Spec
=============================================================================
