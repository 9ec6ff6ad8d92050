----------------------------- MODULE ForkProofs -----------------------------
(***************************************************************************)
(* Proofs about Fork for any set of environments, any memory layout and    *)
(* any number of pages, whatever system call fails.                        *)
(*                                                                         *)
(* NoWriteSharing is not inductive.  It rests on what a page table entry   *)
(* may say (MappingsInv), on the entry being still the one that fork() saw *)
(* when it decides how to map the page (DupInv), on the child not running  *)
(* before its parent is done (ChildInv), and on nobody else having the     *)
(* page at PFTEMP (TempInv).                                               *)
(***************************************************************************)
EXTENDS Fork, WellFoundedInduction, TLAPS

\* What an entry that maps a page says, by what the program wants at the address.  A
\* child gets every flag of PTE_SYSCALL on a shared page.
Allowed == [rw |-> {{"W"}, {"COW"}}, ro |-> {{}},
            share |-> {{"W", "SHARE"}, {"W", "COW", "SHARE"}}, share_ro |-> {{"SHARE"}}]

MappingsInv ==
    \A e \in Env, va \in VA :
       IF pt[e][va].page = NoPage THEN pt[e][va].flags = {}
                                  ELSE pt[e][va].flags \in Allowed[Kind[va]]

\* duppage() has chosen by what is still true, though a fault may have replaced the page.
How == [share |-> {"share", "share_ro"}, cow |-> {"rw"}, ro |-> {"ro"}]

DupInv ==
    \A e \in Env : at[e].pc \in {"map", "self"} =>
       pt[e][Here(e)].page # NoPage /\ Kind[Here(e)] \in How[at[e].how]

\* An environment that has made a child and not started it.
Parent(e) == at[e].pc \in {"look", "map", "self", "start"}

ChildInv ==
    \A e \in Env : Parent(e) =>
       /\ at[at[e].child].pc = "new"
       /\ \A f \in Env : Parent(f) /\ at[f].child = at[e].child => f = e

\* Only a program that runs, and only on a copy-on-write page, is in pgfault().
FaultInv ==
    \A e \in Env : fault[e].pc # "none" =>
       Live(e) /\ Kind[fault[e].va] = "rw" /\ pt[e][fault[e].va].page # NoPage

TempInv ==
    /\ \A e \in Env : fault[e].pc \in {"copy", "map"} =>
          pftemp[e] # NoPage /\ \A f \in Env, va \in VA : pt[f][va].page # pftemp[e]
    /\ \A e, f \in Env : e # f /\ pftemp[e] # NoPage => pftemp[e] # pftemp[f]

HandlerInv ==
    \A e \in Env :
       /\ at[e].pc \in {"exofork", "look", "map", "self", "start"} => handler[e]
       /\ at[e].pc = "start" => handler[at[e].child]

IInv ==
    TypeOK /\ MappingsInv /\ DupInv /\ ChildInv /\ FaultInv /\ TempInv /\ HandlerInv
      /\ NoWriteSharing /\ FaultsAreHandled

-----------------------------------------------------------------------------
(* Facts about states.                                                     *)

\* What the record of an environment in fork() holds.
LEMMA AtShape ==
    ASSUME TypeOK, NEW e \in Env
    PROVE  /\ at[e].pc \in {"free", "new", "user", "exofork", "look", "map", "self", "start"}
           /\ Parent(e) => at[e].child \in Env
           /\ at[e].pc \in {"look", "map", "self"} => at[e].todo \in SUBSET VA
           /\ at[e].pc \in {"map", "self"} => at[e].todo # {}
           /\ at[e].pc = "map" => at[e].how \in {"share", "cow", "ro"}
           /\ at[e].pc = "self" => at[e].how = "cow"
<1>1. at[e] \in AtType
  BY DEF TypeOK
<1>2. CASE at[e] \in [pc : {"free", "new", "user", "exofork"}]
  BY <1>2 DEF Parent
<1>3. CASE at[e] \in [pc : {"look"}, child : Env, todo : SUBSET VA]
  BY <1>3 DEF Parent
<1>4. CASE at[e] \in [pc : {"map"}, child : Env, todo : (SUBSET VA) \ {{}},
                      how : {"share", "cow", "ro"}]
  BY <1>4 DEF Parent
<1>5. CASE at[e] \in [pc : {"self"}, child : Env, todo : (SUBSET VA) \ {{}}, how : {"cow"}]
  BY <1>5 DEF Parent
<1>6. CASE at[e] \in [pc : {"start"}, child : Env]
  BY <1>6 DEF Parent
<1> QED  BY <1>1, <1>2, <1>3, <1>4, <1>5, <1>6 DEF AtType

\* The records fork() goes through.
LEMMA PlainValues ==
    /\ User \in AtType /\ [pc |-> "free"] \in AtType /\ [pc |-> "new"] \in AtType
    /\ [pc |-> "exofork"] \in AtType
<1>1. /\ User \in [pc : {"free", "new", "user", "exofork"}]
      /\ [pc |-> "free"] \in [pc : {"free", "new", "user", "exofork"}]
      /\ [pc |-> "new"] \in [pc : {"free", "new", "user", "exofork"}]
      /\ [pc |-> "exofork"] \in [pc : {"free", "new", "user", "exofork"}]
  BY DEF User
<1> QED  BY <1>1, Zenon DEF AtType

\* The records of a parent are of their type.
LEMMA AtValues ==
    ASSUME NEW c \in Env, NEW t \in SUBSET VA, NEW h \in {"share", "cow", "ro"}
    PROVE  /\ [pc |-> "look", child |-> c, todo |-> t] \in AtType
           /\ t # {} => [pc |-> "map", child |-> c, todo |-> t, how |-> h] \in AtType
           /\ t # {} => [pc |-> "self", child |-> c, todo |-> t, how |-> "cow"] \in AtType
           /\ [pc |-> "start", child |-> c] \in AtType
<1>1. [pc |-> "look", child |-> c, todo |-> t]
        \in [pc : {"look"}, child : Env, todo : SUBSET VA]
  OBVIOUS
<1>2. t # {} => [pc |-> "map", child |-> c, todo |-> t, how |-> h]
        \in [pc : {"map"}, child : Env, todo : (SUBSET VA) \ {{}}, how : {"share", "cow", "ro"}]
  OBVIOUS
<1>3. t # {} => [pc |-> "self", child |-> c, todo |-> t, how |-> "cow"]
        \in [pc : {"self"}, child : Env, todo : (SUBSET VA) \ {{}}, how : {"cow"}]
  OBVIOUS
<1>4. [pc |-> "start", child |-> c] \in [pc : {"start"}, child : Env]
  OBVIOUS
<1> QED  BY <1>1, <1>2, <1>3, <1>4, Zenon DEF AtType

\* What the record of an environment in pgfault() holds.
LEMMA FaultShape ==
    ASSUME TypeOK, NEW e \in Env
    PROVE  /\ fault[e].pc \in {"none", "alloc", "copy", "map", "unmap"}
           /\ fault[e] = NoFault <=> fault[e].pc = "none"
           /\ fault[e] # NoFault => fault[e].va \in VA
           /\ fault[e] # NoFault => fault[e] = [pc |-> fault[e].pc, va |-> fault[e].va]
BY DEF TypeOK, NoFault

\* A non-empty set of numbers has a least one.
LEMMA LeastNatural ==
    ASSUME NEW S \in SUBSET Nat, S # {}
    PROVE  \E n \in S : \A m \in S : n <= m
<1> DEFINE R == {ss \in Nat \X Nat : ss[1] < ss[2]}
<1>1. IsWellFoundedOn(R, Nat)
  BY NatLessThanWellFounded DEF OpToRel
<1>2. S \subseteq Nat
  OBVIOUS
<1>3. \A m, n \in Nat : m < n => <<m, n>> \in R
  OBVIOUS
<1> HIDE DEF R
<1>4. \E n \in S : \A m \in S : ~ (<<m, n>> \in R)
  BY <1>1, <1>2, WFMin, Zenon
<1>5. PICK n \in S : \A m \in S : ~ (<<m, n>> \in R)
  BY <1>4
<1>6. \A m \in S : ~ (m < n)
  BY <1>3, <1>5, <1>2
<1>7. \A m \in S : n <= m
  BY <1>6, <1>2
<1> QED  BY <1>7

\* fork() has an address to look at: addresses are numbers.
LEMMA HereIsLeft ==
    ASSUME TypeOK, NEW e \in Env, at[e].pc \in {"look", "map", "self"}, at[e].todo # {}
    PROVE  Here(e) \in at[e].todo /\ Here(e) \in VA
<1>1. at[e].todo \in SUBSET VA /\ VA \subseteq Nat
  BY AtShape, ForkAssumption
<1> at[e].todo \in SUBSET Nat
  BY <1>1
<1>2. \E va \in at[e].todo : \A w \in at[e].todo : va <= w
  BY <1>1, LeastNatural, Zenon
<1> QED  BY <1>1, <1>2 DEF Here

\* The rows of a page table.
LEMMA PtShape ==
    ASSUME TypeOK, NEW e \in Env, NEW va \in VA
    PROVE  /\ pt[e][va].page \in Page \cup {NoPage}
           /\ pt[e][va].flags \in SUBSET Flag
           /\ pt[e][va] = [page |-> pt[e][va].page, flags |-> pt[e][va].flags]
BY DEF TypeOK

\* PageMap changes one entry.
LEMMA PageMapFacts ==
    ASSUME TypeOK, NEW e \in Env, NEW va \in VA, NEW p \in Page \cup {NoPage},
           NEW g \in SUBSET Flag, pt' = PageMap(pt, e, va, p, g)
    PROVE  /\ pt' \in [Env -> [VA -> [page : Page \cup {NoPage}, flags : SUBSET Flag]]]
           /\ pt'[e][va].page = p /\ pt'[e][va].flags = g
           /\ \A f \in Env, w \in VA : f # e \/ w # va => pt'[f][w] = pt[f][w]
BY DEF TypeOK, PageMap

\* Clearing free pages keeps what a page may hold.
LEMMA ClearFreeType ==
    ASSUME TypeOK, ClearFree
    PROVE  content' \in [Page -> Val \cup {Cleared}]
BY DEF TypeOK, ClearFree

-----------------------------------------------------------------------------
(* The initial states.                                                     *)

\* It holds when only Root is loaded.
LEMMA InitIInv == Init => IInv
<1> SUFFICES ASSUME Init PROVE IInv
  OBVIOUS
<1>1. Root \in Env /\ Kind \in [VA -> {"rw", "ro", "share", "share_ro"}]
  BY ForkAssumption
<1>2. PICK where \in [VA -> Page], image \in [VA -> Val] :
         /\ pt = [e \in Env |-> [va \in VA |->
                    IF e = Root THEN [page |-> where[va], flags |-> FlagsOf(Kind[va])]
                                ELSE Unmapped]]
         /\ content = [p \in Page |-> IF \E va \in VA : where[va] = p
                                       THEN image[CHOOSE va \in VA : where[va] = p]
                                       ELSE Cleared]
  BY DEF Init
<1>3. \A va \in VA : FlagsOf(Kind[va]) \in SUBSET Flag /\ FlagsOf(Kind[va]) \in Allowed[Kind[va]]
                       /\ "COW" \notin FlagsOf(Kind[va])
  BY <1>1 DEF FlagsOf, Flag, Allowed
<1>4. \A e \in Env : /\ at[e] = User \/ at[e] = [pc |-> "free"]
                     /\ fault[e] = NoFault /\ pftemp[e] = NoPage /\ handler[e] = FALSE
  BY DEF Init
<1>5. \A e \in Env : ~Parent(e) /\ at[e].pc \in {"user", "free"} /\ fault[e].pc = "none"
  <2> SUFFICES ASSUME NEW e \in Env
               PROVE  ~Parent(e) /\ at[e].pc \in {"user", "free"} /\ fault[e].pc = "none"
    OBVIOUS
  <2>1. at[e].pc \in {"user", "free"}
    BY <1>4 DEF User
  <2>2. fault[e].pc = "none"
    BY <1>4 DEF NoFault
  <2> QED  BY <2>1, <2>2 DEF Parent
<1>6. TypeOK
  <2>1. pt \in [Env -> [VA -> [page : Page \cup {NoPage}, flags : SUBSET Flag]]]
    BY <1>2, <1>3 DEF Unmapped
  <2>2. content \in [Page -> Val \cup {Cleared}]
    BY <1>2
  <2>3. at \in [Env -> AtType]
    BY DEF Init, AtType, User
  <2>4. /\ pftemp \in [Env -> Page \cup {NoPage}] /\ handler \in [Env -> BOOLEAN]
        /\ fault \in [Env -> {NoFault} \cup [pc : {"alloc", "copy", "map", "unmap"}, va : VA]]
    BY DEF Init
  <2> QED  BY <2>1, <2>2, <2>3, <2>4, <1>4 DEF TypeOK
<1>7. MappingsInv
  BY <1>2, <1>3, ForkAssumption DEF MappingsInv, Unmapped
<1>8. NoWriteSharing
  <2> SUFFICES ASSUME NEW e1 \in Env, NEW e2 \in Env, NEW va \in VA, e1 # e2,
                      pt[e1][va].page = pt[e2][va].page, "W" \in pt[e1][va].flags
               PROVE  FALSE
    BY DEF NoWriteSharing
  <2>1. e1 = Root
    BY <1>2 DEF Unmapped
  <2>2. pt[e1][va].page \in Page /\ pt[e2][va].page = NoPage
    BY <1>2, <2>1 DEF Unmapped
  <2> QED  BY <2>2, ForkAssumption
<1>9. FaultsAreHandled
  BY <1>2, <1>3 DEF FaultsAreHandled, Unmapped
<1> QED
  BY <1>4, <1>5, <1>6, <1>7, <1>8, <1>9
  DEF IInv, DupInv, ChildInv, FaultInv, TempInv, HandlerInv
-----------------------------------------------------------------------------
(* The steps.                                                              *)

\* The type invariant, conjunct by conjunct.
LEMMA TypeFacts ==
    ASSUME TypeOK
    PROVE  /\ at \in [Env -> AtType] /\ handler \in [Env -> BOOLEAN]
           /\ fault \in [Env -> {NoFault} \cup [pc : {"alloc", "copy", "map", "unmap"}, va : VA]]
           /\ pt \in [Env -> [VA -> [page : Page \cup {NoPage}, flags : SUBSET Flag]]]
           /\ pftemp \in [Env -> Page \cup {NoPage}] /\ content \in [Page -> Val \cup {Cleared}]
           /\ \A e \in Env : pftemp[e] # NoPage => fault[e].pc \in {"copy", "map", "unmap"}
BY DEF TypeOK

\* Nobody who runs is a child.
LEMMA ChildFacts ==
    ASSUME IInv, NEW e \in Env, Parent(e)
    PROVE  /\ at[e].child \in Env /\ at[e].child # e
           /\ at[at[e].child].pc = "new" /\ ~Live(at[e].child) /\ ~Parent(at[e].child)
           /\ \A f \in Env : Parent(f) /\ at[f].child = at[e].child => f = e
BY AtShape DEF IInv, ChildInv, Parent, Live

\* The address is where it was when the record is.
LEMMA HereKept ==
    ASSUME NEW e \in Env
    PROVE  /\ at'[e] = at[e] => Here(e)' = Here(e)
           /\ at'[e].todo = at[e].todo => Here(e)' = Here(e)
BY DEF Here

\* An environment ends.
LEMMA DestroyStep ==
    ASSUME IInv, NEW e \in Env, Live(e), Destroy(e)
    PROVE  IInv'
<1> USE DEF IInv
<1>2. /\ at' = [at EXCEPT ![e] = [pc |-> "free"]] /\ at'[e].pc = "free"
      /\ \A f \in Env : f # e => at'[f] = at[f]
  BY TypeFacts DEF Destroy, Goto
<1>3. /\ fault' = [fault EXCEPT ![e] = NoFault] /\ fault'[e].pc = "none"
      /\ \A f \in Env : f # e => fault'[f] = fault[f]
  BY TypeFacts DEF Destroy, NoFault
<1>4. /\ pt' = [pt EXCEPT ![e] = [va \in VA |-> Unmapped]]
      /\ \A va \in VA : pt'[e][va].page = NoPage /\ pt'[e][va].flags = {}
      /\ \A f \in Env, va \in VA : f # e => pt'[f][va] = pt[f][va]
  BY TypeFacts DEF Destroy, Unmapped
<1>5. /\ pftemp' = [pftemp EXCEPT ![e] = NoPage] /\ pftemp'[e] = NoPage
      /\ \A f \in Env : f # e => pftemp'[f] = pftemp[f]
      /\ handler' = [handler EXCEPT ![e] = FALSE]
      /\ \A f \in Env : f # e => handler'[f] = handler[f]
  BY TypeFacts DEF Destroy
<1>6. \A f \in Env : Parent(f) => at[f].child \in Env /\ at[f].child # e
  BY ChildFacts
<1>7. \A f \in Env : f # e => Parent(f)' = Parent(f) /\ Live(f)' = Live(f) /\ Here(f)' = Here(f)
  BY <1>2, HereKept DEF Parent, Live
<1>8. ~Parent(e)' /\ ~Live(e)'
  BY <1>2 DEF Parent, Live
<1>9. TypeOK'
  <2>1. at' \in [Env -> AtType]
    BY <1>2, PlainValues, TypeFacts
  <2>2. fault' \in [Env -> {NoFault} \cup [pc : {"alloc", "copy", "map", "unmap"}, va : VA]]
    BY <1>3, TypeFacts
  <2>3. pt' \in [Env -> [VA -> [page : Page \cup {NoPage}, flags : SUBSET Flag]]]
    BY <1>4, TypeFacts DEF Unmapped
  <2>4. pftemp' \in [Env -> Page \cup {NoPage}] /\ handler' \in [Env -> BOOLEAN]
    BY <1>5, TypeFacts
  <2>5. content' \in [Page -> Val \cup {Cleared}]
    BY ClearFreeType DEF Destroy
  <2>6. \A f \in Env : pftemp'[f] # NoPage => fault'[f].pc \in {"copy", "map", "unmap"}
    BY <1>3, <1>5 DEF TypeOK
  <2> QED  BY <2>1, <2>2, <2>3, <2>4, <2>5, <2>6 DEF TypeOK
<1>10. MappingsInv'
  BY <1>4 DEF MappingsInv
<1>11. DupInv'
  BY <1>2, <1>4, <1>7, HereIsLeft, AtShape DEF DupInv
<1>12. ChildInv'
  BY <1>2, <1>6, <1>7, <1>8 DEF ChildInv
<1>13. FaultInv'
  BY <1>3, <1>4, <1>7, FaultShape DEF FaultInv
<1>14. TempInv'
  BY <1>3, <1>4, <1>5, TypeFacts DEF TempInv
<1>15. HandlerInv'
  BY <1>2, <1>5, <1>6, <1>7 DEF HandlerInv, Parent
<1>16. NoWriteSharing'
  BY <1>2, <1>4, <1>7 DEF NoWriteSharing, MappingsInv
<1>17. FaultsAreHandled'
  BY <1>4, <1>5, <1>7 DEF FaultsAreHandled
<1> QED  BY <1>9, <1>10, <1>11, <1>12, <1>13, <1>14, <1>15, <1>16, <1>17

\* set_pgfault_handler.
LEMMA ForkBeginStep ==
    ASSUME IInv, NEW e \in Env, ForkBegin(e)
    PROVE  IInv'
<1> USE DEF IInv
<1>1. /\ at' = [at EXCEPT ![e] = [pc |-> "exofork"]] /\ at'[e].pc = "exofork"
      /\ at[e].pc = "user"
      /\ \A f \in Env : f # e => at'[f] = at[f]
  BY TypeFacts DEF ForkBegin, Goto, In
<1>2. /\ handler' = [handler EXCEPT ![e] = TRUE] /\ handler'[e] = TRUE
      /\ \A f \in Env : f # e => handler'[f] = handler[f]
  BY TypeFacts DEF ForkBegin
<1>3. UNCHANGED <<pt, pftemp, content, fault>>
  BY DEF ForkBegin
<1>4. \A f \in Env : Parent(f) => at[f].child \in Env /\ at[f].child # e
  BY <1>1, ChildFacts
<1>5. \A f \in Env : /\ Parent(f)' = Parent(f) /\ Live(f)' = Live(f)
                     /\ f # e => Here(f)' = Here(f)
  BY <1>1, HereKept DEF Parent, Live
<1>6. TypeOK'
  BY <1>1, <1>2, <1>3, TypeFacts, PlainValues DEF TypeOK
<1>7. MappingsInv' /\ TempInv'
  BY <1>3 DEF MappingsInv, TempInv
<1>8. DupInv'
  BY <1>1, <1>3, <1>5 DEF DupInv
<1>9. ChildInv'
  BY <1>1, <1>4, <1>5 DEF ChildInv, Parent
<1>10. FaultInv'
  BY <1>3, <1>5 DEF FaultInv
<1>11. HandlerInv'
  BY <1>1, <1>2, <1>4 DEF HandlerInv, Parent
<1>12. NoWriteSharing'
  BY <1>1, <1>3, <1>5 DEF NoWriteSharing
<1>13. FaultsAreHandled'
  BY <1>2, <1>3, <1>5 DEF FaultsAreHandled
<1> QED  BY <1>6, <1>7, <1>8, <1>9, <1>10, <1>11, <1>12, <1>13

\* sys_exofork.
LEMMA ExoforkStep ==
    ASSUME IInv, NEW e \in Env, NEW c \in Env, Exofork(e, c)
    PROVE  IInv'
<1> USE DEF IInv
<1>1. at[e].pc = "exofork" /\ at[c].pc = "free" /\ e # c
  BY DEF Exofork, In
<1>2. /\ at' = [at EXCEPT ![e] = [pc |-> "look", child |-> c, todo |-> VA],
                          ![c] = [pc |-> "new"]]
      /\ at'[e].pc = "look" /\ at'[e].child = c /\ at'[c].pc = "new"
      /\ \A f \in Env : f # e /\ f # c => at'[f] = at[f]
  BY <1>1, TypeFacts DEF Exofork
<1>3. UNCHANGED <<pt, pftemp, content, handler, fault>>
  BY DEF Exofork
<1>4. \A f \in Env : Parent(f) => /\ at[f].child \in Env /\ at[f].child # e /\ at[f].child # c
                                  /\ f # e /\ f # c
  BY <1>1, ChildFacts DEF Parent
<1>5. /\ \A f \in Env : f # e /\ f # c => Parent(f)' = Parent(f) /\ Here(f)' = Here(f)
      /\ \A f \in Env : Live(f)' = Live(f)
      /\ ~Parent(c)'
  BY <1>1, <1>2, HereKept DEF Parent, Live
<1>6. TypeOK'
  <2>1. [pc |-> "look", child |-> c, todo |-> VA] \in AtType
    BY AtValues
  <2> QED  BY <2>1, <1>2, <1>3, TypeFacts, PlainValues DEF TypeOK
<1>7. MappingsInv' /\ TempInv'
  BY <1>3 DEF MappingsInv, TempInv
<1>8. DupInv'
  BY <1>2, <1>3, <1>5 DEF DupInv
<1>9. ChildInv'
  <2> SUFFICES ASSUME NEW f \in Env, Parent(f)'
               PROVE  /\ at'[at'[f].child].pc = "new"
                      /\ \A g \in Env : Parent(g)' /\ at'[g].child = at'[f].child => g = f
    BY DEF ChildInv
  <2>1. CASE f = e
    BY <2>1, <1>2, <1>4, <1>5
  <2>2. CASE f # e
    <3>1. f # c /\ Parent(f) /\ at'[f] = at[f]
      BY <2>2, <1>2, <1>5
    <3>2. at[f].child # e /\ at[f].child # c /\ at[f].child \in Env
      BY <3>1, <1>4
    <3>3. at'[at'[f].child].pc = "new"
      <4>1. at[at[f].child].pc = "new" /\ at'[at[f].child] = at[at[f].child]
        BY <3>1, <3>2, <1>2, ChildFacts
      <4> QED  BY <4>1, <3>1
    <3>4. ASSUME NEW g \in Env, Parent(g)', at'[g].child = at'[f].child
          PROVE  g = f
      <4>1. g # e /\ g # c
        BY <3>1, <3>2, <3>4, <1>2, <1>5
      <4>2. Parent(g) /\ at[g].child = at[f].child
        BY <3>1, <3>4, <4>1, <1>2, <1>5
      <4> QED  BY <3>1, <4>2, ChildFacts
    <3> QED  BY <3>3, <3>4
  <2> QED  BY <2>1, <2>2
<1>10. FaultInv'
  BY <1>3, <1>5 DEF FaultInv
<1>11. HandlerInv'
  BY <1>1, <1>2, <1>3 DEF HandlerInv
<1>12. NoWriteSharing'
  <2>1. \A f \in Env : at[f].pc = "self" => at'[f] = at[f] /\ Here(f)' = Here(f)
    BY <1>1, <1>2, <1>5
  <2> QED  BY <2>1, <1>3 DEF NoWriteSharing
<1>13. FaultsAreHandled'
  BY <1>3, <1>5 DEF FaultsAreHandled
<1> QED  BY <1>6, <1>7, <1>8, <1>9, <1>10, <1>11, <1>12, <1>13

\* The entry duppage() looks at decides what it will do.
LEMMA LookStep ==
    ASSUME IInv, NEW e \in Env, Look(e)
    PROVE  IInv'
<1> USE DEF IInv
<1> DEFINE va == Here(e)
           pte == pt[e][va]
           how == IF pte.page = NoPage THEN "skip"
                  ELSE IF "SHARE" \in pte.flags THEN "share"
                  ELSE IF pte.flags \cap {"W", "COW"} # {} THEN "cow"
                  ELSE "ro"
           choice == [pc |-> "map", child |-> at[e].child, todo |-> at[e].todo, how |-> how]
<1>1. /\ at[e].pc = "look" /\ Parent(e) /\ at[e].todo # {} /\ fault[e] = NoFault
      /\ at' = [at EXCEPT ![e] = IF how = "skip" THEN Onward(e) ELSE choice]
      /\ UNCHANGED <<pt, pftemp, content, handler, fault>>
  BY Zenon DEF Look, In, Goto, Parent
<1>2. va \in VA /\ va \in at[e].todo /\ at[e].child \in Env /\ at[e].todo \in SUBSET VA
  BY <1>1, HereIsLeft, AtShape
<1>3. how # "skip" => /\ how \in {"share", "cow", "ro"} /\ pte.page # NoPage
                      /\ Kind[va] \in How[how]
  <2>1. Kind[va] \in {"rw", "ro", "share", "share_ro"}
    BY <1>2, ForkAssumption
  <2>2. pte.page # NoPage => pte.flags \in Allowed[Kind[va]]
    BY <1>2 DEF MappingsInv
  <2>3. ASSUME pte.page # NoPage
        PROVE  \/ "SHARE" \in pte.flags /\ Kind[va] \in {"share", "share_ro"}
               \/ /\ "SHARE" \notin pte.flags /\ pte.flags \cap {"W", "COW"} # {}
                  /\ Kind[va] = "rw"
               \/ /\ "SHARE" \notin pte.flags /\ pte.flags \cap {"W", "COW"} = {}
                  /\ Kind[va] = "ro"
    <3>1. CASE Kind[va] = "rw"
      BY <2>2, <2>3, <3>1 DEF Allowed
    <3>2. CASE Kind[va] = "ro"
      BY <2>2, <2>3, <3>2 DEF Allowed
    <3>3. CASE Kind[va] = "share"
      BY <2>2, <2>3, <3>3 DEF Allowed
    <3>4. CASE Kind[va] = "share_ro"
      BY <2>2, <2>3, <3>4 DEF Allowed
    <3> QED  BY <2>1, <3>1, <3>2, <3>3, <3>4
  <2>4. ASSUME pte.page # NoPage
        PROVE  \/ how = "share" /\ Kind[va] \in {"share", "share_ro"}
               \/ how = "cow" /\ Kind[va] = "rw"
               \/ how = "ro" /\ Kind[va] = "ro"
    BY <2>3, <2>4
  <2>5. how # "skip" => pte.page # NoPage
    OBVIOUS
  <2> HIDE DEF how, pte, va
  <2> QED  BY <2>4, <2>5 DEF How
<1> HIDE DEF how, pte
<1>4. /\ Onward(e) \in AtType /\ Onward(e).pc = "look" /\ Onward(e).child = at[e].child
      /\ how # "skip" => /\ choice \in AtType /\ choice.pc = "map" /\ choice.how = how
                         /\ choice.child = at[e].child /\ choice.todo = at[e].todo
  <2>1. at[e].todo \ {va} \in SUBSET VA
    BY <1>2
  <2>2. Onward(e) \in AtType
    BY <1>2, <2>1, AtValues DEF Onward
  <2>3. how # "skip" => choice \in AtType
    BY <1>1, <1>2, <1>3, AtValues
  <2> QED  BY <2>2, <2>3 DEF Onward
<1>5. /\ at'[e] = IF how = "skip" THEN Onward(e) ELSE choice
      /\ \A f \in Env : f # e => at'[f] = at[f]
      /\ at'[e] \in AtType
  BY <1>1, <1>4, TypeFacts
<1> HIDE DEF choice
<1>6. /\ at'[e].pc \in {"look", "map"} /\ at'[e].child = at[e].child
      /\ at'[e].pc = "map" => /\ Here(e)' = va /\ at'[e].how = how
                              /\ pte.page # NoPage /\ Kind[va] \in How[how]
  BY <1>3, <1>4, <1>5, HereKept
<1>7. \A f \in Env : /\ Parent(f)' = Parent(f) /\ Live(f)' = Live(f)
                     /\ f # e => Here(f)' = Here(f)
                     /\ Parent(f) => at'[f].child = at[f].child /\ at[f].child # e
  BY <1>1, <1>5, <1>6, ChildFacts, HereKept DEF Parent, Live
<1>8. TypeOK'
  BY <1>1, <1>5, TypeFacts DEF TypeOK
<1>9. MappingsInv' /\ TempInv'
  BY <1>1 DEF MappingsInv, TempInv
<1>10. DupInv'
  BY <1>1, <1>5, <1>6, <1>7 DEF DupInv, pte
<1>11. ChildInv'
  BY <1>5, <1>7, ChildFacts DEF ChildInv
<1>12. FaultInv' /\ FaultsAreHandled'
  BY <1>1, <1>7 DEF FaultInv, FaultsAreHandled
<1>13. HandlerInv'
  BY <1>1, <1>5, <1>6 DEF HandlerInv
<1>14. NoWriteSharing'
  BY <1>1, <1>5, <1>7 DEF NoWriteSharing
<1> QED  BY <1>8, <1>9, <1>10, <1>11, <1>12, <1>13, <1>14

\* The child's upcall.
LEMMA ChildHandlerStep ==
    ASSUME IInv, NEW e \in Env, ChildHandler(e)
    PROVE  IInv'
<1> USE DEF IInv
<1> DEFINE c == at[e].child
<1>1. /\ at[e].pc = "look" /\ Parent(e) /\ c \in Env /\ c # e
      /\ at' = [at EXCEPT ![e] = [pc |-> "start", child |-> c]]
      /\ handler' = [handler EXCEPT ![c] = TRUE]
      /\ UNCHANGED <<pt, pftemp, content, fault>>
  BY ChildFacts DEF ChildHandler, In, Goto, Parent
<1>2. /\ at'[e].pc = "start" /\ at'[e].child = c /\ handler'[c] = TRUE
      /\ \A f \in Env : f # e => at'[f] = at[f]
      /\ \A f \in Env : f # c => handler'[f] = handler[f]
  BY <1>1, TypeFacts
<1>3. \A f \in Env : /\ Parent(f)' = Parent(f) /\ Live(f)' = Live(f)
                     /\ f # e => Here(f)' = Here(f)
                     /\ Parent(f) => at'[f].child = at[f].child /\ at[f].child # e
  BY <1>1, <1>2, ChildFacts, HereKept DEF Parent, Live
<1>4. \A f \in Env : handler[f] => handler'[f]
  BY <1>2
<1>5. TypeOK'
  BY <1>1, TypeFacts, AtValues DEF TypeOK
<1>6. MappingsInv' /\ TempInv'
  BY <1>1 DEF MappingsInv, TempInv
<1>7. DupInv'
  BY <1>1, <1>2, <1>3 DEF DupInv
<1>8. ChildInv'
  BY <1>2, <1>3, ChildFacts DEF ChildInv
<1>9. FaultInv' /\ FaultsAreHandled'
  BY <1>1, <1>3, <1>4 DEF FaultInv, FaultsAreHandled
<1>10. HandlerInv'
  BY <1>1, <1>2, <1>4 DEF HandlerInv
<1>11. NoWriteSharing'
  BY <1>1, <1>2, <1>3 DEF NoWriteSharing
<1> QED  BY <1>5, <1>6, <1>7, <1>8, <1>9, <1>10, <1>11

\* The child runs.
LEMMA StartStep ==
    ASSUME IInv, NEW e \in Env, Start(e)
    PROVE  IInv'
<1> USE DEF IInv
<1>1. at[e].pc = "start" /\ Parent(e)
  BY DEF Start, In, Parent
<1>2. PICK c \in Env : c = at[e].child
  BY <1>1, ChildFacts
<1>3. /\ c # e /\ at[c].pc = "new" /\ handler[c] /\ handler[e]
      /\ \A f \in Env : Parent(f) /\ at[f].child = c => f = e
  BY <1>1, <1>2, ChildFacts DEF HandlerInv
<1>4. /\ at' = [at EXCEPT ![e] = User, ![c] = User]
      /\ UNCHANGED <<pt, pftemp, content, handler, fault>>
  BY <1>2 DEF Start
<1>5. /\ at'[e].pc = "user" /\ at'[c].pc = "user"
      /\ \A f \in Env : f # e /\ f # c => at'[f] = at[f]
  BY <1>3, <1>4, TypeFacts DEF User
<1>6. \A f \in Env : f # e /\ f # c =>
            Parent(f)' = Parent(f) /\ Live(f)' = Live(f) /\ Here(f)' = Here(f)
  BY <1>5, HereKept DEF Parent, Live
<1>7. \A f \in Env : f # e /\ f # c /\ Parent(f) =>
            at[f].child # e /\ at[f].child # c /\ at[f].child \in Env
  BY <1>1, <1>3, ChildFacts DEF Parent
<1>8. ~Parent(e)' /\ ~Parent(c)' /\ Live(e)' /\ Live(c)' /\ Live(e)
  BY <1>1, <1>5 DEF Parent, Live
<1>9. TypeOK'
  BY <1>4, TypeFacts, PlainValues DEF TypeOK
<1>10. MappingsInv' /\ TempInv'
  BY <1>4 DEF MappingsInv, TempInv
<1>11. DupInv'
  BY <1>4, <1>5, <1>6 DEF DupInv
<1>12. ChildInv'
  BY <1>5, <1>6, <1>7, <1>8, ChildFacts DEF ChildInv
<1>13. FaultInv'
  BY <1>3, <1>4, <1>6, <1>8 DEF FaultInv
<1>14. FaultsAreHandled'
  BY <1>3, <1>4, <1>6 DEF FaultsAreHandled
<1>15. HandlerInv'
  BY <1>4, <1>5, <1>6, <1>7 DEF HandlerInv, Parent
<1>16. NoWriteSharing'
  <2>1. \A f \in Env : at[f].pc = "self" => at'[f] = at[f] /\ Here(f)' = Here(f)
    BY <1>1, <1>3, <1>5, <1>6
  <2> SUFFICES ASSUME NEW e1 \in Env, NEW e2 \in Env, NEW va \in VA, e1 # e2,
                      pt'[e1][va].page = pt'[e2][va].page, "W" \in pt'[e1][va].flags,
                      "SHARE" \notin pt'[e1][va].flags
               PROVE  at'[e1].pc = "self" /\ at'[e1].child = e2 /\ Here(e1)' = va
    BY DEF NoWriteSharing
  <2>2. at[e1].pc = "self" /\ at[e1].child = e2 /\ Here(e1) = va
    BY <1>4 DEF NoWriteSharing
  <2> QED  BY <2>1, <2>2
<1> QED  BY <1>9, <1>10, <1>11, <1>12, <1>13, <1>14, <1>15, <1>16

\* A write to a page that may be written.
LEMMA WriteStep ==
    ASSUME IInv, NEW e \in Env, NEW va \in VA, NEW v \in Val, Write(e, va, v)
    PROVE  IInv'
<1> USE DEF IInv
<1>1. /\ content' = [content EXCEPT ![pt[e][va].page] = v]
      /\ UNCHANGED <<pt, pftemp, handler, at, fault>>
  BY DEF Write
<1>2. \A f \in Env : Parent(f)' = Parent(f) /\ Live(f)' = Live(f) /\ Here(f)' = Here(f)
  BY <1>1 DEF Parent, Live, Here
<1>3. TypeOK'
  BY <1>1, TypeFacts DEF TypeOK
<1> QED
  BY <1>1, <1>2, <1>3
  DEF MappingsInv, DupInv, ChildInv, FaultInv, TempInv, HandlerInv, NoWriteSharing,
      FaultsAreHandled

\* A write to a copy-on-write page enters pgfault().
LEMMA FaultStep ==
    ASSUME IInv, NEW e \in Env, NEW va \in VA, Fault(e, va)
    PROVE  IInv'
<1> USE DEF IInv
<1>1. /\ Live(e) /\ fault[e] = NoFault /\ "W" \notin pt[e][va].flags
      /\ Kind[va] \in {"rw", "share"}
  BY DEF Fault, MayWrite, In, Live
<1>2. CASE Destroy(e)
  BY <1>1, <1>2, DestroyStep
<1>3. CASE /\ handler[e] /\ "COW" \in pt[e][va].flags
           /\ fault' = [fault EXCEPT ![e] = [pc |-> "alloc", va |-> va]]
           /\ UNCHANGED <<pt, pftemp, content, handler, at>>
  <2>1. /\ fault'[e].pc = "alloc" /\ fault'[e].va = va /\ fault[e].pc = "none"
        /\ \A f \in Env : f # e => fault'[f] = fault[f]
    BY <1>1, <1>3, TypeFacts DEF NoFault
  <2>2. \A f \in Env : Parent(f)' = Parent(f) /\ Live(f)' = Live(f) /\ Here(f)' = Here(f)
    BY <1>3 DEF Parent, Live, Here
  <2>3. pt[e][va].page # NoPage /\ Kind[va] = "rw"
    <3>1. pt[e][va].page # NoPage /\ pt[e][va].flags \in Allowed[Kind[va]]
      BY <1>3 DEF MappingsInv
    <3>2. CASE Kind[va] = "share"
      BY <1>1, <3>1, <3>2 DEF Allowed
    <3> QED  BY <1>1, <3>1, <3>2
  <2>4. TypeOK'
    <3>1. fault' \in [Env -> {NoFault} \cup [pc : {"alloc", "copy", "map", "unmap"}, va : VA]]
      BY <1>3, TypeFacts
    <3>2. \A f \in Env : pftemp'[f] # NoPage => fault'[f].pc \in {"copy", "map", "unmap"}
      BY <1>3, <2>1, TypeFacts
    <3> QED  BY <1>3, <3>1, <3>2, TypeFacts DEF TypeOK
  <2>5. FaultInv' /\ TempInv'
    BY <1>1, <1>3, <2>1, <2>2, <2>3 DEF FaultInv, TempInv
  <2> QED
    BY <1>3, <2>2, <2>4, <2>5
    DEF MappingsInv, DupInv, ChildInv, HandlerInv, NoWriteSharing, FaultsAreHandled
<1> QED  BY <1>2, <1>3 DEF Fault

\* The fresh page is nobody's.
LEMMA FaultAllocStep ==
    ASSUME IInv, NEW e \in Env, FaultAlloc(e)
    PROVE  IInv'
<1> USE DEF IInv
<1>1. PICK p \in FreePages : pftemp' = [pftemp EXCEPT ![e] = p]
  BY DEF FaultAlloc
<1>2. /\ fault[e].pc = "alloc" /\ UNCHANGED <<pt, content, handler, at>>
      /\ fault' = [fault EXCEPT ![e] = [pc |-> "copy", va |-> fault[e].va]]
  BY DEF FaultAlloc, InFault, FaultGoto
<1>3. /\ p \in Page /\ p # NoPage /\ \A f \in Env : pftemp[f] # p
      /\ \A f \in Env, va \in VA : pt[f][va].page # p
  BY ForkAssumption DEF FreePages, Mapped
<1>4. /\ pftemp'[e] = p /\ \A f \in Env : f # e => pftemp'[f] = pftemp[f]
      /\ fault'[e].pc = "copy" /\ fault'[e].va = fault[e].va
      /\ \A f \in Env : f # e => fault'[f] = fault[f]
  BY <1>1, <1>2, TypeFacts
<1>5. \A f \in Env : Parent(f)' = Parent(f) /\ Live(f)' = Live(f) /\ Here(f)' = Here(f)
  BY <1>2 DEF Parent, Live, Here
<1>6. TypeOK'
  <2>1. fault[e].va \in VA
    BY <1>2, FaultShape DEF NoFault
  <2>2. fault' \in [Env -> {NoFault} \cup [pc : {"alloc", "copy", "map", "unmap"}, va : VA]]
    BY <1>2, <2>1, TypeFacts
  <2>3. pftemp' \in [Env -> Page \cup {NoPage}]
    BY <1>1, <1>3, TypeFacts
  <2>4. \A f \in Env : pftemp'[f] # NoPage => fault'[f].pc \in {"copy", "map", "unmap"}
    BY <1>4, TypeFacts
  <2> QED  BY <1>2, <2>2, <2>3, <2>4, TypeFacts DEF TypeOK
<1>7. FaultInv'
  BY <1>2, <1>4, <1>5 DEF FaultInv
<1>8. TempInv'
  BY <1>2, <1>3, <1>4 DEF TempInv
<1> QED
  BY <1>2, <1>5, <1>6, <1>7, <1>8
  DEF MappingsInv, DupInv, ChildInv, HandlerInv, NoWriteSharing, FaultsAreHandled

\* Only the page at PFTEMP is written.
LEMMA FaultCopyStep ==
    ASSUME IInv, NEW e \in Env, FaultCopy(e)
    PROVE  IInv'
<1> USE DEF IInv
<1> DEFINE q == pt[e][fault[e].va].page
<1>1. /\ fault[e].pc = "copy" /\ UNCHANGED <<pt, pftemp, handler, at>>
      /\ fault' = [fault EXCEPT ![e] = [pc |-> "map", va |-> fault[e].va]]
      /\ content' = [content EXCEPT ![pftemp[e]] = content[q]]
  BY DEF FaultCopy, InFault, FaultGoto
<1>2. /\ fault'[e].pc = "map" /\ fault'[e].va = fault[e].va
      /\ \A f \in Env : f # e => fault'[f] = fault[f]
  BY <1>1, TypeFacts
<1>3. \A f \in Env : Parent(f)' = Parent(f) /\ Live(f)' = Live(f) /\ Here(f)' = Here(f)
  BY <1>1 DEF Parent, Live, Here
<1>4. TypeOK'
  <2>1. fault[e].va \in VA
    BY <1>1, FaultShape DEF NoFault
  <2>2. fault' \in [Env -> {NoFault} \cup [pc : {"alloc", "copy", "map", "unmap"}, va : VA]]
    BY <1>1, <2>1, TypeFacts
  <2>3. q \in Page
    BY <1>1, <2>1, PtShape DEF FaultInv
  <2>4. content' \in [Page -> Val \cup {Cleared}]
    BY <1>1, <2>3, TypeFacts
  <2>5. \A f \in Env : pftemp'[f] # NoPage => fault'[f].pc \in {"copy", "map", "unmap"}
    BY <1>1, <1>2, TypeFacts
  <2> QED  BY <1>1, <2>2, <2>4, <2>5, TypeFacts DEF TypeOK
<1>5. FaultInv' /\ TempInv'
  BY <1>1, <1>2, <1>3 DEF FaultInv, TempInv
<1> QED
  BY <1>1, <1>3, <1>4, <1>5
  DEF MappingsInv, DupInv, ChildInv, HandlerInv, NoWriteSharing, FaultsAreHandled

\* PFTEMP is given back.
LEMMA FaultUnmapStep ==
    ASSUME IInv, NEW e \in Env, FaultUnmap(e)
    PROVE  IInv'
<1> USE DEF IInv
<1>1. /\ fault[e].pc = "unmap" /\ UNCHANGED <<pt, content, handler, at>>
      /\ fault' = [fault EXCEPT ![e] = NoFault] /\ pftemp' = [pftemp EXCEPT ![e] = NoPage]
  BY DEF FaultUnmap, InFault
<1>2. /\ fault'[e].pc = "none" /\ \A f \in Env : f # e => fault'[f] = fault[f]
      /\ pftemp'[e] = NoPage /\ \A f \in Env : f # e => pftemp'[f] = pftemp[f]
  BY <1>1, TypeFacts DEF NoFault
<1>3. \A f \in Env : Parent(f)' = Parent(f) /\ Live(f)' = Live(f) /\ Here(f)' = Here(f)
  BY <1>1 DEF Parent, Live, Here
<1>4. TypeOK'
  <2>1. \A f \in Env : pftemp'[f] # NoPage => fault'[f].pc \in {"copy", "map", "unmap"}
    BY <1>2, TypeFacts
  <2> QED  BY <1>1, <2>1, TypeFacts DEF TypeOK
<1>5. FaultInv' /\ TempInv'
  BY <1>1, <1>2, <1>3 DEF FaultInv, TempInv
<1> QED
  BY <1>1, <1>3, <1>4, <1>5
  DEF MappingsInv, DupInv, ChildInv, HandlerInv, NoWriteSharing, FaultsAreHandled

\* The copy takes the place of the page: nobody else has it.
LEMMA FaultMapStep ==
    ASSUME IInv, NEW e \in Env, FaultMap(e)
    PROVE  IInv'
<1> USE DEF IInv
<1>1. /\ fault[e].pc = "map" /\ UNCHANGED <<pftemp, handler, at>> /\ ClearFree
      /\ fault' = [fault EXCEPT ![e] = [pc |-> "unmap", va |-> fault[e].va]]
      /\ pt' = PageMap(pt, e, fault[e].va, pftemp[e], {"W"})
  BY DEF FaultMap, InFault, FaultGoto
<1>2. PICK v \in VA : v = fault[e].va
  BY <1>1, FaultShape DEF NoFault
<1>3. PICK p \in Page \cup {NoPage} : p = pftemp[e]
  BY TypeFacts
<1>4. /\ p # NoPage /\ \A f \in Env, va \in VA : pt[f][va].page # p
      /\ \A f \in Env : f # e => pftemp[f] # p
  BY <1>1, <1>3 DEF TempInv
<1>5. /\ pt' \in [Env -> [VA -> [page : Page \cup {NoPage}, flags : SUBSET Flag]]]
      /\ pt'[e][v].page = p /\ pt'[e][v].flags = {"W"}
      /\ \A f \in Env, va \in VA : f # e \/ va # v => pt'[f][va] = pt[f][va]
  <2>1. {"W"} \in SUBSET Flag
    BY DEF Flag
  <2>2. pt' = PageMap(pt, e, v, p, {"W"})
    BY <1>1, <1>2, <1>3
  <2> HIDE DEF IInv
  <2>3. TypeOK
    BY DEF IInv
  <2> QED  BY <2>1, <2>2, <2>3, PageMapFacts
<1>6. /\ fault'[e].pc = "unmap" /\ fault'[e].va = v
      /\ \A f \in Env : f # e => fault'[f] = fault[f]
  BY <1>1, <1>2, TypeFacts
<1>7. \A f \in Env : Parent(f)' = Parent(f) /\ Live(f)' = Live(f) /\ Here(f)' = Here(f)
  BY <1>1 DEF Parent, Live, Here
<1>8. Live(e) /\ Kind[v] = "rw"
  BY <1>1, <1>2 DEF FaultInv
<1>9. TypeOK'
  <2>1. fault' \in [Env -> {NoFault} \cup [pc : {"alloc", "copy", "map", "unmap"}, va : VA]]
    BY <1>1, <1>2, TypeFacts
  <2>2. \A f \in Env : pftemp'[f] # NoPage => fault'[f].pc \in {"copy", "map", "unmap"}
    BY <1>1, <1>6, TypeFacts
  <2> QED  BY <1>1, <1>5, <2>1, <2>2, TypeFacts, ClearFreeType DEF TypeOK
<1>10. MappingsInv'
  <2>1. {"W"} \in Allowed[Kind[v]]
    BY <1>8 DEF Allowed
  <2>2. ASSUME NEW f \in Env, NEW va \in VA
        PROVE  IF pt'[f][va].page = NoPage THEN pt'[f][va].flags = {}
                                           ELSE pt'[f][va].flags \in Allowed[Kind[va]]
    <3>1. CASE f = e /\ va = v
      BY <1>4, <1>5, <2>1, <3>1
    <3>2. CASE f # e \/ va # v
      <4>1. pt'[f][va] = pt[f][va]
        BY <1>5, <3>2
      <4> QED  BY <4>1 DEF MappingsInv
    <3> QED  BY <3>1, <3>2
  <2> QED  BY <2>2 DEF MappingsInv
<1>11. DupInv'
  BY <1>1, <1>4, <1>5, <1>7, HereIsLeft, AtShape DEF DupInv
<1>12. ChildInv'
  BY <1>1, <1>7 DEF ChildInv
<1>13. FaultInv'
  <2>1. \A f \in Env, va \in VA : pt[f][va].page # NoPage => pt'[f][va].page # NoPage
    BY <1>4, <1>5
  <2>2. \A f \in Env : fault[f].pc # "none" => fault[f].va \in VA
    BY FaultShape
  <2> QED  BY <1>4, <1>5, <1>6, <1>7, <1>8, <2>1, <2>2 DEF FaultInv
<1>14. TempInv'
  <2>1. ASSUME NEW f \in Env, fault'[f].pc \in {"copy", "map"}
        PROVE  pftemp'[f] # NoPage /\ \A g \in Env, va \in VA : pt'[g][va].page # pftemp'[f]
    <3>1. f # e /\ fault[f].pc \in {"copy", "map"} /\ pftemp'[f] = pftemp[f]
      BY <1>1, <1>6, <2>1
    <3>2. pftemp[f] # p /\ pftemp[f] # NoPage
            /\ \A g \in Env, va \in VA : pt[g][va].page # pftemp[f]
      BY <1>4, <3>1 DEF TempInv
    <3>3. ASSUME NEW g \in Env, NEW va \in VA
          PROVE  pt'[g][va].page # pftemp[f]
      BY ZenonT(60), <1>5, <3>2
    <3> QED  BY <3>1, <3>2, <3>3
  <2> QED  BY <1>1, <2>1 DEF TempInv
<1>15. HandlerInv'
  BY <1>1 DEF HandlerInv
<1>16. NoWriteSharing'
  <2> SUFFICES ASSUME NEW e1 \in Env, NEW e2 \in Env, NEW va \in VA, e1 # e2,
                      pt'[e1][va].page = pt'[e2][va].page, "W" \in pt'[e1][va].flags,
                      "SHARE" \notin pt'[e1][va].flags
               PROVE  at'[e1].pc = "self" /\ at'[e1].child = e2 /\ Here(e1)' = va
    BY DEF NoWriteSharing
  <2>1. ~(e1 = e /\ va = v) /\ ~(e2 = e /\ va = v)
    BY <1>4, <1>5
  <2>2. at[e1].pc = "self" /\ at[e1].child = e2 /\ Here(e1) = va
    <3>1. pt'[e1][va] = pt[e1][va] /\ pt'[e2][va] = pt[e2][va]
      BY <1>5, <2>1
    <3> QED  BY <3>1 DEF NoWriteSharing
  <2> QED  BY <1>1, <1>7, <2>2
<1>17. FaultsAreHandled'
  <2>1. \A f \in Env, va \in VA : "COW" \in pt'[f][va].flags => "COW" \in pt[f][va].flags
    BY <1>5
  <2> QED  BY <1>1, <1>7, <2>1 DEF FaultsAreHandled
<1> QED  BY <1>9, <1>10, <1>11, <1>12, <1>13, <1>14, <1>15, <1>16, <1>17

\* fork() goes on to the next address.
LEMMA OnwardFacts ==
    ASSUME TypeOK, NEW e \in Env, at[e].pc \in {"look", "map", "self"}, at[e].todo # {}
    PROVE  /\ Onward(e) \in AtType /\ Onward(e).pc = "look" /\ Onward(e).child = at[e].child
           /\ Onward(e).todo = at[e].todo \ {Here(e)}
<1>1. at[e].child \in Env /\ at[e].todo \ {Here(e)} \in SUBSET VA
  BY AtShape DEF Parent
<1>2. Onward(e) \in AtType
  BY <1>1, AtValues DEF Onward
<1> QED  BY <1>2 DEF Onward

\* The parent's own mapping becomes copy-on-write.
LEMMA DupSelfStep ==
    ASSUME IInv, NEW e \in Env, DupSelf(e)
    PROVE  IInv'
<1> USE DEF IInv
<1>1. /\ at[e].pc = "self" /\ Parent(e) /\ at[e].todo # {} /\ at[e].how = "cow"
      /\ UNCHANGED <<pftemp, content, handler, fault>> /\ at' = [at EXCEPT ![e] = Onward(e)]
      /\ pt' = PageMap(pt, e, Here(e), pt[e][Here(e)].page, {"COW"})
  BY AtShape DEF DupSelf, In, Goto, Parent
<1>2. PICK v \in VA : v = Here(e)
  BY <1>1, HereIsLeft
<1>3. PICK p \in Page \cup {NoPage} : p = pt[e][v].page
  BY PtShape
<1>4. p # NoPage /\ Kind[v] = "rw"
  BY <1>1, <1>2, <1>3 DEF DupInv, How
<1>5. /\ pt' \in [Env -> [VA -> [page : Page \cup {NoPage}, flags : SUBSET Flag]]]
      /\ pt'[e][v].page = p /\ pt'[e][v].flags = {"COW"}
      /\ \A f \in Env, va \in VA : f # e \/ va # v => pt'[f][va] = pt[f][va]
  <2>1. {"COW"} \in SUBSET Flag
    BY DEF Flag
  <2>2. pt' = PageMap(pt, e, v, p, {"COW"})
    BY <1>1, <1>2, <1>3
  <2> HIDE DEF IInv
  <2>3. TypeOK
    BY DEF IInv
  <2> QED  BY <2>1, <2>2, <2>3, PageMapFacts
<1>6. \A f \in Env, va \in VA : pt'[f][va].page = pt[f][va].page
  BY <1>3, <1>5
<1>7. /\ at' \in [Env -> AtType] /\ at'[e].pc = "look" /\ at'[e].child = at[e].child
      /\ \A f \in Env : f # e => at'[f] = at[f]
  BY <1>1, OnwardFacts, TypeFacts
<1>8. \A f \in Env : /\ Parent(f)' = Parent(f) /\ Live(f)' = Live(f)
                     /\ f # e => Here(f)' = Here(f)
                     /\ Parent(f) => at'[f].child = at[f].child /\ at[f].child # e
  BY <1>1, <1>7, ChildFacts, HereKept DEF Parent, Live
<1>9. TypeOK'
  BY <1>1, <1>5, <1>7, TypeFacts DEF TypeOK
<1>10. MappingsInv'
  <2>1. {"COW"} \in Allowed[Kind[v]]
    BY <1>4 DEF Allowed
  <2>2. ASSUME NEW f \in Env, NEW va \in VA
        PROVE  IF pt'[f][va].page = NoPage THEN pt'[f][va].flags = {}
                                           ELSE pt'[f][va].flags \in Allowed[Kind[va]]
    <3>1. CASE f = e /\ va = v
      BY <1>4, <1>5, <2>1, <3>1
    <3>2. CASE f # e \/ va # v
      <4>1. pt'[f][va] = pt[f][va]
        BY <1>5, <3>2
      <4> QED  BY <4>1 DEF MappingsInv
    <3> QED  BY <3>1, <3>2
  <2> QED  BY <2>2 DEF MappingsInv
<1>11. DupInv'
  BY <1>6, <1>7, <1>8, HereIsLeft, AtShape DEF DupInv
<1>12. ChildInv'
  BY <1>7, <1>8, ChildFacts DEF ChildInv
<1>13. FaultInv'
  BY <1>1, <1>6, <1>8, FaultShape DEF FaultInv
<1>14. TempInv'
  BY <1>1, <1>6 DEF TempInv
<1>15. HandlerInv'
  BY <1>1, <1>7 DEF HandlerInv
<1>16. NoWriteSharing'
  <2> SUFFICES ASSUME NEW e1 \in Env, NEW e2 \in Env, NEW va \in VA, e1 # e2,
                      pt'[e1][va].page = pt'[e2][va].page, "W" \in pt'[e1][va].flags,
                      "SHARE" \notin pt'[e1][va].flags
               PROVE  at'[e1].pc = "self" /\ at'[e1].child = e2 /\ Here(e1)' = va
    BY DEF NoWriteSharing
  <2>1. ~(e1 = e /\ va = v) /\ pt'[e1][va] = pt[e1][va]
    BY <1>5
  <2>2. at[e1].pc = "self" /\ at[e1].child = e2 /\ Here(e1) = va
    BY <1>6, <2>1 DEF NoWriteSharing
  <2>3. e1 # e
    BY <1>2, <2>1, <2>2
  <2> QED  BY <1>7, <1>8, <2>2, <2>3
<1>17. FaultsAreHandled'
  BY <1>1, <1>5, <1>8 DEF FaultsAreHandled, HandlerInv
<1> QED  BY <1>9, <1>10, <1>11, <1>12, <1>13, <1>14, <1>15, <1>16, <1>17

\* The child's mapping: of the page the parent has, and with PTE_W only on a shared one.
LEMMA DupChildStep ==
    ASSUME IInv, NEW e \in Env, DupChild(e)
    PROVE  IInv'
<1> USE DEF IInv
<1>1. /\ at[e].pc = "map" /\ Parent(e) /\ at[e].todo # {} /\ at[e].how \in {"share", "cow", "ro"}
      /\ UNCHANGED <<pftemp, content, handler, fault>>
  BY AtShape DEF DupChild, In, Parent
<1>2. PICK v \in VA : v = Here(e)
  BY <1>1, HereIsLeft
<1>3. PICK c \in Env : /\ c = at[e].child /\ c # e /\ ~Live(c) /\ ~Parent(c) /\ at[c].pc = "new"
                       /\ \A f \in Env : Parent(f) /\ at[f].child = c => f = e
  BY <1>1, ChildFacts
<1>4. PICK p \in Page \cup {NoPage} : p = pt[e][v].page
  BY PtShape
<1>5. /\ p # NoPage /\ Kind[v] \in How[at[e].how] /\ pt[e][v].flags \in Allowed[Kind[v]]
  BY <1>1, <1>2, <1>4 DEF DupInv, MappingsInv
\* What the child gets, when it gets something.
<1>6. \/ pt' = pt
      \/ \E g \in SUBSET Flag :
            /\ pt' = PageMap(pt, c, v, p, g)
            /\ g \in Allowed[Kind[v]] /\ ("W" \in g => "SHARE" \in g)
  <2> DEFINE how == at[e].how
             flags == CASE how = "share" -> SyscallFlags
                        [] how = "cow" -> {"COW"}
                        [] how = "ro" -> {}
  <2>1. \/ pt' = pt
        \/ MayMap(pt[e][v], flags) /\ pt' = PageMap(pt, c, v, p, flags)
    BY <1>2, <1>3, <1>4 DEF DupChild
  <2>2. CASE how = "share"
    <3>1. flags = {"W", "COW", "SHARE"} /\ flags \in SUBSET Flag
      BY <2>2 DEF SyscallFlags, Flag
    <3>2. Kind[v] \in {"share", "share_ro"}
      BY <1>5, <2>2 DEF How
    <3> HIDE DEF flags
    <3>3. MayMap(pt[e][v], flags) => Kind[v] = "share"
      <4>1. CASE Kind[v] = "share_ro"
        <5>1. pt[e][v].flags = {"SHARE"}
          BY <1>5, <4>1 DEF Allowed
        <5> QED  BY <3>1, <5>1 DEF MayMap
      <4> QED  BY <3>2, <4>1
    <3>4. CASE Kind[v] = "share"
      <4>1. {"W", "COW", "SHARE"} \in Allowed["share"]
        BY DEF Allowed
      <4> QED  BY <2>1, <3>1, <3>4, <4>1
    <3> QED  BY <2>1, <3>3, <3>4
  <2>3. CASE how = "cow"
    <3>1. flags = {"COW"} /\ flags \in SUBSET Flag
      BY <2>3 DEF Flag
    <3>2. flags \in Allowed[Kind[v]]
      BY <1>5, <2>3, <3>1 DEF How, Allowed
    <3> HIDE DEF flags
    <3> QED  BY <2>1, <3>1, <3>2
  <2>4. CASE how = "ro"
    <3>1. flags = {} /\ flags \in SUBSET Flag
      BY <2>4 DEF Flag
    <3>2. flags \in Allowed[Kind[v]]
      BY <1>5, <2>4, <3>1 DEF How, Allowed
    <3> HIDE DEF flags
    <3> QED  BY <2>1, <3>1, <3>2
  <2> QED  BY <1>1, <2>2, <2>3, <2>4
<1>7. /\ pt' \in [Env -> [VA -> [page : Page \cup {NoPage}, flags : SUBSET Flag]]]
      /\ \A f \in Env, va \in VA : f # c \/ va # v => pt'[f][va] = pt[f][va]
      /\ \/ pt'[c][v] = pt[c][v]
         \/ /\ pt'[c][v].page = p /\ pt'[c][v].flags \in Allowed[Kind[v]]
            /\ "W" \in pt'[c][v].flags => "SHARE" \in pt'[c][v].flags
  <2>1. CASE pt' = pt
    BY <2>1, TypeFacts
  <2>2. CASE pt' # pt
    <3>1. PICK g \in SUBSET Flag :
            /\ pt' = PageMap(pt, c, v, p, g)
            /\ g \in Allowed[Kind[v]] /\ ("W" \in g => "SHARE" \in g)
      BY <1>6, <2>2
    <3>2. TypeOK
      OBVIOUS
    <3> HIDE DEF IInv
    <3>3. /\ pt' \in [Env -> [VA -> [page : Page \cup {NoPage}, flags : SUBSET Flag]]]
          /\ pt'[c][v].page = p /\ pt'[c][v].flags = g
          /\ \A f \in Env, va \in VA : f # c \/ va # v => pt'[f][va] = pt[f][va]
      BY <3>1, <3>2, PageMapFacts
    <3> QED  BY <3>1, <3>3
  <2> QED  BY <2>1, <2>2
\* The parent's record.
<1>8. PICK l \in AtType : /\ at' = [at EXCEPT ![e] = l] /\ l.child = c
                          /\ \/ l.pc = "look"
                             \/ l.pc = "self" /\ l.todo = at[e].todo /\ l.how = "cow"
                                /\ at[e].how = "cow"
                          /\ at[e].how = "cow" => l.pc = "self"
  <2> DEFINE l == IF at[e].how = "cow" THEN [at[e] EXCEPT !.pc = "self"] ELSE Onward(e)
  <2>1. at' = [at EXCEPT ![e] = l]
    BY DEF DupChild, Goto
  <2>2. CASE at[e].how # "cow"
    BY <1>1, <1>3, <2>1, <2>2, OnwardFacts
  <2>3. CASE at[e].how = "cow"
    <3>1. at[e] \in [pc : {"map"}, child : Env, todo : (SUBSET VA) \ {{}},
                     how : {"share", "cow", "ro"}]
      BY <1>1, TypeFacts DEF AtType
    <3>2. l \in [pc : {"self"}, child : Env, todo : (SUBSET VA) \ {{}}, how : {"cow"}]
      BY <2>3, <3>1
    <3>3. l.pc = "self" /\ l.todo = at[e].todo /\ l.how = "cow" /\ l.child = at[e].child
      BY <2>3, <3>1
    <3>4. l \in AtType
      BY <3>2, Zenon DEF AtType
    <3> QED  BY <1>3, <2>1, <2>3, <3>3, <3>4
  <2> QED  BY <2>2, <2>3
<1>9. at'[e] = l /\ \A f \in Env : f # e => at'[f] = at[f]
  BY <1>8, TypeFacts
<1>10. \A f \in Env : /\ Parent(f)' = Parent(f) /\ Live(f)' = Live(f)
                      /\ f # e => Here(f)' = Here(f)
                      /\ Parent(f) => at'[f].child = at[f].child /\ at[f].child # e
  BY <1>1, <1>3, <1>8, <1>9, ChildFacts, HereKept DEF Parent, Live
<1>11. at'[e].pc = "self" => Here(e)' = v
  BY <1>2, <1>8, <1>9, HereKept
<1>12. \A f \in Env, va \in VA : Live(f) => pt'[f][va] = pt[f][va]
  BY <1>3, <1>7
<1>13. TypeOK'
  BY <1>1, <1>7, <1>8, TypeFacts DEF TypeOK
<1>14. MappingsInv'
  <2>1. ASSUME NEW f \in Env, NEW va \in VA
        PROVE  IF pt'[f][va].page = NoPage THEN pt'[f][va].flags = {}
                                           ELSE pt'[f][va].flags \in Allowed[Kind[va]]
    <3>1. CASE pt'[f][va] = pt[f][va]
      BY <3>1 DEF MappingsInv
    <3>2. CASE pt'[f][va] # pt[f][va]
      <4>1. f = c /\ va = v
        BY <1>7, <3>2
      <4> QED  BY <1>5, <1>7, <3>2, <4>1
    <3> QED  BY <3>1, <3>2
  <2> QED  BY <2>1 DEF MappingsInv
<1>15. DupInv'
  <2>1. ASSUME NEW f \in Env, at'[f].pc \in {"map", "self"}
        PROVE  pt'[f][Here(f)'].page # NoPage /\ Kind[Here(f)'] \in How[at'[f].how]
    <3>1. CASE f = e
      <4>1. at'[e].pc = "self" /\ at'[e].how = at[e].how /\ Here(e)' = v
        BY <1>8, <1>9, <1>11, <2>1, <3>1
      <4>2. Kind[v] \in How[at'[e].how]
        BY <1>5, <4>1
      <4>3. pt'[e][v].page # NoPage
        BY <1>3, <1>4, <1>5, <1>7
      <4> QED  BY <3>1, <4>1, <4>2, <4>3
    <3>2. CASE f # e
      <4>1. at'[f] = at[f] /\ Here(f)' = Here(f) /\ at[f].pc \in {"map", "self"}
        BY <1>9, <1>10, <2>1, <3>2
      <4>2. Live(f) /\ Here(f) \in VA
        BY <4>1, HereIsLeft, AtShape DEF Live
      <4> QED  BY <1>12, <4>1, <4>2 DEF DupInv
    <3> QED  BY <3>1, <3>2
  <2> QED  BY <2>1 DEF DupInv
<1>16. ChildInv'
  BY <1>3, <1>9, <1>10, ChildFacts DEF ChildInv
<1>17. FaultInv'
  BY ZenonT(60), <1>1, <1>10, <1>12, FaultShape DEF FaultInv
<1>18. TempInv'
  <2>1. \A f \in Env, va \in VA : \E g \in Env : pt'[f][va].page = pt[g][va].page
    BY <1>4, <1>7
  <2> QED  BY <1>1, <2>1 DEF TempInv
<1>19. HandlerInv'
  BY <1>1, <1>8, <1>9 DEF HandlerInv
<1>20. NoWriteSharing'
  <2> SUFFICES ASSUME NEW e1 \in Env, NEW e2 \in Env, NEW va \in VA, e1 # e2,
                      pt'[e1][va].page = pt'[e2][va].page, "W" \in pt'[e1][va].flags,
                      "SHARE" \notin pt'[e1][va].flags
               PROVE  at'[e1].pc = "self" /\ at'[e1].child = e2 /\ Here(e1)' = va
    BY DEF NoWriteSharing
  <2>1. pt'[e1][va] = pt[e1][va]
    BY <1>7
  <2>2. CASE pt'[e2][va] = pt[e2][va]
    <3>1. at[e1].pc = "self" /\ at[e1].child = e2 /\ Here(e1) = va
      BY <2>1, <2>2 DEF NoWriteSharing
    <3> QED  BY <1>1, <1>9, <1>10, <3>1
  <2>3. CASE pt'[e2][va] # pt[e2][va]
    <3>1. e2 = c /\ va = v /\ pt[e1][v].page = pt[e][v].page
      BY <1>4, <1>7, <2>1, <2>3
    <3>2. e1 = e
      <4>1. CASE e1 # e
        <5>1. at[e1].pc = "self" /\ at[e1].child = e
          BY <2>1, <3>1, <4>1 DEF NoWriteSharing
        <5> QED  BY <1>10, <5>1 DEF Parent
      <4> QED  BY <4>1
    <3>3. Kind[v] = "rw"
      <4>1. pt[e][v].flags \in Allowed[Kind[v]] /\ "W" \in pt[e][v].flags
              /\ "SHARE" \notin pt[e][v].flags
        BY <1>5, <2>1, <3>1, <3>2
      <4>2. Kind[v] \in {"rw", "ro", "share", "share_ro"}
        BY ForkAssumption
      <4> QED  BY <4>1, <4>2 DEF Allowed
    <3>4. at[e].how = "cow"
      BY <1>1, <1>5, <3>3 DEF How
    <3>5. at'[e].pc = "self"
      BY <1>8, <1>9, <3>4
    <3> QED  BY <1>8, <1>9, <1>11, <3>1, <3>2, <3>5
  <2> QED  BY <2>2, <2>3
<1>21. FaultsAreHandled'
  BY <1>1, <1>10, <1>12 DEF FaultsAreHandled
<1> QED
  BY <1>13, <1>14, <1>15, <1>16, <1>17, <1>18, <1>19, <1>20, <1>21
-----------------------------------------------------------------------------
(* The theorems.                                                           *)

\* Every step keeps the invariant.
LEMMA StepIInv == IInv /\ [Next]_vars => IInv'
<1> SUFFICES ASSUME IInv, [Next]_vars PROVE IInv'
  OBVIOUS
<1>1. CASE UNCHANGED vars
  <2>1. \A f \in Env : Parent(f)' = Parent(f) /\ Live(f)' = Live(f) /\ Here(f)' = Here(f)
    BY <1>1 DEF vars, Parent, Live, Here
  <2> QED
    BY <1>1, <2>1
    DEF vars, IInv, TypeOK, MappingsInv, DupInv, ChildInv, FaultInv, TempInv, HandlerInv,
        NoWriteSharing, FaultsAreHandled
<1>2. CASE Next
  <2> PICK e \in Env :
        \/ Die(e) \/ ForkBegin(e) \/ Look(e) \/ DupChild(e) \/ DupSelf(e) \/ ChildHandler(e)
        \/ Start(e) \/ FaultAlloc(e) \/ FaultCopy(e) \/ FaultMap(e) \/ FaultUnmap(e)
        \/ \E c \in Env : Exofork(e, c)
        \/ \E va \in VA : Fault(e, va) \/ \E v \in Val : Write(e, va, v)
    BY <1>2, Zenon DEF Next
  <2>1. CASE Die(e)           BY <2>1, DestroyStep DEF Die
  <2>2. CASE ForkBegin(e)     BY <2>2, ForkBeginStep
  <2>3. CASE Look(e)          BY <2>3, LookStep
  <2>4. CASE DupChild(e)      BY <2>4, DupChildStep
  <2>5. CASE DupSelf(e)       BY <2>5, DupSelfStep
  <2>6. CASE ChildHandler(e)  BY <2>6, ChildHandlerStep
  <2>7. CASE Start(e)         BY <2>7, StartStep
  <2>8. CASE FaultAlloc(e)    BY <2>8, FaultAllocStep
  <2>9. CASE FaultCopy(e)     BY <2>9, FaultCopyStep
  <2>10. CASE FaultMap(e)     BY <2>10, FaultMapStep
  <2>11. CASE FaultUnmap(e)   BY <2>11, FaultUnmapStep
  <2>12. CASE \E c \in Env : Exofork(e, c)
    BY <2>12, ExoforkStep
  <2>13. CASE \E va \in VA : Fault(e, va)
    BY <2>13, FaultStep
  <2>14. CASE \E va \in VA, v \in Val : Write(e, va, v)
    BY <2>14, WriteStep
  <2> QED
    BY <2>1, <2>2, <2>3, <2>4, <2>5, <2>6, <2>7, <2>8, <2>9, <2>10, <2>11, <2>12, <2>13, <2>14,
       Zenon
<1> QED  BY <1>1, <1>2

\* The invariant that everything about copy-on-write fork rests on, for any number of
\* environments, addresses and pages and whatever fails in between.
THEOREM ForkInvariant == Spec => []IInv
BY InitIInv, StepIInv, PTL DEF Spec

\* fork() and pgfault() keep every table in its range, and PFTEMP is mapped only between
\* the allocation and the end of a fault (lib/fork.c pgfault()).
THEOREM ForkTypes == Spec => []TypeOK
<1>1. IInv => TypeOK
  BY DEF IInv
<1> QED  BY <1>1, ForkInvariant, PTL

\* A page that two environments map is writable by neither unless it is shared on
\* purpose, even while duppage() is between its two calls (lib/fork.c duppage()).
THEOREM ForkIsolates == Spec => []NoWriteSharing
<1>1. IInv => NoWriteSharing
  BY DEF IInv
<1> QED  BY <1>1, ForkInvariant, PTL

\* No program dies of writing to a copy-on-write page: the upcall is there before the
\* first such page is (lib/fork.c fork(), lib/pgfault.c).
THEOREM ForkHandlesFaults == Spec => []FaultsAreHandled
<1>1. IInv => FaultsAreHandled
  BY DEF IInv
<1> QED  BY <1>1, ForkInvariant, PTL

-----------------------------------------------------------------------------
(***************************************************************************)
(* Fork implements ForkSpec: fork() cannot be told from copying the memory *)
(* at the moment the child starts.  For any number of environments,        *)
(* addresses, pages and values, when no page table is lacking in a child   *)
(* (duppage ignores that failure) and the program has no read-only page    *)
(* marked PTE_SHARE (duppage's call for it fails, lib/fork.c:70).          *)
(*                                                                         *)
(* A page looks to its programs as it did before unless one of them writes *)
(* it, so the argument is about which environments have a page: CInv.      *)
(***************************************************************************)

\* No call of sys_page_map that duppage() does not check can fail.
MapsAreMade == MapFails = {} /\ \A va \in VA : Kind[va] # "share_ro"

\* A page is only ever mapped at one address.
OnePlace ==
    \A e, f \in Env, v, w \in VA :
       pt[e][v].page # NoPage /\ pt[e][v].page = pt[f][w].page => v = w

\* The addresses that fork() has dealt with in the child.
Dealt(e) == CASE at[e].pc = "look" -> VA \ at[e].todo
              [] at[e].pc = "map" -> VA \ at[e].todo
              [] at[e].pc = "self" -> (VA \ at[e].todo) \cup {Here(e)}
              [] at[e].pc = "start" -> VA

\* Who runs has its whole memory; a child has what fork() has dealt with, and but for the
\* stack the parent has the same pages there.
FullInv == \A e \in Env : Live(e) => \A va \in VA : pt[e][va].page # NoPage
CopiedInv ==
    \A e \in Env, va \in VA : Parent(e) /\ va \in Dealt(e) =>
       /\ pt[at[e].child][va].page # NoPage
       /\ va # Stack => pt[at[e].child][va].page = pt[e][va].page

\* Inside fork() only the stack faults.
StackInv == \A e \in Env : Parent(e) /\ fault[e].pc # "none" => fault[e].va = Stack

\* A page that is shared on purpose is the same page for all.
SharedInv ==
    \A e, f \in Env, va \in VA :
       Kind[va] = "share" /\ pt[e][va].page # NoPage /\ pt[f][va].page # NoPage
         => pt[e][va].page = pt[f][va].page

\* What is mapped has been written, and what pgfault() has copied is still up to date.
ValInv == \A e \in Env, va \in VA : pt[e][va].page # NoPage => content[pt[e][va].page] \in Val
FreshInv ==
    \A e \in Env : fault[e].pc = "map" => content[pftemp[e]] = content[pt[e][fault[e].va].page]

CInv ==
    IInv /\ OnePlace /\ FullInv /\ CopiedInv /\ StackInv /\ SharedInv /\ ValInv /\ FreshInv

-----------------------------------------------------------------------------
(* What an environment sees.                                               *)

Seen(e) == IF Live(e)
             THEN [va \in VA |-> IF pt[e][va].page = NoPage THEN NoPage
                                 ELSE content[pt[e][va].page]]
             ELSE NoPage
View == [e \in Env |-> Seen(e)]
-----------------------------------------------------------------------------
(* The initial states.                                                     *)

\* Root has its memory and nobody has forked.
LEMMA InitCInv == MapsAreMade /\ Init => CInv
<1> SUFFICES ASSUME MapsAreMade, Init PROVE CInv
  OBVIOUS
<1>1. PICK where \in [VA -> Page], image \in [VA -> Val] :
         /\ \A v1, v2 \in VA : v1 # v2 => where[v1] # where[v2]
         /\ pt = [e \in Env |-> [va \in VA |->
                    IF e = Root THEN [page |-> where[va], flags |-> FlagsOf(Kind[va])]
                                ELSE Unmapped]]
         /\ content = [p \in Page |-> IF \E va \in VA : where[va] = p
                                       THEN image[CHOOSE va \in VA : where[va] = p]
                                       ELSE Cleared]
  BY DEF Init
<1>2. \A e \in Env, va \in VA :
         /\ pt[e][va].page = IF e = Root THEN where[va] ELSE NoPage
         /\ where[va] \in Page /\ where[va] # NoPage
  BY <1>1, ForkAssumption DEF Unmapped
<1>3. \A e \in Env : /\ at[e].pc = IF e = Root THEN "user" ELSE "free"
                     /\ fault[e].pc = "none"
  BY DEF Init, User, NoFault
<1>4. \A e \in Env : ~Parent(e) /\ (Live(e) => e = Root)
  BY <1>3 DEF Parent, Live
<1>5. OnePlace /\ SharedInv
  BY <1>1, <1>2 DEF OnePlace, SharedInv
<1>6. FullInv
  BY <1>2, <1>4 DEF FullInv
<1>7. CopiedInv /\ StackInv /\ FreshInv
  BY <1>3, <1>4 DEF CopiedInv, StackInv, FreshInv
<1>8. ValInv
  <2> SUFFICES ASSUME NEW e \in Env, NEW va \in VA, pt[e][va].page # NoPage
               PROVE  content[pt[e][va].page] \in Val
    BY DEF ValInv
  <2>1. pt[e][va].page = where[va]
    BY <1>2
  <2>2. (CHOOSE w \in VA : where[w] = where[va]) \in VA
    OBVIOUS
  <2> QED  BY <1>1, <1>2, <2>1, <2>2
<1> QED  BY <1>5, <1>6, <1>7, <1>8, InitIInv DEF CInv

-----------------------------------------------------------------------------
(* Steps of fork() that change no memory.                                  *)

\* Whoever runs sees each page.
LEMMA SeenFull ==
    ASSUME CInv, NEW e \in Env
    PROVE  Seen(e) = IF Live(e) THEN [va \in VA |-> content[pt[e][va].page]] ELSE NoPage
BY DEF CInv, FullInv, Seen

\* How far fork() has got, before and after a step.
LEMMA DealtFacts ==
    ASSUME NEW e \in Env
    PROVE  /\ at[e].pc \in {"look", "map"} => Dealt(e) = VA \ at[e].todo
           /\ at[e].pc = "self" => Dealt(e) = (VA \ at[e].todo) \cup {Here(e)}
           /\ at[e].pc = "start" => Dealt(e) = VA
           /\ at'[e].pc \in {"look", "map"} => Dealt(e)' = VA \ at'[e].todo
           /\ at'[e].pc = "self" => Dealt(e)' = (VA \ at'[e].todo) \cup {Here(e)'}
           /\ at'[e].pc = "start" => Dealt(e)' = VA
           /\ at'[e] = at[e] => Dealt(e)' = Dealt(e)
BY HereKept DEF Dealt

\* When the memory stays, what is to show is about the environments.
LEMMA MemoryKept ==
    ASSUME CInv, UNCHANGED <<pt, pftemp, content, fault>>
    PROVE  /\ OnePlace' /\ SharedInv' /\ ValInv' /\ FreshInv'
           /\ \A e \in Env : Live(e)' = Live(e) => Seen(e)' = Seen(e)
BY DEF CInv, OnePlace, SharedInv, ValInv, FreshInv, Seen

\* set_pgfault_handler maps only the exception stack.
LEMMA ForkBeginCInv ==
    ASSUME MapsAreMade, CInv, NEW e \in Env, ForkBegin(e)
    PROVE  CInv' /\ UNCHANGED View
<1>1. IInv /\ IInv'
  BY ForkBeginStep DEF CInv
<1>2. /\ UNCHANGED <<pt, pftemp, content, fault>> /\ at[e].pc = "user"
      /\ at'[e].pc = "exofork" /\ \A f \in Env : f # e => at'[f] = at[f]
  BY <1>1, TypeFacts DEF ForkBegin, Goto, In, IInv
<1>3. \A f \in Env : Parent(f)' = Parent(f) /\ Live(f)' = Live(f) /\ (Parent(f) => f # e)
  BY <1>2 DEF Parent, Live
<1>4. FullInv' /\ StackInv'
  BY <1>2, <1>3 DEF CInv, FullInv, StackInv
<1>5. CopiedInv'
  BY <1>2, <1>3, DealtFacts DEF CInv, CopiedInv
<1>6. UNCHANGED View
  BY <1>2, <1>3, MemoryKept DEF View
<1> QED  BY <1>1, <1>2, <1>4, <1>5, <1>6, MemoryKept DEF CInv

\* Nothing is in the child yet.
LEMMA ExoforkCInv ==
    ASSUME MapsAreMade, CInv, NEW e \in Env, NEW c \in Env, Exofork(e, c)
    PROVE  CInv' /\ UNCHANGED View
<1>1. IInv /\ IInv'
  BY ExoforkStep DEF CInv
<1>2. /\ UNCHANGED <<pt, pftemp, content, fault>> /\ at[e].pc = "exofork" /\ at[c].pc = "free"
      /\ fault[e] = NoFault
      /\ at'[e].pc = "look" /\ at'[e].todo = VA /\ at'[c].pc = "new"
      /\ \A f \in Env : f # e /\ f # c => at'[f] = at[f]
  BY <1>1, TypeFacts DEF Exofork, In, IInv
<1>3. \A f \in Env : /\ Live(f)' = Live(f)
                     /\ f # e => Parent(f)' = Parent(f) /\ (Parent(f) => at'[f] = at[f])
  BY <1>2 DEF Parent, Live
<1>4. FullInv' /\ StackInv'
  BY <1>2, <1>3 DEF CInv, FullInv, StackInv, NoFault
<1>5. CopiedInv'
  <2>1. Dealt(e)' = {}
    BY <1>2, DealtFacts
  <2> QED  BY <1>2, <1>3, <2>1, DealtFacts DEF CInv, CopiedInv
<1>6. UNCHANGED View
  BY <1>2, <1>3, MemoryKept DEF View
<1> QED  BY <1>1, <1>2, <1>4, <1>5, <1>6, MemoryKept DEF CInv

\* A parent has all its memory, so every address is for duppage().
LEMMA LookCInv ==
    ASSUME MapsAreMade, CInv, NEW e \in Env, Look(e)
    PROVE  CInv' /\ UNCHANGED View
<1>1. IInv /\ IInv' /\ TypeOK
  BY LookStep DEF CInv, IInv
<1>2. /\ UNCHANGED <<pt, pftemp, content, fault>> /\ at[e].pc = "look" /\ at[e].todo # {}
      /\ fault[e] = NoFault
  BY DEF Look, In
<1>3. pt[e][Here(e)].page # NoPage
  BY <1>1, <1>2, HereIsLeft DEF CInv, FullInv, Live
<1>4. /\ at'[e].pc = "map" /\ at'[e].todo = at[e].todo /\ at'[e].child = at[e].child
      /\ \A f \in Env : f # e => at'[f] = at[f]
  <2>1. PICK h : at' = [at EXCEPT ![e] = [pc |-> "map", child |-> at[e].child,
                                          todo |-> at[e].todo, how |-> h]]
    BY <1>3 DEF Look, Goto
  <2> QED  BY <1>1, <2>1, TypeFacts
<1>5. \A f \in Env : Parent(f)' = Parent(f) /\ Live(f)' = Live(f) /\ at'[f].child = at[f].child
                     /\ (Parent(f) => Dealt(f)' = Dealt(f))
  <2>1. Dealt(e)' = Dealt(e)
    BY <1>2, <1>4, DealtFacts
  <2>2. \A f \in Env : f # e => Dealt(f)' = Dealt(f)
    BY <1>4, DealtFacts
  <2> QED  BY <1>2, <1>4, <2>1, <2>2 DEF Parent, Live
<1>6. FullInv' /\ StackInv' /\ CopiedInv'
  BY <1>2, <1>5 DEF CInv, FullInv, StackInv, CopiedInv
<1>7. UNCHANGED View
  BY <1>2, <1>5, MemoryKept DEF View
<1> QED  BY <1>1, <1>2, <1>6, <1>7, MemoryKept DEF CInv

\* All addresses have been dealt with.
LEMMA ChildHandlerCInv ==
    ASSUME MapsAreMade, CInv, NEW e \in Env, ChildHandler(e)
    PROVE  CInv' /\ UNCHANGED View
<1>1. IInv /\ IInv' /\ TypeOK
  BY ChildHandlerStep DEF CInv, IInv
<1>2. /\ UNCHANGED <<pt, pftemp, content, fault>> /\ at[e].pc = "look" /\ at[e].todo = {}
      /\ at'[e].pc = "start" /\ at'[e].child = at[e].child
      /\ \A f \in Env : f # e => at'[f] = at[f]
  BY <1>1, TypeFacts DEF ChildHandler, In, Goto
<1>3. \A f \in Env : Parent(f)' = Parent(f) /\ Live(f)' = Live(f) /\ at'[f].child = at[f].child
                     /\ (Parent(f) => Dealt(f)' = Dealt(f))
  <2>1. Dealt(e)' = Dealt(e)
    BY <1>2, DealtFacts
  <2>2. \A f \in Env : f # e => Dealt(f)' = Dealt(f)
    BY <1>2, DealtFacts
  <2> QED  BY <1>2, <2>1, <2>2 DEF Parent, Live
<1>4. FullInv' /\ StackInv' /\ CopiedInv'
  BY <1>2, <1>3 DEF CInv, FullInv, StackInv, CopiedInv
<1>5. UNCHANGED View
  BY <1>2, <1>3, MemoryKept DEF View
<1> QED  BY <1>1, <1>2, <1>4, <1>5, MemoryKept DEF CInv

\* The child appears: its memory is its parent's, but for the stack.
LEMMA StartCInv ==
    ASSUME MapsAreMade, CInv, NEW e \in Env, Start(e)
    PROVE  /\ CInv'
           /\ \E c \in Env, v \in Val :
                /\ View[e] # NoPage /\ View[c] = NoPage
                /\ View' = [View EXCEPT ![c] = [View[e] EXCEPT ![Stack] = v]]
<1>1. IInv /\ IInv' /\ TypeOK
  BY StartStep DEF CInv, IInv
<1>2. /\ UNCHANGED <<pt, pftemp, content, fault>> /\ at[e].pc = "start" /\ fault[e] = NoFault
      /\ Parent(e) /\ Live(e)
  BY DEF Start, In, Parent, Live
<1>3. PICK c \in Env : /\ c = at[e].child /\ c # e /\ at[c].pc = "new" /\ ~Live(c) /\ ~Parent(c)
  BY <1>1, <1>2, ChildFacts
<1>4. /\ at'[e].pc = "user" /\ at'[c].pc = "user"
      /\ \A f \in Env : f # e /\ f # c => at'[f] = at[f]
  BY <1>1, <1>2, <1>3, TypeFacts DEF Start, User
<1>5. /\ \A f \in Env : f # c => Live(f)' = Live(f)
      /\ \A f \in Env : Parent(f)' => f # e /\ f # c /\ Parent(f) /\ at'[f] = at[f]
      /\ Live(c)' /\ Live(e)'
  BY <1>2, <1>4 DEF Parent, Live
<1>6. \A va \in VA : /\ pt[c][va].page # NoPage
                     /\ va # Stack => pt[c][va].page = pt[e][va].page
  BY <1>2, <1>3, DealtFacts DEF CInv, CopiedInv
<1>7. FullInv' /\ StackInv'
  BY <1>2, <1>5, <1>6 DEF CInv, FullInv, StackInv
<1>8. CopiedInv'
  BY <1>2, <1>5, DealtFacts DEF CInv, CopiedInv
<1>9. CInv'
  BY <1>1, <1>2, <1>7, <1>8, MemoryKept DEF CInv
<1>10. Stack \in VA /\ NoPage \notin [VA -> Val]
  BY ForkAssumption
<1>11. PICK v \in Val : v = content[pt[c][Stack].page]
  BY <1>6, <1>10 DEF CInv, ValInv
<1>12. /\ Seen(e) = [va \in VA |-> content[pt[e][va].page]] /\ Seen(c) = NoPage
       /\ Seen(c)' = [va \in VA |-> content[pt[c][va].page]]
       /\ \A f \in Env : f # c => Seen(f)' = Seen(f)
  <2>1. Seen(c)' = [va \in VA |-> content[pt[c][va].page]]
    BY <1>2, <1>5, <1>6 DEF Seen
  <2> QED  BY <1>2, <1>3, <1>5, <2>1, SeenFull, MemoryKept DEF Seen
<1>13. Seen(c)' = [Seen(e) EXCEPT ![Stack] = v]
  BY <1>6, <1>10, <1>11, <1>12
<1>14. Seen(e) # NoPage
  <2>1. Seen(e) \in [VA -> Val]
    BY <1>2, <1>12 DEF CInv, FullInv, ValInv
  <2> QED  BY <1>10, <2>1
<1>15. View' = [View EXCEPT ![c] = [View[e] EXCEPT ![Stack] = v]]
  BY <1>12, <1>13 DEF View
<1> QED  BY <1>9, <1>12, <1>14, <1>15 DEF View
-----------------------------------------------------------------------------
(* Steps that change memory.                                               *)

\* The page of the parent becomes the child's, whatever it is.
LEMMA DupChildCInv ==
    ASSUME MapsAreMade, CInv, NEW e \in Env, DupChild(e)
    PROVE  CInv' /\ UNCHANGED View
<1>1. IInv /\ IInv' /\ TypeOK
  BY DupChildStep DEF CInv, IInv
<1>2. /\ UNCHANGED <<pftemp, content, handler, fault>> /\ at[e].pc = "map" /\ at[e].todo # {}
      /\ fault[e] = NoFault /\ Parent(e) /\ Live(e) /\ at[e].how \in {"share", "cow", "ro"}
  BY <1>1, AtShape DEF DupChild, In, Parent, Live
<1>3. PICK c \in Env : /\ c = at[e].child /\ c # e /\ ~Live(c) /\ ~Parent(c) /\ at[c].pc = "new"
                       /\ \A f \in Env : Parent(f) /\ at[f].child = c => f = e
  BY <1>1, <1>2, ChildFacts
<1>4. PICK v \in VA : v = Here(e)
  BY <1>1, <1>2, HereIsLeft
<1>5. PICK p \in Page \cup {NoPage} : p = pt[e][v].page /\ p # NoPage
  BY <1>1, <1>2, PtShape DEF CInv, FullInv
<1>6. PICK fl \in SUBSET Flag : pt' = PageMap(pt, c, v, p, fl)
  <2>1. PICK h \in {"share", "cow", "ro"} : h = at[e].how /\ Kind[v] \in How[h]
    BY <1>1, <1>2, <1>4 DEF IInv, DupInv
  <2>2. pt[e][v].flags \in Allowed[Kind[v]] /\ Kind[v] # "share_ro"
    BY <1>1, <1>5 DEF IInv, MappingsInv, MapsAreMade
  <2> DEFINE flags == CASE h = "share" -> SyscallFlags
                        [] h = "cow" -> {"COW"}
                        [] h = "ro" -> {}
  <2>3. flags \in SUBSET Flag /\ ("W" \in flags => h = "share")
    BY DEF SyscallFlags, Flag
  <2>4. h = "share" => "W" \in pt[e][v].flags
    <3>1. h = "share" => Kind[v] = "share"
      BY <2>1, <2>2 DEF How
    <3>2. Kind[v] = "share" => "W" \in pt[e][v].flags
      BY <2>2 DEF Allowed
    <3> QED  BY <3>1, <3>2
  <2>5. pt' = IF MayMap(pt[e][v], flags) THEN PageMap(pt, c, v, p, flags) ELSE pt
    BY <1>3, <1>4, <1>5, <2>1 DEF DupChild, MapsAreMade
  <2> HIDE DEF flags
  <2>6. MayMap(pt[e][v], flags)
    BY <1>5, <2>3, <2>4 DEF MayMap
  <2> QED  BY <2>3, <2>5, <2>6
<1>7. /\ pt'[c][v].page = p
      /\ \A f \in Env, va \in VA : f # c \/ va # v => pt'[f][va] = pt[f][va]
  BY <1>1, <1>6, PageMapFacts
<1>8. /\ at'[e].child = c /\ \A f \in Env : f # e => at'[f] = at[f]
      /\ at'[e].pc \in {"look", "self"} /\ Dealt(e)' \subseteq Dealt(e) \cup {v}
  <2>1. /\ Onward(e).pc = "look" /\ Onward(e).child = c
        /\ Onward(e).todo = at[e].todo \ {v}
    BY <1>1, <1>2, <1>3, <1>4, OnwardFacts
  <2>2. CASE at[e].how # "cow"
    <3>1. at'[e] = Onward(e) /\ \A f \in Env : f # e => at'[f] = at[f]
      BY <1>1, <2>2, TypeFacts DEF DupChild, Goto
    <3>2. Dealt(e)' = VA \ (at[e].todo \ {v}) /\ Dealt(e) = VA \ at[e].todo
      BY <1>2, <2>1, <3>1, DealtFacts
    <3> QED  BY <2>1, <3>1, <3>2
  <2>3. CASE at[e].how = "cow"
    <3>1. /\ at'[e] = [at[e] EXCEPT !.pc = "self"]
          /\ \A f \in Env : f # e => at'[f] = at[f]
      BY <1>1, <2>3, TypeFacts DEF DupChild, Goto
    <3>2. at[e] \in [pc : {"map"}, child : Env, todo : (SUBSET VA) \ {{}},
                     how : {"share", "cow", "ro"}]
      BY <1>1, <1>2, TypeFacts DEF AtType
    <3>3. at'[e].pc = "self" /\ at'[e].todo = at[e].todo /\ at'[e].child = c
      BY <1>3, <3>1, <3>2
    <3>4. Dealt(e)' = (VA \ at[e].todo) \cup {v} /\ Dealt(e) = VA \ at[e].todo
      BY <1>2, <1>4, <3>3, DealtFacts, HereKept
    <3> QED  BY <3>1, <3>3, <3>4
  <2> QED  BY <2>2, <2>3
<1>9. \A f \in Env : /\ Parent(f)' = Parent(f) /\ Live(f)' = Live(f)
                     /\ Parent(f) => at'[f].child = at[f].child /\ f # c
                     /\ f # e => Dealt(f)' = Dealt(f)
                     /\ Live(f) => f # c
  BY <1>2, <1>3, <1>8, DealtFacts DEF Parent, Live
<1>10. \A f \in Env, va \in VA : Live(f) => pt'[f][va] = pt[f][va]
  BY <1>7, <1>9
<1>11. \A f \in Env, va \in VA : \/ pt'[f][va].page = pt[f][va].page
                                 \/ f = c /\ va = v /\ pt'[f][va].page = pt[e][va].page
  BY <1>5, <1>7
<1>12. OnePlace'
  <2>1. \A f \in Env, va \in VA : \E g \in Env : pt'[f][va].page = pt[g][va].page
    BY <1>11
  <2>2. ASSUME NEW f1 \in Env, NEW f2 \in Env, NEW w1 \in VA, NEW w2 \in VA,
               pt'[f1][w1].page # NoPage, pt'[f1][w1].page = pt'[f2][w2].page
        PROVE  w1 = w2
    <3>1. PICK g1 \in Env : pt'[f1][w1].page = pt[g1][w1].page
      BY <2>1
    <3>2. PICK g2 \in Env : pt'[f2][w2].page = pt[g2][w2].page
      BY <2>1
    <3>3. \A x, y \in Env, a, b \in VA :
             pt[x][a].page # NoPage /\ pt[x][a].page = pt[y][b].page => a = b
      BY Zenon DEF CInv, OnePlace
    <3>4. pt[g1][w1].page # NoPage /\ pt[g1][w1].page = pt[g2][w2].page
      BY <2>2, <3>1, <3>2
    <3> QED  BY <3>3, <3>4
  <2> QED  BY <2>2 DEF OnePlace
<1>13. SharedInv'
  <2>1. \A f \in Env, va \in VA : \E g \in Env : pt'[f][va].page = pt[g][va].page
    BY <1>11
  <2>2. ASSUME NEW f1 \in Env, NEW f2 \in Env, NEW w \in VA, Kind[w] = "share",
               pt'[f1][w].page # NoPage, pt'[f2][w].page # NoPage
        PROVE  pt'[f1][w].page = pt'[f2][w].page
    <3>1. PICK g1 \in Env : pt'[f1][w].page = pt[g1][w].page
      BY <2>1
    <3>2. PICK g2 \in Env : pt'[f2][w].page = pt[g2][w].page
      BY <2>1
    <3>3. SharedInv
      BY DEF CInv
    <3> QED  BY <2>2, <3>1, <3>2, <3>3 DEF SharedInv
  <2> QED  BY <2>2 DEF SharedInv
<1>14. ValInv'
  BY <1>2, <1>11 DEF CInv, ValInv
<1>15. FreshInv'
  <2> SUFFICES ASSUME NEW f \in Env, fault'[f].pc = "map"
               PROVE  content'[pftemp'[f]] = content'[pt'[f][fault'[f].va].page]
    BY DEF FreshInv
  <2>1. fault[f].pc = "map" /\ fault[f].va \in VA /\ Live(f)
    BY <1>1, <1>2, FaultShape DEF NoFault, IInv, FaultInv
  <2>2. pt'[f][fault[f].va] = pt[f][fault[f].va]
    BY <1>10, <2>1
  <2> QED  BY <1>2, <2>1, <2>2 DEF CInv, FreshInv
<1>16. FullInv' /\ StackInv'
  BY <1>2, <1>9, <1>10 DEF CInv, FullInv, StackInv
<1>17. CopiedInv'
  <2> SUFFICES ASSUME NEW f \in Env, NEW va \in VA, Parent(f)', va \in Dealt(f)'
               PROVE  /\ pt'[at'[f].child][va].page # NoPage
                      /\ va # Stack => pt'[at'[f].child][va].page = pt'[f][va].page
    BY DEF CopiedInv
  <2>1. Parent(f) /\ at'[f].child = at[f].child /\ pt'[f][va] = pt[f][va] /\ f # c
    BY <1>7, <1>9
  <2>2. CASE f = e /\ va = v
    BY <1>3, <1>5, <1>7, <2>1, <2>2
  <2>3. CASE f = e /\ va # v
    <3>1. va \in Dealt(e) /\ pt'[c][va] = pt[c][va]
      BY <1>7, <1>8, <2>3
    <3> QED  BY <1>3, <2>1, <2>3, <3>1 DEF CInv, CopiedInv
  <2>4. CASE f # e
    <3>1. PICK k \in Env : k = at[f].child
      BY <1>1, <2>1, AtShape
    <3>2. k # c /\ va \in Dealt(f)
      BY <1>3, <1>9, <2>1, <2>4, <3>1
    <3>3. pt'[k][va] = pt[k][va]
      BY <1>7, <3>2
    <3> QED  BY <2>1, <3>1, <3>2, <3>3 DEF CInv, CopiedInv
  <2> QED  BY <2>2, <2>3, <2>4
<1>18. UNCHANGED View
  BY <1>2, <1>9, <1>10 DEF View, Seen
<1> QED  BY <1>1, <1>12, <1>13, <1>14, <1>15, <1>16, <1>17, <1>18 DEF CInv

\* The parent's flags change, its pages do not.
LEMMA DupSelfCInv ==
    ASSUME MapsAreMade, CInv, NEW e \in Env, DupSelf(e)
    PROVE  CInv' /\ UNCHANGED View
<1>1. IInv /\ IInv' /\ TypeOK
  BY DupSelfStep DEF CInv, IInv
<1>2. /\ UNCHANGED <<pftemp, content, handler, fault>> /\ at[e].pc = "self" /\ at[e].todo # {}
      /\ pt' = PageMap(pt, e, Here(e), pt[e][Here(e)].page, {"COW"})
      /\ at' = [at EXCEPT ![e] = Onward(e)]
  BY <1>1, AtShape DEF DupSelf, In, Goto
<1>3. PICK v \in VA : v = Here(e)
  BY <1>1, <1>2, HereIsLeft
<1>4. \A f \in Env, va \in VA : pt'[f][va].page = pt[f][va].page
  <2>1. {"COW"} \in SUBSET Flag /\ pt[e][v].page \in Page \cup {NoPage}
    BY <1>1, PtShape DEF Flag
  <2>2. /\ pt'[e][v].page = pt[e][v].page
        /\ \A f \in Env, va \in VA : f # e \/ va # v => pt'[f][va] = pt[f][va]
    BY <1>1, <1>2, <1>3, <2>1, PageMapFacts
  <2> QED  BY <2>2
<1>5. /\ at'[e].pc = "look" /\ at'[e].child = at[e].child /\ Dealt(e)' = Dealt(e)
      /\ \A f \in Env : f # e => at'[f] = at[f]
  <2>1. /\ at'[e] = Onward(e) /\ \A f \in Env : f # e => at'[f] = at[f]
    BY <1>1, <1>2, TypeFacts
  <2>2. /\ at'[e].pc = "look" /\ at'[e].child = at[e].child
        /\ at'[e].todo = at[e].todo \ {v}
    BY <1>1, <1>2, <1>3, <2>1, OnwardFacts
  <2>3. Dealt(e)' = VA \ (at[e].todo \ {v}) /\ Dealt(e) = (VA \ at[e].todo) \cup {v}
    BY <1>2, <1>3, <2>2, DealtFacts
  <2>4. Dealt(e)' = Dealt(e)
    BY <2>3
  <2> QED  BY <2>1, <2>2, <2>4
<1>6. \A f \in Env : /\ Parent(f)' = Parent(f) /\ Live(f)' = Live(f)
                     /\ at'[f].child = at[f].child /\ Dealt(f)' = Dealt(f)
  BY <1>2, <1>5, DealtFacts DEF Parent, Live
<1>7. OnePlace' /\ SharedInv' /\ ValInv'
  <2>1. OnePlace'
    BY <1>4 DEF CInv, OnePlace
  <2>2. SharedInv'
    BY <1>4 DEF CInv, SharedInv
  <2>3. ValInv'
    BY <1>2, <1>4 DEF CInv, ValInv
  <2> QED  BY <2>1, <2>2, <2>3
<1>8. FreshInv'
  <2> SUFFICES ASSUME NEW f \in Env, fault'[f].pc = "map"
               PROVE  content'[pftemp'[f]] = content'[pt'[f][fault'[f].va].page]
    BY DEF FreshInv
  <2>1. fault[f].pc = "map" /\ fault[f].va \in VA
    BY <1>1, <1>2, FaultShape DEF NoFault
  <2>2. pt'[f][fault[f].va].page = pt[f][fault[f].va].page
    BY <1>4, <2>1
  <2> QED  BY <1>2, <2>1, <2>2 DEF CInv, FreshInv
<1>9. FullInv' /\ StackInv'
  BY <1>2, <1>4, <1>6 DEF CInv, FullInv, StackInv
<1>10. CopiedInv'
  BY <1>1, <1>4, <1>6, AtShape DEF CInv, CopiedInv
<1>11. UNCHANGED View
  BY <1>2, <1>4, <1>6 DEF View, Seen
<1> QED  BY <1>1, <1>7, <1>8, <1>9, <1>10, <1>11 DEF CInv
\* A page that somebody has is not cleared.
LEMMA Uncleared ==
    ASSUME ClearFree, NEW p \in Page,
           (\E f \in Env : pftemp'[f] = p) \/ (\E f \in Env, va \in VA : pt'[f][va].page = p)
    PROVE  content'[p] = content[p]
<1>1. content' = [q \in Page |-> IF Mapped(q)' THEN content[q] ELSE Cleared]
  BY DEF ClearFree
<1>2. Mapped(p)'
  BY DEF Mapped
<1> QED  BY <1>1, <1>2

\* An environment ends and the others keep what they have.
LEMMA DestroyCInv ==
    ASSUME MapsAreMade, CInv, NEW e \in Env, Live(e), Destroy(e)
    PROVE  CInv' /\ View' = [View EXCEPT ![e] = NoPage]
<1>1. IInv /\ IInv' /\ TypeOK
  BY DestroyStep DEF CInv, IInv
<1>2. /\ at'[e].pc = "free" /\ fault'[e].pc = "none" /\ ClearFree
      /\ \A va \in VA : pt'[e][va].page = NoPage
      /\ \A f \in Env : f # e => at'[f] = at[f] /\ fault'[f] = fault[f] /\ pftemp'[f] = pftemp[f]
      /\ \A f \in Env, va \in VA : f # e => pt'[f][va] = pt[f][va]
  BY <1>1, TypeFacts DEF Destroy, Goto, NoFault, Unmapped
<1>3. /\ ~Parent(e)' /\ ~Live(e)'
      /\ \A f \in Env : f # e => Parent(f)' = Parent(f) /\ Live(f)' = Live(f)
                                   /\ Dealt(f)' = Dealt(f)
      /\ \A f \in Env : Parent(f) => at[f].child \in Env /\ at[f].child # e
  BY <1>1, <1>2, DealtFacts, ChildFacts DEF Parent, Live
<1>4. \A f \in Env, va \in VA : f # e /\ pt[f][va].page # NoPage
        => content'[pt[f][va].page] = content[pt[f][va].page]
  <2> SUFFICES ASSUME NEW f \in Env, NEW va \in VA, f # e, pt[f][va].page # NoPage
               PROVE  content'[pt[f][va].page] = content[pt[f][va].page]
    OBVIOUS
  <2>1. pt[f][va].page \in Page /\ pt'[f][va].page = pt[f][va].page
    BY <1>1, <1>2, PtShape
  <2> QED  BY <1>2, <2>1, Uncleared
<1>5. OnePlace' /\ SharedInv'
  BY <1>2 DEF CInv, OnePlace, SharedInv
<1>6. ValInv'
  BY <1>2, <1>4 DEF CInv, ValInv
<1>7. FullInv' /\ StackInv'
  BY <1>2, <1>3 DEF CInv, FullInv, StackInv
<1>8. CopiedInv'
  <2> SUFFICES ASSUME NEW f \in Env, NEW va \in VA, Parent(f)', va \in Dealt(f)'
               PROVE  /\ pt'[at'[f].child][va].page # NoPage
                      /\ va # Stack => pt'[at'[f].child][va].page = pt'[f][va].page
    BY DEF CopiedInv
  <2>1. f # e /\ Parent(f) /\ va \in Dealt(f) /\ at'[f] = at[f]
    BY <1>2, <1>3
  <2>2. pt'[f][va] = pt[f][va] /\ pt'[at[f].child][va] = pt[at[f].child][va]
    BY <1>2, <1>3, <2>1
  <2>3. /\ pt[at[f].child][va].page # NoPage
        /\ va # Stack => pt[at[f].child][va].page = pt[f][va].page
    BY <2>1 DEF CInv, CopiedInv
  <2> QED  BY <2>1, <2>2, <2>3
<1>9. FreshInv'
  <2> SUFFICES ASSUME NEW f \in Env, fault'[f].pc = "map"
               PROVE  content'[pftemp'[f]] = content'[pt'[f][fault'[f].va].page]
    BY DEF FreshInv
  <2>1. f # e /\ fault'[f] = fault[f] /\ fault[f].pc = "map" /\ pftemp'[f] = pftemp[f]
    BY <1>2
  <2>2. /\ fault[f].va \in VA /\ pt[f][fault[f].va].page # NoPage
        /\ pftemp[f] \in Page
    BY <1>1, <2>1, FaultShape, TypeFacts DEF NoFault, IInv, FaultInv, TempInv
  <2>3. content'[pftemp[f]] = content[pftemp[f]]
    BY <1>2, <2>1, <2>2, Uncleared
  <2> QED  BY <1>2, <1>4, <2>1, <2>2, <2>3 DEF CInv, FreshInv
<1>10. View' = [View EXCEPT ![e] = NoPage]
  <2>1. Seen(e)' = NoPage
    BY <1>3 DEF Seen
  <2>2. ASSUME NEW f \in Env, f # e
        PROVE  Seen(f)' = Seen(f)
    BY <1>2, <1>3, <1>4, <2>2 DEF Seen
  <2> QED  BY <2>1, <2>2 DEF View
<1> QED  BY <1>1, <1>5, <1>6, <1>7, <1>8, <1>9, <1>10 DEF CInv

\* A fault ends the program or begins pgfault().
LEMMA FaultCInv ==
    ASSUME MapsAreMade, CInv, NEW e \in Env, NEW va \in VA, Fault(e, va)
    PROVE  CInv' /\ (View' = [View EXCEPT ![e] = NoPage] \/ UNCHANGED View)
<1>1. IInv /\ IInv' /\ TypeOK
  BY FaultStep DEF CInv, IInv
<1>2. Live(e) /\ (Parent(e) => va = Stack) /\ fault[e] = NoFault
  BY DEF Fault, MayWrite, In, Live, Parent
<1>3. CASE Destroy(e)
  BY <1>2, <1>3, DestroyCInv
<1>4. CASE /\ fault' = [fault EXCEPT ![e] = [pc |-> "alloc", va |-> va]]
           /\ UNCHANGED <<pt, pftemp, content, handler, at>>
  <2>1. /\ fault'[e].pc = "alloc" /\ fault'[e].va = va
        /\ \A f \in Env : f # e => fault'[f] = fault[f]
    BY <1>1, <1>4, TypeFacts
  <2>2. \A f \in Env : Parent(f)' = Parent(f) /\ Live(f)' = Live(f) /\ Dealt(f)' = Dealt(f)
    BY <1>4, DealtFacts DEF Parent, Live
  <2>3. OnePlace' /\ SharedInv' /\ ValInv' /\ FullInv' /\ CopiedInv'
    BY <1>4, <2>2 DEF CInv, OnePlace, SharedInv, ValInv, FullInv, CopiedInv
  <2>4. StackInv' /\ FreshInv'
    BY <1>2, <1>4, <2>1, <2>2 DEF CInv, StackInv, FreshInv
  <2>5. UNCHANGED View
    BY <1>4, <2>2 DEF View, Seen
  <2> QED  BY <1>1, <2>3, <2>4, <2>5 DEF CInv
<1> QED  BY <1>3, <1>4 DEF Fault

\* The steps of pgfault() before and after the copy is mapped.
LEMMA FaultQuietCInv ==
    ASSUME MapsAreMade, CInv, NEW e \in Env, FaultAlloc(e) \/ FaultUnmap(e)
    PROVE  CInv' /\ UNCHANGED View
<1>1. IInv /\ IInv' /\ TypeOK
  BY FaultAllocStep, FaultUnmapStep DEF CInv, IInv
<1>2. /\ UNCHANGED <<pt, content, handler, at>> /\ fault[e].pc # "none"
      /\ fault'[e].pc # "map" /\ (fault'[e].pc # "none" => fault'[e].va = fault[e].va)
      /\ \A f \in Env : f # e => fault'[f] = fault[f] /\ pftemp'[f] = pftemp[f]
  <2>1. CASE FaultAlloc(e)
    <3>1. PICK p \in FreePages : pftemp' = [pftemp EXCEPT ![e] = p]
      BY <2>1 DEF FaultAlloc
    <3> QED  BY <1>1, <2>1, <3>1, TypeFacts DEF FaultAlloc, InFault, FaultGoto
  <2>2. CASE FaultUnmap(e)
    BY <1>1, <2>2, TypeFacts DEF FaultUnmap, InFault, NoFault
  <2> QED  BY <2>1, <2>2
<1>3. \A f \in Env : Parent(f)' = Parent(f) /\ Live(f)' = Live(f) /\ Dealt(f)' = Dealt(f)
  BY <1>2, DealtFacts DEF Parent, Live
<1>4. OnePlace' /\ SharedInv' /\ ValInv' /\ FullInv' /\ CopiedInv'
  BY <1>2, <1>3 DEF CInv, OnePlace, SharedInv, ValInv, FullInv, CopiedInv
<1>5. StackInv' /\ FreshInv'
  BY <1>2, <1>3 DEF CInv, StackInv, FreshInv
<1>6. UNCHANGED View
  BY <1>2, <1>3 DEF View, Seen
<1> QED  BY <1>1, <1>4, <1>5, <1>6 DEF CInv

\* The page at PFTEMP is nobody's, so its content is nobody's.
LEMMA FaultCopyCInv ==
    ASSUME MapsAreMade, CInv, NEW e \in Env, FaultCopy(e)
    PROVE  CInv' /\ UNCHANGED View
<1>1. IInv /\ IInv' /\ TypeOK
  BY FaultCopyStep DEF CInv, IInv
<1>2. /\ UNCHANGED <<pt, pftemp, handler, at>> /\ fault[e].pc = "copy"
      /\ content' = [content EXCEPT ![pftemp[e]] = content[pt[e][fault[e].va].page]]
      /\ fault'[e].pc = "map" /\ fault'[e].va = fault[e].va
      /\ \A f \in Env : f # e => fault'[f] = fault[f]
  BY <1>1, TypeFacts DEF FaultCopy, InFault, FaultGoto
<1>3. /\ pftemp[e] \in Page /\ fault[e].va \in VA
      /\ \A f \in Env, va \in VA : pt[f][va].page # pftemp[e]
      /\ \A f \in Env : f # e => pftemp[f] # pftemp[e]
  BY <1>1, <1>2, FaultShape, TypeFacts DEF NoFault, IInv, TempInv
<1>4. /\ content'[pftemp[e]] = content[pt[e][fault[e].va].page]
      /\ \A f \in Env, va \in VA : content'[pt[f][va].page] = content[pt[f][va].page]
      /\ \A f \in Env : f # e => content'[pftemp[f]] = content[pftemp[f]]
  BY <1>1, <1>2, <1>3, TypeFacts
<1>5. \A f \in Env : Parent(f)' = Parent(f) /\ Live(f)' = Live(f) /\ Dealt(f)' = Dealt(f)
  BY <1>2, DealtFacts DEF Parent, Live
<1>6. OnePlace' /\ SharedInv' /\ ValInv' /\ FullInv' /\ CopiedInv'
  <2>1. OnePlace' /\ SharedInv'
    BY <1>2 DEF CInv, OnePlace, SharedInv
  <2>2. ValInv'
    <3> SUFFICES ASSUME NEW f \in Env, NEW va \in VA, pt'[f][va].page # NoPage
                 PROVE  content'[pt'[f][va].page] \in Val
      BY DEF ValInv
    <3>1. pt'[f][va] = pt[f][va] /\ content'[pt[f][va].page] = content[pt[f][va].page]
      BY <1>2, <1>4
    <3>2. content[pt[f][va].page] \in Val
      BY <3>1 DEF CInv, ValInv
    <3> QED  BY <3>1, <3>2
  <2>3. FullInv'
    BY <1>2, <1>5 DEF CInv, FullInv
  <2>4. CopiedInv'
    BY <1>2, <1>5 DEF CInv, CopiedInv
  <2> QED  BY <2>1, <2>2, <2>3, <2>4
<1>7. StackInv'
  BY <1>2, <1>5 DEF CInv, StackInv
<1>8. FreshInv'
  <2> SUFFICES ASSUME NEW f \in Env, fault'[f].pc = "map"
               PROVE  content'[pftemp'[f]] = content'[pt'[f][fault'[f].va].page]
    BY DEF FreshInv
  <2>1. CASE f = e
    BY ZenonT(60), <1>2, <1>3, <1>4, <2>1
  <2>2. CASE f # e
    <3>1. fault[f].pc = "map" /\ fault[f].va \in VA /\ fault'[f] = fault[f]
      BY <1>1, <1>2, <2>2, FaultShape DEF NoFault
    <3>2. content[pftemp[f]] = content[pt[f][fault[f].va].page]
      BY <3>1 DEF CInv, FreshInv
    <3>3. /\ content'[pftemp[f]] = content[pftemp[f]]
          /\ content'[pt[f][fault[f].va].page] = content[pt[f][fault[f].va].page]
      BY <1>4, <2>2, <3>1
    <3> QED  BY <1>2, <3>1, <3>2, <3>3
  <2> QED  BY <2>1, <2>2
<1>9. UNCHANGED View
  <2>1. ASSUME NEW f \in Env PROVE Seen(f)' = Seen(f)
    <3>1. Live(f)' = Live(f)
      BY <1>5
    <3>2. \A va \in VA : /\ pt'[f][va].page = pt[f][va].page
                        /\ content'[pt[f][va].page] = content[pt[f][va].page]
      BY <1>2, <1>4
    <3> QED  BY <3>1, <3>2 DEF Seen
  <2> QED  BY <2>1 DEF View
<1> QED  BY <1>1, <1>6, <1>7, <1>8, <1>9 DEF CInv
\* The copy takes the page's place, and looks the same.
LEMMA FaultMapCInv ==
    ASSUME MapsAreMade, CInv, NEW e \in Env, FaultMap(e)
    PROVE  CInv' /\ UNCHANGED View
<1>1. IInv /\ IInv' /\ TypeOK
  BY FaultMapStep DEF CInv, IInv
<1>2. /\ UNCHANGED <<pftemp, handler, at>> /\ fault[e].pc = "map" /\ ClearFree
      /\ fault'[e].pc = "unmap" /\ fault'[e].va = fault[e].va
      /\ \A f \in Env : f # e => fault'[f] = fault[f]
  BY <1>1, TypeFacts DEF FaultMap, InFault, FaultGoto
<1>3. PICK v \in VA : v = fault[e].va /\ Kind[v] = "rw" /\ Live(e) /\ (Parent(e) => v = Stack)
  BY <1>1, <1>2, FaultShape DEF NoFault, IInv, FaultInv, CInv, StackInv
<1>4. PICK p \in Page : /\ p = pftemp[e] /\ p # NoPage
                        /\ \A f \in Env, va \in VA : pt[f][va].page # p
  BY <1>1, <1>2, TypeFacts DEF IInv, TempInv
<1>5. /\ pt'[e][v].page = p
      /\ \A f \in Env, va \in VA : f # e \/ va # v => pt'[f][va] = pt[f][va]
  <2>1. {"W"} \in SUBSET Flag /\ pt' = PageMap(pt, e, v, p, {"W"})
    BY <1>3, <1>4 DEF Flag, FaultMap
  <2> QED  BY <1>1, <2>1, PageMapFacts
\* What is mapped or about to be keeps its content.
<1>6. /\ \A f \in Env, va \in VA : pt'[f][va].page # NoPage
            => content'[pt'[f][va].page] = content[pt'[f][va].page]
      /\ \A f \in Env : pftemp[f] # NoPage => content'[pftemp[f]] = content[pftemp[f]]
  <2>1. \A f \in Env, va \in VA : pt'[f][va].page \in Page \cup {NoPage}
    BY <1>1, TypeFacts, PtShape DEF IInv, TypeOK
  <2>2. ASSUME NEW f \in Env, NEW va \in VA, pt'[f][va].page # NoPage
        PROVE  content'[pt'[f][va].page] = content[pt'[f][va].page]
    <3>1. PICK q \in Page : q = pt'[f][va].page
      BY <2>1, <2>2
    <3> QED  BY <1>2, <3>1, Uncleared
  <2>3. ASSUME NEW f \in Env, pftemp[f] # NoPage
        PROVE  content'[pftemp[f]] = content[pftemp[f]]
    <3>1. PICK q \in Page : q = pftemp[f]
      BY <1>1, <2>3, TypeFacts
    <3>2. pftemp'[f] = q
      BY <1>2, <3>1
    <3> QED  BY <1>2, <3>1, <3>2, Uncleared
  <2> QED  BY <2>2, <2>3
\* The copy is up to date.
<1>7. content[p] = content[pt[e][v].page]
  BY <1>2, <1>3, <1>4 DEF CInv, FreshInv
<1>8. \A f \in Env, va \in VA :
         /\ pt[f][va].page # NoPage => /\ pt'[f][va].page # NoPage
                                       /\ content'[pt'[f][va].page] = content[pt[f][va].page]
         /\ pt'[f][va].page # NoPage => pt[f][va].page # NoPage
  <2>1. pt[e][v].page # NoPage
    BY <1>3 DEF CInv, FullInv
  <2> QED  BY <1>4, <1>5, <1>6, <1>7, <2>1
<1>9. \A f \in Env : /\ Parent(f)' = Parent(f) /\ Live(f)' = Live(f)
                     /\ at'[f].child = at[f].child /\ Dealt(f)' = Dealt(f)
  BY <1>2, DealtFacts DEF Parent, Live
<1>10. OnePlace'
  <2> SUFFICES ASSUME NEW f1 \in Env, NEW f2 \in Env, NEW w1 \in VA, NEW w2 \in VA,
                      pt'[f1][w1].page # NoPage, pt'[f1][w1].page = pt'[f2][w2].page, w1 # w2
               PROVE  FALSE
    BY DEF OnePlace
  <2>1. ~(f1 = e /\ w1 = v) /\ ~(f2 = e /\ w2 = v)
    BY <1>4, <1>5
  <2>2. pt[f1][w1].page # NoPage /\ pt[f1][w1].page = pt[f2][w2].page
    BY <1>5, <2>1
  <2>3. OnePlace
    BY DEF CInv
  <2> QED  BY <2>2, <2>3, Zenon DEF OnePlace
<1>11. SharedInv'
  <2> SUFFICES ASSUME NEW f1 \in Env, NEW f2 \in Env, NEW w \in VA, Kind[w] = "share",
                      pt'[f1][w].page # NoPage, pt'[f2][w].page # NoPage
               PROVE  pt'[f1][w].page = pt'[f2][w].page
    BY DEF SharedInv
  <2>1. pt'[f1][w] = pt[f1][w] /\ pt'[f2][w] = pt[f2][w]
    BY <1>3, <1>5
  <2> QED  BY <2>1 DEF CInv, SharedInv
<1>12. ValInv'
  BY <1>8 DEF CInv, ValInv
<1>13. FullInv' /\ StackInv'
  BY <1>2, <1>8, <1>9 DEF CInv, FullInv, StackInv
<1>14. CopiedInv'
  <2> SUFFICES ASSUME NEW f \in Env, NEW va \in VA, Parent(f)', va \in Dealt(f)'
               PROVE  /\ pt'[at'[f].child][va].page # NoPage
                      /\ va # Stack => pt'[at'[f].child][va].page = pt'[f][va].page
    BY DEF CopiedInv
  <2>1. Parent(f) /\ va \in Dealt(f)
    BY <1>9
  <2>2. PICK k \in Env : k = at[f].child /\ k # e
    BY <1>1, <1>3, <2>1, ChildFacts
  <2>3. pt'[k][va] = pt[k][va] /\ (va # Stack => pt'[f][va] = pt[f][va])
    BY <1>3, <1>5, <2>1, <2>2
  <2> QED  BY <1>9, <2>1, <2>2, <2>3 DEF CInv, CopiedInv
<1>15. FreshInv'
  <2> SUFFICES ASSUME NEW f \in Env, fault'[f].pc = "map"
               PROVE  content'[pftemp'[f]] = content'[pt'[f][fault'[f].va].page]
    BY DEF FreshInv
  <2>1. f # e /\ fault'[f] = fault[f] /\ fault[f].pc = "map" /\ pftemp'[f] = pftemp[f]
    BY <1>2
  <2>2. /\ fault[f].va \in VA /\ pt[f][fault[f].va].page # NoPage /\ pftemp[f] # NoPage
    BY <1>1, <2>1, FaultShape DEF NoFault, IInv, FaultInv, TempInv
  <2> QED  BY <1>6, <1>8, <2>1, <2>2 DEF CInv, FreshInv
<1>16. UNCHANGED View
  <2>1. ASSUME NEW f \in Env
        PROVE  Seen(f)' = Seen(f)
    BY <1>8, <1>9 DEF Seen
  <2> QED  BY <2>1 DEF View
<1> QED
  BY <1>1, <1>10, <1>11, <1>12, <1>13, <1>14, <1>15, <1>16 DEF CInv

\* A write is seen by who shares the page on purpose, and by nobody else.
LEMMA WriteCInv ==
    ASSUME MapsAreMade, CInv, NEW e \in Env, NEW va \in VA, NEW v \in Val, Write(e, va, v)
    PROVE  /\ CInv'
           /\ View[e] # NoPage
           /\ View' = [x \in Env |->
                         IF View[x] = NoPage
                              \/ (x # e /\ va \notin {w \in VA : Kind[w] \in {"share", "share_ro"}})
                           THEN View[x]
                           ELSE [View[x] EXCEPT ![va] = v]]
<1>1. IInv /\ IInv' /\ TypeOK
  BY WriteStep DEF CInv, IInv
<1>2. /\ UNCHANGED <<pt, pftemp, handler, at, fault>> /\ Live(e) /\ fault[e] = NoFault
      /\ Kind[va] \in {"rw", "share"} /\ "W" \in pt[e][va].flags
  BY DEF Write, MayWrite, In, Live
<1>3. PICK p \in Page : p = pt[e][va].page
  BY <1>1, <1>2, PtShape DEF CInv, FullInv
<1>4. /\ content'[p] = v
      /\ \A q : q # p => content'[q] = content[q]
  BY <1>1, <1>3, TypeFacts DEF Write
<1>5. p # NoPage /\ NoPage \notin [VA -> Val]
  BY ForkAssumption
\* Who else has the page.
<1>6. \A f \in Env, w \in VA : pt[f][w].page = p => w = va
  BY <1>3, <1>5 DEF CInv, OnePlace
<1>7. \A f \in Env : Live(f) /\ f # e =>
         pt[f][va].page = p <=> Kind[va] = "share"
  <2> SUFFICES ASSUME NEW f \in Env, Live(f), f # e
               PROVE  pt[f][va].page = p <=> Kind[va] = "share"
    OBVIOUS
  <2>1. CASE Kind[va] = "share"
    BY <1>2, <1>3, <1>5, <2>1 DEF CInv, FullInv, SharedInv
  <2>2. CASE Kind[va] = "rw"
    <3>1. "SHARE" \notin pt[e][va].flags
      <4>1. pt[e][va].flags \in Allowed[Kind[va]]
        BY <1>1, <1>3, <1>5 DEF IInv, MappingsInv
      <4> QED  BY <2>2, <4>1 DEF Allowed
    <3>2. ASSUME pt[f][va].page = p
          PROVE  FALSE
      <4>1. at[e].pc = "self" /\ at[e].child = f
        BY <1>1, <1>2, <1>3, <3>1, <3>2 DEF IInv, NoWriteSharing
      <4> QED  BY <1>1, <4>1, ChildFacts DEF Parent
    <3> QED  BY <2>2, <3>2
  <2> QED  BY <1>2, <2>1, <2>2
<1>8. \A f \in Env : Parent(f)' = Parent(f) /\ Live(f)' = Live(f) /\ Dealt(f)' = Dealt(f)
  BY <1>2, DealtFacts DEF Parent, Live
<1>9. OnePlace' /\ SharedInv' /\ FullInv' /\ CopiedInv' /\ StackInv'
  BY <1>2, <1>8 DEF CInv, OnePlace, SharedInv, FullInv, CopiedInv, StackInv
<1>10. ValInv'
  BY <1>2, <1>4 DEF CInv, ValInv
<1>11. FreshInv'
  <2> SUFFICES ASSUME NEW f \in Env, fault'[f].pc = "map"
               PROVE  content'[pftemp'[f]] = content'[pt'[f][fault'[f].va].page]
    BY DEF FreshInv
  <2>1. /\ f # e /\ fault[f].pc = "map" /\ fault[f].va \in VA /\ Live(f)
        /\ Kind[fault[f].va] = "rw"
    BY <1>1, <1>2, FaultShape DEF NoFault, IInv, FaultInv
  <2>2. pftemp[f] # p
    BY <1>1, <1>3, <2>1 DEF IInv, TempInv
  <2>3. pt[f][fault[f].va].page # p
    BY <1>6, <1>7, <2>1
  <2> QED  BY <1>2, <1>4, <2>1, <2>2, <2>3 DEF CInv, FreshInv
<1>12. CInv'
  BY <1>1, <1>9, <1>10, <1>11 DEF CInv
<1>13. \A f \in Env : Live(f) => /\ Seen(f) = [w \in VA |-> content[pt[f][w].page]]
                                 /\ Seen(f)' = [w \in VA |-> content'[pt[f][w].page]]
                                 /\ Seen(f) # NoPage
  <2> SUFFICES ASSUME NEW f \in Env, Live(f)
               PROVE  /\ Seen(f) = [w \in VA |-> content[pt[f][w].page]]
                      /\ Seen(f)' = [w \in VA |-> content'[pt[f][w].page]]
                      /\ Seen(f) # NoPage
    OBVIOUS
  <2>1. \A w \in VA : pt[f][w].page # NoPage
    BY DEF CInv, FullInv
  <2>2. Seen(f) = [w \in VA |-> content[pt[f][w].page]]
    BY <2>1 DEF Seen
  <2>3. Seen(f)' = [w \in VA |-> content'[pt[f][w].page]]
    BY <1>2, <1>8, <2>1 DEF Seen
  <2>4. Seen(f) \in [VA -> Val]
    BY <2>1, <2>2 DEF CInv, ValInv
  <2> QED  BY <1>5, <2>2, <2>3, <2>4
<1>14. \A f \in Env : ~Live(f) => Seen(f) = NoPage /\ Seen(f)' = NoPage
  BY <1>8 DEF Seen
<1>15. ASSUME NEW f \in Env, Live(f)
       PROVE  Seen(f)' = IF f # e /\ Kind[va] # "share" THEN Seen(f)
                         ELSE [Seen(f) EXCEPT ![va] = v]
  <2>1. CASE f # e /\ Kind[va] # "share"
    <3>1. \A w \in VA : pt[f][w].page # p
      BY <1>6, <1>7, <1>15, <2>1
    <3>2. \A w \in VA : content'[pt[f][w].page] = content[pt[f][w].page]
      BY <1>4, <3>1
    <3> QED  BY <1>13, <1>15, <2>1, <3>2
  <2>2. CASE f = e \/ Kind[va] = "share"
    <3>1. pt[f][va].page = p
      BY <1>3, <1>7, <1>15, <2>2
    <3>2. \A w \in VA : content'[pt[f][w].page] = IF w = va THEN v ELSE content[pt[f][w].page]
      BY <1>4, <1>6, <3>1
    <3> QED  BY <1>13, <1>15, <2>2, <3>2
  <2> QED  BY <2>1, <2>2
<1>16. va \notin {w \in VA : Kind[w] \in {"share", "share_ro"}} <=> Kind[va] # "share"
  BY <1>2
<1> QED  BY <1>2, <1>12, <1>13, <1>14, <1>15, <1>16 DEF View

-----------------------------------------------------------------------------
(* The theorem.                                                            *)

\* Nobody but Root sees anything at first.
LEMMA CopyInit == MapsAreMade /\ Init => Copy!Init
<1> SUFFICES ASSUME MapsAreMade, Init PROVE Copy!Init
  OBVIOUS
<1>1. CInv
  BY InitCInv
<1>2. Root \in Env /\ Live(Root) /\ \A e \in Env : e # Root => ~Live(e)
  BY ForkAssumption DEF Init, Live, User
<1>3. Seen(Root) \in [VA -> Val] /\ \A e \in Env : e # Root => Seen(e) = NoPage
  BY <1>1, <1>2, SeenFull DEF CInv, FullInv, ValInv
<1>4. View = [x \in Env |-> IF x = Root THEN Seen(Root) ELSE NoPage]
  BY <1>3 DEF View
<1> QED  BY <1>2, <1>3, <1>4 DEF Copy!Init, View, Seen

\* Every step is one of the copying fork, or is not seen.
LEMMA CopyStep == MapsAreMade /\ CInv /\ [Next]_vars => CInv' /\ [Copy!Next]_View
<1> SUFFICES ASSUME MapsAreMade, CInv, [Next]_vars PROVE CInv' /\ [Copy!Next]_View
  OBVIOUS
<1>1. CASE UNCHANGED vars
  <2>1. \A f \in Env : Parent(f)' = Parent(f) /\ Live(f)' = Live(f) /\ Dealt(f)' = Dealt(f)
    BY <1>1, DealtFacts DEF vars, Parent, Live
  <2>2. IInv'
    BY <1>1, StepIInv DEF CInv
  <2>3. CInv' /\ UNCHANGED View
    BY <1>1, <2>1, <2>2
    DEF vars, CInv, OnePlace, SharedInv, FullInv, CopiedInv, StackInv, ValInv, FreshInv, View,
        Seen
  <2> QED  BY <2>3
<1>2. CASE Next
  <2> PICK e \in Env :
        \/ Die(e) \/ ForkBegin(e) \/ Look(e) \/ DupChild(e) \/ DupSelf(e) \/ ChildHandler(e)
        \/ Start(e) \/ FaultAlloc(e) \/ FaultCopy(e) \/ FaultMap(e) \/ FaultUnmap(e)
        \/ \E c \in Env : Exofork(e, c)
        \/ \E va \in VA : Fault(e, va) \/ \E v \in Val : Write(e, va, v)
    BY <1>2, Zenon DEF Next
  <2> DEFINE Ends == View' = [View EXCEPT ![e] = NoPage]
  <2>1. CASE Die(e)
    <3>1. CInv' /\ Ends
      BY <2>1, DestroyCInv DEF Die
    <3>2. Ends => Copy!Next
      BY Zenon DEF Copy!Next, Copy!Exit, View, Seen
    <3> QED  BY <3>1, <3>2
  <2>2. CASE ForkBegin(e)     BY <2>2, ForkBeginCInv
  <2>3. CASE Look(e)          BY <2>3, LookCInv
  <2>4. CASE DupChild(e)      BY <2>4, DupChildCInv
  <2>5. CASE DupSelf(e)       BY <2>5, DupSelfCInv
  <2>6. CASE ChildHandler(e)  BY <2>6, ChildHandlerCInv
  <2>7. CASE Start(e)
    <3>1. CInv'
      BY <2>7, StartCInv
    <3>2. PICK c \in Env, v \in Val :
            /\ View[e] # NoPage /\ View[c] = NoPage
            /\ View' = [View EXCEPT ![c] = [View[e] EXCEPT ![Stack] = v]]
      BY <2>7, StartCInv
    <3>3. Copy!Fork(e, c)
      BY <3>2, Zenon DEF Copy!Fork, View, Seen
    <3> QED  BY <3>1, <3>3, Zenon DEF Copy!Next
  <2>8. CASE FaultAlloc(e) \/ FaultUnmap(e)
    BY <2>8, FaultQuietCInv
  <2>9. CASE FaultCopy(e)     BY <2>9, FaultCopyCInv
  <2>10. CASE FaultMap(e)     BY <2>10, FaultMapCInv
  <2>11. CASE \E c \in Env : Exofork(e, c)
    BY <2>11, ExoforkCInv
  <2>12. CASE \E va \in VA : Fault(e, va)
    <3>1. CInv' /\ (Ends \/ UNCHANGED View)
      BY <2>12, FaultCInv
    <3>2. Ends => Copy!Next
      BY Zenon DEF Copy!Next, Copy!Exit, View, Seen
    <3> QED  BY <3>1, <3>2
  <2>13. CASE \E va \in VA, v \in Val : Write(e, va, v)
    <3> PICK va \in VA, v \in Val : Write(e, va, v)
      BY <2>13
    <3>1. /\ CInv' /\ View[e] # NoPage
          /\ View' = [x \in Env |->
                        IF View[x] = NoPage
                             \/ (x # e /\ va \notin {w \in VA : Kind[w] \in {"share", "share_ro"}})
                          THEN View[x]
                          ELSE [View[x] EXCEPT ![va] = v]]
      BY WriteCInv
    <3>2. Copy!Write(e, va, v)
      BY <3>1, Zenon DEF Copy!Write, View, Seen
    <3> QED  BY <3>1, <3>2, Zenon DEF Copy!Next
  <2> QED
    BY <2>1, <2>2, <2>3, <2>4, <2>5, <2>6, <2>7, <2>8, <2>9, <2>10, <2>11, <2>12, <2>13, Zenon
<1> QED  BY <1>1, <1>2

\* fork() is a copy of the memory, whatever the environments write meanwhile (lib/fork.c),
\* if no page table is lacking in a child and no page is both shared and read-only.
THEOREM ForkIsCopy == ASSUME MapsAreMade PROVE Spec => IsCopy
<1>1. Init => CInv /\ Copy!Init
  BY InitCInv, CopyInit
<1>2. CInv /\ [Next]_vars => CInv' /\ [Copy!Next]_View
  BY CopyStep
<1> QED  BY <1>1, <1>2, PTL DEF Spec, IsCopy, Copy!Spec, View, Seen
=============================================================================
