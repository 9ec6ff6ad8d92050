----------------------------- MODULE PipeProofs -----------------------------
(***************************************************************************)
(* Proofs about Pipe for any finite set of environments, any size of the   *)
(* descriptor table, of the ring and of the requests.  Three layers:       *)
(*                                                                         *)
(*   RingInv   the positions, the bytes between them, and who is about to  *)
(*             move them; it needs nothing of the descriptors' pages;      *)
(*   DescInv   what is mapped of a descriptor, environment by environment, *)
(*             and how far fork() has got; it implies DataOutlivesFds;     *)
(*   EndInv    a count that _pipeisclosed has read is still right when it  *)
(*             is used, and nobody compares counts that a fork has in hand.*)
(*             This is where one CPU and the discipline are needed.        *)
(*                                                                         *)
(* With RingInv the ring holds the bytes written and not read, on any CPUs *)
(* and for any use: PipeBytes.  With EndInv an end is only said to be gone *)
(* when it is: Pipe implements PipeSpec.                                   *)
(***************************************************************************)
EXTENDS Pipe, FiniteSetTheorems, SequenceTheorems, WellFoundedInduction, TLAPS

Op == {"read", "write", "isclosed"}
DupType == [pc : {"dup"}, from : Slot, to : Slot]
AtType ==
    [pc : {"unborn", "dead", "user"}]
    \cup [pc : {"new"}, ends : SUBSET End]
    \cup [pc : {"close"}, slot : Slot, then : {User} \cup DupType]
    \cup [pc : {"dup", "dupfd"}, from : Slot, to : Slot]
    \cup [pc : {"fork"}, child : Proc, todo : SUBSET (0..(2 * NFD - 1))]
    \cup [pc : {"loop", "check"}, op : Op, fd : Slot, n : 0..Request]
    \cup [pc : {"move"}, op : {"write"}, fd : Slot, n : 0..Request]
    \cup [pc : {"move"}, op : {"read"}, fd : Slot, n : 0..Request, byte : 0..MaxBytes]
    \cup [pc : {"compare"}, op : Op, fd : Slot, n : 0..Request, ref : Nat, quiet : BOOLEAN]

Types ==
    /\ fd \in [Proc -> [Slot -> End \cup {"none"}]]
    /\ data \in [Proc -> SUBSET Slot]
    /\ buf \in [0..(PIPEBUFSIZ - 1) -> 0..MaxBytes]
    /\ rpos \in Nat /\ wpos \in Nat
    /\ at \in [Proc -> AtType]
    /\ cur \in [CPU -> Proc \cup {Idle}]
    /\ out \in Seq(Nat) /\ told \in SUBSET End /\ eof \in BOOLEAN

\* A call keeps its descriptor open.
HoldsEnd ==
    \A p \in Proc : Calling(p) =>
       /\ fd[p][at[p].fd] \in End
       /\ at[p].op = "read" => fd[p][at[p].fd] = "r"
       /\ at[p].op = "write" => fd[p][at[p].fd] = "w"

\* One reader and one writer.
Alone ==
    \A p, q \in Proc : Calling(p) /\ Calling(q) /\ at[p].op = at[q].op
                         /\ at[p].op # "isclosed" => p = q

\* The bytes written and not read are in the ring.
Ring ==
    /\ rpos <= wpos /\ wpos <= rpos + PIPEBUFSIZ /\ wpos <= MaxBytes
    /\ \A k \in rpos..(wpos - 1) : buf[k % PIPEBUFSIZ] = k
    /\ Len(out) = rpos

\* A byte that is being moved, and room for those to come.
Moving ==
    \A p \in Proc : at[p].pc = "move" =>
       /\ at[p].n < Request
       /\ at[p].op = "read" => rpos < wpos /\ at[p].byte = rpos
       /\ at[p].op = "write" => wpos < rpos + PIPEBUFSIZ /\ buf[wpos % PIPEBUFSIZ] = wpos

Room ==
    \A p \in Proc : Calling(p) /\ at[p].op = "write" =>
       wpos + Request <= MaxBytes + at[p].n

\* Only the loops of read and write get to "loop".
Loops == \A p \in Proc : at[p].pc = "loop" => at[p].op # "isclosed"

RingInv == Types /\ HoldsEnd /\ Alone /\ Ring /\ Moving /\ Room /\ Loops

\* A descriptor that is open has its data page, but in a child that is not complete.
Backed ==
    \A p \in Proc : at[p].pc # "new" => \A i \in Slot : fd[p][i] # "none" => i \in data[p]
Bare ==
    \A p \in Proc : at[p].pc \in {"unborn", "dead"} =>
       data[p] = {} /\ \A i \in Slot : fd[p][i] = "none"
Dupped ==
    \A p \in Proc : at[p].pc = "dupfd" => (fd[p][at[p].from] # "none" => at[p].to \in data[p])

\* The child has what fork() has got to.
ForkingAt(p) ==
    /\ at[at[p].child].pc = "new"
    /\ \A q \in Proc : at[q].pc = "fork" /\ at[q].child = at[p].child => q = p
    /\ \A i \in Slot : /\ i \notin at[p].todo => fd[at[p].child][i] = fd[p][i]
                       /\ NFD + i \notin at[p].todo /\ i \in data[p] => i \in data[at[p].child]
                       /\ fd[p][i] # "none" => fd[p][i] \in at[at[p].child].ends
    /\ at[p].todo \subseteq Pages(p)
Forking == \A p \in Proc : at[p].pc = "fork" => ForkingAt(p)


\* ... which are descriptors of the ends that are being copied.
Marked ==
    \A q \in Proc : at[q].pc = "new" =>
       \A i \in Slot : fd[q][i] # "none" => fd[q][i] \in at[q].ends

DescInv == Backed /\ Bare /\ Dupped /\ Forking /\ Marked

\* Nobody is in a call on an end that is being copied.
Apart == \A p \in Proc : Calling(p) => ~Copying(fd[p][at[p].fd])

\* The count is right as long as nobody else has run.
Counted ==
    \A p \in Proc : Quiet(p) => at[p].ref = Refs(fd[p][at[p].fd])

EndInv == Apart /\ Counted /\ NoFalseEof

-----------------------------------------------------------------------------
(* Arithmetic of the ring, counts, and the types of places.                *)

\* Two positions of one turn of the ring are different places (the index of lib/pipe.c
\* is the position modulo PIPEBUFSIZ).
LEMMA Places ==
  ASSUME NEW a \in Nat, NEW b \in Nat, a < b, b < a + PIPEBUFSIZ
  PROVE  a % PIPEBUFSIZ # b % PIPEBUFSIZ
<1> DEFINE S == PIPEBUFSIZ
           q1 == a \div S
           q2 == b \div S
<1>1. S \in Nat /\ S > 0
  BY PipeAssumption
<1> HIDE DEF S
<1>2. /\ q1 \in Int /\ a = S * q1 + (a % S)
      /\ q2 \in Int /\ b = S * q2 + (b % S)
  BY <1>1
<1> SUFFICES ASSUME a % S = b % S PROVE FALSE
  BY DEF S
<1> HIDE DEF q1, q2
<1>3. a % S \in Int
  BY <1>1
<1>4. b - a = S * q2 - S * q1
  BY <1>1, <1>2, <1>3
<1>5. S * q2 - S * q1 = S * (q2 - q1)
  BY <1>1, <1>2
<1>6. PICK k \in Int : b - a = S * k
  BY <1>2, <1>4, <1>5
<1>7. k <= 0 => S * k <= 0
  BY <1>1
<1>8. k >= 1 => S * k >= S
  BY <1>1
<1>9. b - a > 0 /\ b - a < S
  BY PipeAssumption DEF S
<1>10. S * k \in Int
  BY <1>1
<1> QED  BY <1>1, <1>6, <1>7, <1>8, <1>9, <1>10

\* Every position has a place.
LEMMA Index ==
  ASSUME NEW a \in Nat
  PROVE  a % PIPEBUFSIZ \in 0..(PIPEBUFSIZ - 1)
BY PipeAssumption

\* There are finitely many descriptors, so that counts are numbers (pageref() returns
\* an int).
LEMMA CountsAreNumbers ==
  ASSUME IsFiniteSet(Proc)
  PROVE  /\ \A S \in SUBSET (Proc \X Slot) : IsFiniteSet(S) /\ Cardinality(S) \in Nat
         /\ DataRefs \in Nat /\ \A e \in End : Refs(e) \in Nat
<1>1. IsFiniteSet(Slot)
  BY FS_Interval, PipeAssumption DEF Slot
<1>2. IsFiniteSet(Proc \X Slot)
  BY <1>1, FS_Product
<1>3. \A S \in SUBSET (Proc \X Slot) : IsFiniteSet(S) /\ Cardinality(S) \in Nat
  BY <1>2, FS_Subset, FS_CardinalityType
<1> QED  BY <1>3 DEF DataRefs, Refs

\* What a place has, by its name.
LEMMA AtShape ==
  ASSUME Types, NEW p \in Proc
  PROVE  /\ at[p].pc = "close" => /\ at[p].slot \in Slot /\ at[p].then \in AtType
                                  /\ at[p].then.pc \in {"user", "dup"}
         /\ at[p].pc \in {"dup", "dupfd"} => at[p].from \in Slot /\ at[p].to \in Slot
         /\ at[p].pc = "fork" => at[p].child \in Proc /\ at[p].todo \in SUBSET (0..(2 * NFD - 1))
         /\ at[p].pc = "new" => at[p].ends \in SUBSET End
         /\ Calling(p) => at[p].op \in Op /\ at[p].fd \in Slot /\ at[p].n \in 0..Request
         /\ at[p].pc = "move" => at[p].op \in {"read", "write"}
         /\ at[p].pc = "move" /\ at[p].op = "read" => at[p].byte \in 0..MaxBytes
         /\ at[p].pc = "compare" => at[p].ref \in Nat /\ at[p].quiet \in BOOLEAN
<1>1. at[p] \in AtType
  BY DEF Types
<1>2. CASE at[p].pc = "close"
  <2>1. at[p] \in [pc : {"close"}, slot : Slot, then : {User} \cup DupType]
    BY <1>1, <1>2 DEF AtType
  <2>2. User \in AtType /\ User.pc = "user"
    BY DEF User, AtType
  <2>3. \A d \in DupType : d \in AtType /\ d.pc = "dup"
    BY DEF DupType, AtType
  <2> QED  BY <1>2, <2>1, <2>2, <2>3 DEF Calling
<1>3. CASE at[p].pc \in {"dup", "dupfd"}
  BY <1>1, <1>3 DEF AtType, Calling
<1>4. CASE at[p].pc = "fork"
  BY <1>1, <1>4 DEF AtType, Calling
<1>5. CASE Calling(p)
  BY <1>1, <1>5 DEF AtType, Calling, Op
<1>6. CASE at[p].pc = "new"
  BY <1>1, <1>6 DEF AtType, Calling
<1> QED  BY <1>2, <1>3, <1>4, <1>5, <1>6 DEF Calling

\* The places that the steps go to.
LEMMA PlaceTypes ==
  /\ User \in AtType /\ User.pc = "user"
  /\ [pc |-> "dead"] \in AtType /\ [pc |-> "unborn"] \in AtType
  /\ \A s \in SUBSET End : [pc |-> "new", ends |-> s] \in AtType
  /\ \A i \in Slot : [pc |-> "close", slot |-> i, then |-> User] \in AtType
  /\ \A i, j \in Slot :
        /\ [pc |-> "dup", from |-> i, to |-> j] \in AtType
        /\ [pc |-> "dupfd", from |-> i, to |-> j] \in AtType
        /\ \A k \in Slot : [pc |-> "close", slot |-> k,
                             then |-> [pc |-> "dup", from |-> i, to |-> j]] \in AtType
  /\ \A c \in Proc, s \in SUBSET (0..(2 * NFD - 1)) :
        [pc |-> "fork", child |-> c, todo |-> s] \in AtType
  /\ \A o \in Op, i \in Slot, k \in 0..Request :
        /\ [pc |-> "loop", op |-> o, fd |-> i, n |-> k] \in AtType
        /\ [pc |-> "check", op |-> o, fd |-> i, n |-> k] \in AtType
        /\ \A r \in Nat, b \in BOOLEAN :
              [pc |-> "compare", op |-> o, fd |-> i, n |-> k, ref |-> r, quiet |-> b] \in AtType
  /\ \A i \in Slot, k \in 0..Request :
        /\ [pc |-> "move", op |-> "write", fd |-> i, n |-> k] \in AtType
        /\ \A b \in 0..MaxBytes :
              [pc |-> "move", op |-> "read", fd |-> i, n |-> k, byte |-> b] \in AtType
<1>1. User \in AtType /\ User.pc = "user"
  BY DEF AtType, User
<1>2. /\ [pc |-> "dead"] \in AtType /\ [pc |-> "unborn"] \in AtType
      /\ \A s \in SUBSET End : [pc |-> "new", ends |-> s] \in AtType
  BY DEF AtType
<1>3. \A i, j \in Slot : [pc |-> "dup", from |-> i, to |-> j] \in AtType \cap DupType
                         /\ [pc |-> "dupfd", from |-> i, to |-> j] \in AtType
  BY DEF AtType, DupType
<1>4. \A i \in Slot, t \in {User} \cup DupType :
         [pc |-> "close", slot |-> i, then |-> t] \in AtType
  BY DEF AtType
<1>5. \A c \in Proc, s \in SUBSET (0..(2 * NFD - 1)) :
         [pc |-> "fork", child |-> c, todo |-> s] \in AtType
  BY DEF AtType
<1>6. \A o \in Op, i \in Slot, k \in 0..Request :
         /\ [pc |-> "loop", op |-> o, fd |-> i, n |-> k] \in AtType
         /\ [pc |-> "check", op |-> o, fd |-> i, n |-> k] \in AtType
  BY DEF AtType
<1>7. \A o \in Op, i \in Slot, k \in 0..Request, r \in Nat, b \in BOOLEAN :
         [pc |-> "compare", op |-> o, fd |-> i, n |-> k, ref |-> r, quiet |-> b] \in AtType
  BY DEF AtType
<1>8. \A i \in Slot, k \in 0..Request :
         [pc |-> "move", op |-> "write", fd |-> i, n |-> k] \in AtType
  BY DEF AtType
<1>9. \A i \in Slot, k \in 0..Request, b \in 0..MaxBytes :
         [pc |-> "move", op |-> "read", fd |-> i, n |-> k, byte |-> b] \in AtType
  BY DEF AtType
<1> QED  BY <1>1, <1>2, <1>3, <1>4, <1>5, <1>6, <1>7, <1>8, <1>9

\* An environment goes on, and no other.
LEMMA GotoMoves ==
  ASSUME Types, NEW p \in Proc, NEW l \in AtType, Goto(p, l)
  PROVE  /\ at' \in [Proc -> AtType] /\ at'[p] = l
         /\ \A q \in Proc : q # p => at'[q] = at[q]
BY DEF Types, Goto

-----------------------------------------------------------------------------
(* The ring.                                                               *)

\* A step that moves no position and enters no call.
LEMMA DescriptorSteps ==
  ASSUME RingInv, Types', UNCHANGED <<buf, rpos, wpos, out>>,
         \A x \in Proc : at'[x].pc \in {"loop", "move", "check", "compare"} =>
            at'[x] = at[x] /\ fd'[x][at[x].fd] = fd[x][at[x].fd]
  PROVE  RingInv'
<1> USE DEF Calling
<1>1. HoldsEnd'
  BY DEF RingInv, HoldsEnd
<1>2. Alone'
  BY DEF RingInv, Alone
<1>3. Ring'
  BY DEF RingInv, Ring
<1>4. Moving'
  BY DEF RingInv, Moving
<1>5. Room'
  BY DEF RingInv, Room
<1>6. Loops'
  BY DEF RingInv, Loops
<1> QED  BY <1>1, <1>2, <1>3, <1>4, <1>5, <1>6 DEF RingInv

\* A call goes on with its descriptor and what it has done, and does not copy a byte.
LEMMA CallSteps ==
  ASSUME RingInv, Types', UNCHANGED <<buf, rpos, wpos, out, fd>>,
         NEW p \in Proc, Calling(p), at'[p].pc \in {"loop", "check", "compare"},
         at'[p].op = at[p].op, at'[p].fd = at[p].fd, at'[p].n = at[p].n,
         at'[p].pc = "loop" => at[p].op # "isclosed",
         \A x \in Proc : x # p => at'[x] = at[x]
  PROVE  RingInv'
<1> USE DEF Calling
<1>1. HoldsEnd'
  BY DEF RingInv, HoldsEnd
<1>2. Alone'
  BY DEF RingInv, Alone
<1>3. Ring'
  BY DEF RingInv, Ring
<1>4. Moving'
  BY DEF RingInv, Moving
<1>5. Room'
  BY DEF RingInv, Room
<1>6. Loops'
  BY DEF RingInv, Loops
<1> QED  BY <1>1, <1>2, <1>3, <1>4, <1>5, <1>6 DEF RingInv

LEMMA CloseRing ==
  ASSUME RingInv, NEW p \in Proc, NEW i \in Slot, Close(p, i)
  PROVE  RingInv'
<1>1. at[p].pc = "user" /\ at' \in [Proc -> AtType] /\ at'[p].pc = "close"
      /\ \A q \in Proc : q # p => at'[q] = at[q]
  BY GotoMoves, PlaceTypes DEF Close, CloseFd, In, RingInv
<1>2. fd' \in [Proc -> [Slot -> End \cup {"none"}]] /\ \A q \in Proc : q # p => fd'[q] = fd[q]
  BY DEF Close, CloseFd, UnmapFd, RingInv, Types
<1>3. Types' /\ UNCHANGED <<buf, rpos, wpos, out>>
  BY <1>1, <1>2 DEF Close, CloseFd, UnmapFd, pipevars, seen, RingInv, Types
<1> QED  BY <1>1, <1>2, <1>3, DescriptorSteps

LEMMA CloseDataRing ==
  ASSUME RingInv, NEW p \in Proc, CloseData(p)
  PROVE  RingInv'
<1>1. /\ at[p].pc = "close" /\ at[p].slot \in Slot /\ at[p].then \in AtType
      /\ at[p].then.pc \in {"user", "dup"}
  BY AtShape DEF CloseData, In, RingInv
<1>2. /\ at' \in [Proc -> AtType] /\ at'[p] = at[p].then
      /\ \A q \in Proc : q # p => at'[q] = at[q]
  BY <1>1, GotoMoves DEF CloseData, RingInv
<1>3. fd' \in [Proc -> [Slot -> End \cup {"none"}]] /\ \A q \in Proc : q # p => fd'[q] = fd[q]
  BY <1>1 DEF CloseData, RingInv, Types
<1>4. data' \in [Proc -> SUBSET Slot]
  BY <1>1 DEF CloseData, RingInv, Types
<1>5. Types' /\ UNCHANGED <<buf, rpos, wpos, out>>
  BY <1>2, <1>3, <1>4 DEF CloseData, pipevars, seen, RingInv, Types
<1> QED  BY <1>1, <1>2, <1>3, <1>5, DescriptorSteps

LEMMA DupRing ==
  ASSUME RingInv, NEW p \in Proc, NEW i \in Slot, NEW j \in Slot, Dup(p, i, j)
  PROVE  RingInv'
<1>1. PICK l \in AtType : Goto(p, l) /\ l.pc \in {"close", "dup"}
  BY PlaceTypes DEF Dup, CloseFd
<1>2. /\ at' \in [Proc -> AtType] /\ at'[p].pc \in {"close", "dup"}
      /\ \A q \in Proc : q # p => at'[q] = at[q]
  BY <1>1, GotoMoves DEF RingInv
<1>3. fd' = [fd EXCEPT ![p][j] = "none"] \/ fd' = fd
  BY DEF Dup, CloseFd, UnmapFd
<1>5. fd' \in [Proc -> [Slot -> End \cup {"none"}]] /\ \A q \in Proc : q # p => fd'[q] = fd[q]
  <2>1. CASE fd' = fd
    BY <2>1 DEF RingInv, Types
  <2>2. CASE fd' = [fd EXCEPT ![p][j] = "none"]
    BY <2>2 DEF RingInv, Types
  <2> QED  BY <1>3, <2>1, <2>2
<1>4. Types' /\ UNCHANGED <<buf, rpos, wpos, out>>
  BY <1>2, <1>5 DEF Dup, CloseFd, UnmapFd, pipevars, seen, RingInv, Types
<1> QED  BY <1>2, <1>4, <1>5, DescriptorSteps

LEMMA DupDataRing ==
  ASSUME RingInv, NEW p \in Proc, DupData(p)
  PROVE  RingInv'
<1>1. at[p].pc = "dup" /\ at[p].from \in Slot /\ at[p].to \in Slot
  BY AtShape DEF DupData, In, RingInv
<1>2. at[p] \in [pc : {"dup", "dupfd"}, from : Slot, to : Slot]
  BY <1>1 DEF RingInv, Types, AtType
<1>6. [at[p] EXCEPT !.pc = "dupfd"] = [pc |-> "dupfd", from |-> at[p].from, to |-> at[p].to]
  BY <1>2
<1>7. PICK l \in AtType : Goto(p, l) /\ l.pc = "dupfd"
  BY <1>1, <1>6, PlaceTypes DEF DupData
<1>3. /\ at' \in [Proc -> AtType] /\ at'[p].pc = "dupfd"
      /\ \A q \in Proc : q # p => at'[q] = at[q]
  BY <1>7, GotoMoves DEF RingInv
<1>4. data' \in [Proc -> SUBSET Slot]
  BY <1>1 DEF DupData, RingInv, Types
<1>5. Types' /\ UNCHANGED <<buf, rpos, wpos, out, fd>>
  BY <1>3, <1>4 DEF DupData, pipevars, seen, RingInv, Types
<1> QED  BY <1>3, <1>5, DescriptorSteps

LEMMA DupFdRing ==
  ASSUME RingInv, NEW p \in Proc, DupFd(p)
  PROVE  RingInv'
<1>1. at[p].pc = "dupfd" /\ at[p].from \in Slot /\ at[p].to \in Slot
  BY AtShape DEF DupFd, In, RingInv
<1>2. /\ at' \in [Proc -> AtType] /\ at'[p].pc = "user"
      /\ \A q \in Proc : q # p => at'[q] = at[q]
  BY GotoMoves, PlaceTypes DEF DupFd, RingInv
<1>3. fd' \in [Proc -> [Slot -> End \cup {"none"}]] /\ \A q \in Proc : q # p => fd'[q] = fd[q]
  BY <1>1 DEF DupFd, RingInv, Types
<1>4. Types' /\ UNCHANGED <<buf, rpos, wpos, out>>
  BY <1>2, <1>3 DEF DupFd, pipevars, seen, RingInv, Types
<1> QED  BY <1>2, <1>3, <1>4, DescriptorSteps

LEMMA PagesAreNumbers ==
  ASSUME Types, NEW p \in Proc
  PROVE  Pages(p) \in SUBSET (0..(2 * NFD - 1))
BY PipeAssumption DEF Pages, Types, Slot

LEMMA ForkRing ==
  ASSUME RingInv, NEW p \in Proc, NEW q \in Proc, Fork(p, q)
  PROVE  RingInv'
<1>1. at[p].pc = "user" /\ at[q].pc = "unborn" /\ p # q
  BY DEF Fork, In
<1>2. /\ [pc |-> "fork", child |-> q, todo |-> Pages(p)] \in AtType
      /\ [pc |-> "new", ends |-> Ends(p)] \in AtType
  <2>1. Ends(p) \in SUBSET End
    BY DEF Ends
  <2> QED  BY <2>1, PlaceTypes, PagesAreNumbers DEF RingInv
<1>3. /\ at' \in [Proc -> AtType] /\ at'[p].pc = "fork" /\ at'[q].pc = "new"
      /\ \A x \in Proc : x \notin {p, q} => at'[x] = at[x]
  BY <1>1, <1>2 DEF Fork, RingInv, Types
<1>4. Types' /\ UNCHANGED <<buf, rpos, wpos, out, fd>>
  BY <1>3 DEF Fork, pipevars, seen, RingInv, Types
<1> QED  BY <1>3, <1>4, DescriptorSteps

\* The least page is one of them, and Duppage maps a page that the parent has.
LEMMA LeastIsOne ==
  ASSUME NEW S \in SUBSET Nat, S # {}
  PROVE  Min(S) \in S /\ \A k \in S : Min(S) <= k
<1> DEFINE R == {ss \in Nat \X Nat : ss[1] < ss[2]}
<1>1. IsWellFoundedOn(R, Nat)
  BY NatLessThanWellFounded DEF OpToRel
<1>2. S \subseteq Nat
  OBVIOUS
<1>3. \A m, n \in Nat : m < n => <<m, n>> \in R
  OBVIOUS
<1> HIDE DEF R
<1>4. \E n \in S : \A m \in S : ~(<<m, n>> \in R)
  BY <1>1, <1>2, WFMin, Zenon
<1>5. PICK n \in S : \A m \in S : ~(<<m, n>> \in R)
  BY <1>4
<1>6. \A m \in S : ~(m < n)
  BY <1>2, <1>3, <1>5
<1>7. \A m \in S : n <= m
  BY <1>2, <1>6
<1> QED  BY <1>7 DEF Min

LEMMA DuppageFacts ==
  ASSUME Types, NEW p \in Proc, Duppage(p)
  PROVE  /\ at[p].pc = "fork" /\ at[p].child \in Proc
         /\ Min(at[p].todo) \in at[p].todo
         /\ Min(at[p].todo) \in 0..(2 * NFD - 1)
         /\ Min(at[p].todo) < NFD => Min(at[p].todo) \in Slot
         /\ Min(at[p].todo) >= NFD => Min(at[p].todo) - NFD \in Slot
         /\ at' \in [Proc -> AtType]
         /\ at'[p] = [pc |-> "fork", child |-> at[p].child, todo |-> at[p].todo \ {Min(at[p].todo)}]
         /\ at'[p].pc = "fork" /\ at'[p].child = at[p].child
         /\ \A q \in Proc : q # p => at'[q] = at[q]
<1>1. /\ at[p].pc = "fork" /\ at[p].child \in Proc /\ at[p].todo # {}
      /\ at[p].todo \in SUBSET (0..(2 * NFD - 1))
  BY AtShape DEF Duppage, In
<1>2. Min(at[p].todo) \in at[p].todo
  BY <1>1, LeastIsOne, PipeAssumption
<1>3. at[p] \in [pc : {"fork"}, child : Proc, todo : SUBSET (0..(2 * NFD - 1))]
  BY <1>1 DEF Types, AtType
<1>4. \A t : [at[p] EXCEPT !.todo = t] = [pc |-> "fork", child |-> at[p].child, todo |-> t]
  BY <1>3
<1>5. [pc |-> "fork", child |-> at[p].child, todo |-> at[p].todo \ {Min(at[p].todo)}] \in AtType
  BY <1>1, PlaceTypes
<1>6. Goto(p, [pc |-> "fork", child |-> at[p].child, todo |-> at[p].todo \ {Min(at[p].todo)}])
  BY <1>4 DEF Duppage
<1>7. /\ at' \in [Proc -> AtType]
      /\ at'[p] = [pc |-> "fork", child |-> at[p].child, todo |-> at[p].todo \ {Min(at[p].todo)}]
      /\ \A q \in Proc : q # p => at'[q] = at[q]
  BY <1>5, <1>6 DEF Types, Goto
<1> QED  BY <1>1, <1>2, <1>7, PipeAssumption DEF Slot

\* What Duppage does to the child.
LEMMA DuppageMaps ==
  ASSUME Types, NEW p \in Proc, Duppage(p)
  PROVE  LET q == at[p].child
             k == Min(at[p].todo)
         IN  /\ fd' \in [Proc -> [Slot -> End \cup {"none"}]] /\ data' \in [Proc -> SUBSET Slot]
             /\ \A x \in Proc : x # q => fd'[x] = fd[x] /\ data'[x] = data[x]
             /\ \A i \in Slot : /\ i # k => fd'[q][i] = fd[q][i]
                                /\ i = k => fd'[q][i] = fd[p][i]
             /\ k >= NFD => data'[q] = data[q] \cup {k - NFD}
             /\ k < NFD => data'[q] = data[q]
<1> DEFINE q == at[p].child
           k == Min(at[p].todo)
<1>1. /\ q \in Proc /\ (k < NFD => k \in Slot) /\ (k >= NFD => k - NFD \in Slot)
      /\ k \in 0..(2 * NFD - 1)
  BY DuppageFacts
<1>2. fd' = IF k < NFD THEN [fd EXCEPT ![q][k] = fd[p][k]] ELSE fd
  BY DEF Duppage
<1>3. data' = IF k >= NFD THEN [data EXCEPT ![q] = @ \cup {k - NFD}] ELSE data
  BY DEF Duppage
<1>4. fd \in [Proc -> [Slot -> End \cup {"none"}]] /\ data \in [Proc -> SUBSET Slot]
  BY DEF Types
<1>5. \A i \in Slot : i < NFD
  BY PipeAssumption DEF Slot
<1> HIDE DEF q, k
<1>6. CASE k < NFD
  <2>1. fd' = [fd EXCEPT ![q][k] = fd[p][k]] /\ data' = data
    BY <1>1, <1>2, <1>3, <1>6, PipeAssumption
  <2>2. fd[p][k] \in End \cup {"none"}
    BY <1>1, <1>4, <1>6
  <2>3. fd' \in [Proc -> [Slot -> End \cup {"none"}]]
    BY <1>1, <1>4, <1>6, <2>1, <2>2
  <2>4. /\ \A x \in Proc : x # q => fd'[x] = fd[x]
        /\ \A i \in Slot : i # k => fd'[q][i] = fd[q][i]
        /\ fd'[q][k] = fd[p][k]
    BY <1>1, <1>4, <1>6, <2>1
  <2> QED  BY <1>1, <1>4, <1>6, <2>1, <2>3, <2>4, PipeAssumption DEF q, k
<1>7. CASE k >= NFD
  <2>1. fd' = fd /\ data' = [data EXCEPT ![q] = @ \cup {k - NFD}]
    BY <1>1, <1>2, <1>3, <1>7, PipeAssumption
  <2>2. /\ data' \in [Proc -> SUBSET Slot] /\ data'[q] = data[q] \cup {k - NFD}
        /\ \A x \in Proc : x # q => data'[x] = data[x]
    BY <1>1, <1>4, <1>7, <2>1
  <2>3. k \notin Slot
    BY <1>1, <1>5, <1>7, PipeAssumption
  <2> QED  BY <1>1, <1>4, <1>7, <2>1, <2>2, <2>3, PipeAssumption DEF q, k
<1> QED  BY <1>1, <1>6, <1>7, PipeAssumption

LEMMA DuppageRing ==
  ASSUME RingInv, NEW p \in Proc, Duppage(p),
         at[at[p].child].pc = "new"
  PROVE  RingInv'
<1>1. Types'
  BY DuppageFacts, DuppageMaps DEF Duppage, RingInv, Types, pipevars, seen
<1>5. Types
  BY DEF RingInv
<1>2. \A x \in Proc : at'[x].pc \in {"loop", "move", "check", "compare"} =>
         at'[x] = at[x] /\ x # at[p].child
  <2>1. at'[p].pc = "fork" /\ \A q \in Proc : q # p => at'[q] = at[q]
    BY <1>5, DuppageFacts
  <2>2. at[p].pc = "fork"
    BY <1>5, DuppageFacts
  <2> QED  BY <2>1, <2>2
<1>3. \A x \in Proc : x # at[p].child => fd'[x] = fd[x]
  BY DuppageMaps DEF RingInv
<1>4. UNCHANGED <<buf, rpos, wpos, out>>
  BY DEF Duppage, pipevars, seen
<1> QED  BY <1>1, <1>2, <1>3, <1>4, DescriptorSteps

LEMMA ForkDoneRing ==
  ASSUME RingInv, NEW p \in Proc, ForkDone(p)
  PROVE  RingInv'
<1>1. at[p].pc = "fork" /\ at[p].child \in Proc
  BY AtShape DEF ForkDone, In, RingInv
<1>2. /\ at' \in [Proc -> AtType]
      /\ \A x \in Proc : at'[x].pc = "user" \/ (at'[x] = at[x] /\ x # p /\ x # at[p].child)
  <2>1. at \in [Proc -> AtType] /\ User \in AtType /\ User.pc = "user"
    BY PlaceTypes DEF RingInv, Types
  <2>2. at' = [at EXCEPT ![p] = User, ![at[p].child] = User]
    BY DEF ForkDone
  <2>3. /\ at'[p] = User /\ at'[at[p].child] = User
        /\ \A x \in Proc : x # p /\ x # at[p].child => at'[x] = at[x]
    BY <1>1, <2>1, <2>2
  <2>4. at' \in [Proc -> AtType]
    BY <1>1, <2>1, <2>2
  <2>5. ASSUME NEW x \in Proc
        PROVE  at'[x].pc = "user" \/ (at'[x] = at[x] /\ x # p /\ x # at[p].child)
    <3>1. CASE x = at[p].child \/ x = p
      <4>1. at'[x] = User
        BY <2>3, <3>1
      <4> QED  BY <2>1, <4>1
    <3>2. CASE ~(x = at[p].child \/ x = p)
      BY <2>3, <3>2
    <3> QED  BY <3>1, <3>2
  <2> QED  BY <2>4, <2>5
<1>3. Types' /\ UNCHANGED <<buf, rpos, wpos, out, fd>>
  BY <1>2 DEF ForkDone, pipevars, seen, RingInv, Types
<1> QED  BY <1>2, <1>3, DescriptorSteps

LEMMA KillRing ==
  ASSUME RingInv, NEW p \in Proc, Kill(p)
  PROVE  RingInv'
<1>1. /\ at' \in [Proc -> AtType] /\ at'[p].pc = "dead"
      /\ \A q \in Proc : q # p => at'[q] = at[q]
  BY GotoMoves, PlaceTypes DEF Kill, RingInv
<1>2. fd' \in [Proc -> [Slot -> End \cup {"none"}]] /\ \A q \in Proc : q # p => fd'[q] = fd[q]
  BY DEF Kill, RingInv, Types
<1>3. data' \in [Proc -> SUBSET Slot] /\ cur' \in [CPU -> Proc \cup {Idle}]
  BY DEF Kill, RingInv, Types
<1>4. Types' /\ UNCHANGED <<buf, rpos, wpos, out>>
  BY <1>1, <1>2, <1>3 DEF Kill, pipevars, seen, RingInv, Types
<1> QED  BY <1>1, <1>2, <1>4, DescriptorSteps

LEMMA CallRing ==
  ASSUME RingInv, NEW p \in Proc, NEW op \in Op, NEW i \in Slot, Call(p, op, i)
  PROVE  RingInv'
<1>1. PICK l \in AtType : /\ Goto(p, l) /\ l.op = op /\ l.fd = i /\ l.n = 0
                          /\ l.pc \in {"loop", "check"}
                          /\ l.pc = "loop" => op # "isclosed"
  <2> DEFINE l == [pc |-> IF op = "isclosed" THEN "check" ELSE "loop",
                   op |-> op, fd |-> i, n |-> 0]
  <2>1. Goto(p, l)
    BY DEF Call
  <2>2. 0 \in 0..Request
    BY PipeAssumption
  <2>3. CASE op = "isclosed"
    BY <2>1, <2>2, <2>3, PlaceTypes
  <2>4. CASE op # "isclosed"
    BY <2>1, <2>2, <2>4, PlaceTypes
  <2> QED  BY <2>3, <2>4
<1>2. /\ at' \in [Proc -> AtType] /\ at'[p] = l
      /\ \A q \in Proc : q # p => at'[q] = at[q]
  BY <1>1, GotoMoves DEF RingInv
<1>3. /\ fd[p][i] \in End
      /\ op = "read" => fd[p][i] = "r"
      /\ op = "write" => fd[p][i] = "w" /\ wpos + Request <= MaxBytes
      /\ op # "isclosed" => ~Busy(op)
  BY DEF Call, RingInv, Types, End
<1>4. Types' /\ UNCHANGED <<buf, rpos, wpos, out, fd>>
  BY <1>2 DEF Call, pipevars, seen, RingInv, Types
<1>5. HoldsEnd' /\ Loops' /\ Moving'
  BY <1>1, <1>2, <1>3, <1>4 DEF RingInv, HoldsEnd, Loops, Moving, Calling
<1>6. Alone'
  BY <1>1, <1>2, <1>3 DEF RingInv, Alone, Calling, Busy
<1>7. Ring'
  BY <1>4 DEF RingInv, Ring
<1>8. Room'
  <2> SUFFICES ASSUME NEW q \in Proc, Calling(q)', at'[q].op = "write"
               PROVE  wpos + Request <= MaxBytes + at'[q].n
    BY <1>4 DEF Room
  <2>1. CASE q = p
    BY <1>1, <1>2, <1>3, <2>1, PipeAssumption
  <2>2. CASE q # p
    BY <1>2, <2>2 DEF RingInv, Room, Calling
  <2> QED  BY <2>1, <2>2
<1> QED  BY <1>4, <1>5, <1>6, <1>7, <1>8 DEF RingInv

LEMMA TakeByteRing ==
  ASSUME RingInv, NEW p \in Proc, TakeByte(p)
  PROVE  RingInv'
<1>1. /\ at[p].pc = "loop" /\ at[p].op = "read" /\ at[p].n < Request /\ rpos # wpos
      /\ at[p].fd \in Slot /\ at[p].n \in 0..Request
  BY AtShape DEF TakeByte, In, Empty, RingInv, Calling
<1>2. rpos < wpos /\ wpos <= MaxBytes /\ rpos \in Nat /\ wpos \in Nat
  BY <1>1 DEF RingInv, Ring, Types
<1>3. buf[rpos % PIPEBUFSIZ] = rpos
  BY <1>2 DEF RingInv, Ring
<1>4. PICK l \in AtType : /\ Goto(p, l) /\ l.pc = "move" /\ l.op = "read" /\ l.fd = at[p].fd
                          /\ l.n = at[p].n /\ l.byte = rpos
  <2>1. rpos \in 0..MaxBytes
    BY <1>2, PipeAssumption
  <2>2. [pc |-> "move", op |-> "read", fd |-> at[p].fd, n |-> at[p].n, byte |-> rpos] \in AtType
    BY <1>1, <2>1, PlaceTypes
  <2> QED  BY <1>3, <2>2 DEF TakeByte
<1>5. /\ at' \in [Proc -> AtType] /\ at'[p] = l
      /\ \A q \in Proc : q # p => at'[q] = at[q]
  BY <1>4, GotoMoves DEF RingInv
<1>6. Types' /\ UNCHANGED <<buf, rpos, wpos, out, fd>>
  BY <1>5 DEF TakeByte, pipevars, seen, RingInv, Types
<1>7. HoldsEnd' /\ Loops' /\ Alone'
  BY <1>1, <1>4, <1>5, <1>6 DEF RingInv, HoldsEnd, Loops, Alone, Calling
<1>8. Ring' /\ Room'
  BY <1>1, <1>4, <1>5, <1>6 DEF RingInv, Ring, Room, Calling
<1>9. Moving'
  BY <1>1, <1>2, <1>4, <1>5, <1>6 DEF RingInv, Moving
<1> QED  BY <1>6, <1>7, <1>8, <1>9 DEF RingInv

LEMMA StoreByteRing ==
  ASSUME RingInv, NEW p \in Proc, StoreByte(p)
  PROVE  RingInv'
<1>1. /\ at[p].pc = "loop" /\ at[p].op = "write" /\ at[p].n < Request
      /\ at[p].fd \in Slot /\ at[p].n \in 0..Request
  BY AtShape DEF StoreByte, In, RingInv, Calling
<1>2. /\ rpos <= wpos /\ wpos < rpos + PIPEBUFSIZ /\ wpos <= MaxBytes
      /\ rpos \in Nat /\ wpos \in Nat
  BY PipeAssumption DEF StoreByte, Full, RingInv, Ring, Types
<1>3. at[p] = [pc |-> "loop", op |-> "write", fd |-> at[p].fd, n |-> at[p].n]
  <2>1. at[p] \in [pc : {"loop", "check"}, op : Op, fd : Slot, n : 0..Request]
    BY <1>1 DEF RingInv, Types, AtType
  <2> QED  BY <1>1, <2>1
<1>4. PICK l \in AtType : /\ Goto(p, l) /\ l.pc = "move" /\ l.op = "write" /\ l.fd = at[p].fd
                          /\ l.n = at[p].n
  <2>1. [pc |-> "move", op |-> "write", fd |-> at[p].fd, n |-> at[p].n] \in AtType
    BY <1>1, PlaceTypes
  <2>2. [at[p] EXCEPT !.pc = "move"]
           = [pc |-> "move", op |-> "write", fd |-> at[p].fd, n |-> at[p].n]
    BY <1>3
  <2> QED  BY <2>1, <2>2 DEF StoreByte
<1>5. /\ at' \in [Proc -> AtType] /\ at'[p] = l
      /\ \A q \in Proc : q # p => at'[q] = at[q]
  BY <1>4, GotoMoves DEF RingInv
<1>6. wpos % PIPEBUFSIZ \in 0..(PIPEBUFSIZ - 1)
  BY <1>2, Index
<1>7. /\ buf' \in [0..(PIPEBUFSIZ - 1) -> 0..MaxBytes] /\ buf'[wpos % PIPEBUFSIZ] = wpos
      /\ \A j \in 0..(PIPEBUFSIZ - 1) : j # wpos % PIPEBUFSIZ => buf'[j] = buf[j]
  <2>1. wpos \in 0..MaxBytes
    BY <1>2, PipeAssumption
  <2>2. buf \in [0..(PIPEBUFSIZ - 1) -> 0..MaxBytes]
    BY DEF RingInv, Types
  <2> DEFINE w == wpos % PIPEBUFSIZ
  <2>3. buf' = [buf EXCEPT ![w] = wpos]
    BY DEF StoreByte
  <2> HIDE DEF w
  <2> QED  BY <1>6, <2>1, <2>2, <2>3 DEF w
<1>8. Types' /\ UNCHANGED <<rpos, wpos, out, fd>>
  BY <1>5, <1>7 DEF StoreByte, seen, RingInv, Types
<1>9. HoldsEnd' /\ Loops' /\ Alone'
  BY <1>1, <1>4, <1>5, <1>8 DEF RingInv, HoldsEnd, Loops, Alone, Calling
<1>10. Room'
  BY <1>1, <1>4, <1>5, <1>8 DEF RingInv, Room, Calling
<1>11. Ring'
  <2> SUFFICES ASSUME NEW k \in rpos..(wpos - 1)
               PROVE  buf'[k % PIPEBUFSIZ] = k
    BY <1>8 DEF RingInv, Ring
  <2>1. k \in Nat /\ k < wpos /\ wpos < k + PIPEBUFSIZ
    BY <1>2, PipeAssumption
  <2>2. k % PIPEBUFSIZ # wpos % PIPEBUFSIZ
    BY <1>2, <2>1, Places
  <2>3. k % PIPEBUFSIZ \in 0..(PIPEBUFSIZ - 1)
    BY <2>1, Index
  <2>4. buf[k % PIPEBUFSIZ] = k
    BY DEF RingInv, Ring
  <2> QED  BY <1>7, <2>2, <2>3, <2>4
<1>12. Moving'
  <2> SUFFICES ASSUME NEW q \in Proc, at'[q].pc = "move"
               PROVE  /\ at'[q].n < Request
                      /\ at'[q].op = "read" => rpos < wpos /\ at'[q].byte = rpos
                      /\ at'[q].op = "write" => /\ wpos < rpos + PIPEBUFSIZ
                                                /\ buf'[wpos % PIPEBUFSIZ] = wpos
    BY <1>8 DEF Moving
  <2>1. CASE q = p
    BY <1>1, <1>2, <1>4, <1>5, <1>7, <2>1
  <2>2. CASE q # p
    <3>1. at'[q] = at[q] /\ at[q].op # "write"
      BY <1>1, <1>5, <2>2 DEF RingInv, Alone, Calling
    <3> QED  BY <3>1 DEF RingInv, Moving
  <2> QED  BY <2>1, <2>2
<1> QED  BY <1>8, <1>9, <1>10, <1>11, <1>12 DEF RingInv

LEMMA AdvanceRing ==
  ASSUME RingInv, NEW p \in Proc, Advance(p)
  PROVE  RingInv'
<1>1. /\ at[p].pc = "move" /\ at[p].op \in {"read", "write"}
      /\ at[p].fd \in Slot /\ at[p].n \in 0..Request /\ at[p].n < Request
  BY AtShape DEF Advance, In, RingInv, Calling, Moving
<1>2. rpos \in Nat /\ wpos \in Nat /\ out \in Seq(Nat)
  BY DEF RingInv, Types
<1>3. PICK l \in AtType : /\ Goto(p, l) /\ l.pc = "loop" /\ l.op = at[p].op /\ l.fd = at[p].fd
                          /\ l.n = at[p].n + 1
  <2>1. at[p].n + 1 \in 0..Request /\ at[p].op \in Op
    BY <1>1, PipeAssumption DEF Op
  <2>2. [pc |-> "loop", op |-> at[p].op, fd |-> at[p].fd, n |-> at[p].n + 1] \in AtType
    BY <1>1, <2>1, PlaceTypes
  <2> QED  BY <2>2 DEF Advance
<1>4. /\ at' \in [Proc -> AtType] /\ at'[p] = l
      /\ \A q \in Proc : q # p => at'[q] = at[q]
  BY <1>3, GotoMoves DEF RingInv
<1>5. UNCHANGED <<fd, buf>>
  BY DEF Advance
<1>6. CASE at[p].op = "read"
  <2>1. rpos' = rpos + 1 /\ wpos' = wpos /\ out' = Append(out, at[p].byte)
    BY <1>6 DEF Advance
  <2>2. rpos < wpos /\ at[p].byte = rpos
    BY <1>1, <1>6 DEF RingInv, Moving
  <2>3. out' \in Seq(Nat) /\ Len(out') = Len(out) + 1
    BY <1>2, <2>1, <2>2
  <2>4. Types'
    BY <1>2, <1>4, <2>1, <2>3 DEF Advance, RingInv, Types
  <2>5. HoldsEnd' /\ Loops' /\ Alone'
    BY <1>1, <1>3, <1>4, <1>5, <1>6 DEF RingInv, HoldsEnd, Loops, Alone, Calling
  <2>6. Ring'
    <3>1. /\ rpos + 1 <= wpos /\ wpos <= rpos + 1 + PIPEBUFSIZ /\ wpos <= MaxBytes
          /\ \A k \in (rpos + 1)..(wpos - 1) : buf[k % PIPEBUFSIZ] = k
          /\ Len(out) = rpos
      BY <1>2, <2>2, PipeAssumption DEF RingInv, Ring
    <3> QED  BY <1>5, <2>1, <2>3, <3>1 DEF Ring
  <2>7. Moving'
    <3> SUFFICES ASSUME NEW q \in Proc, at'[q].pc = "move"
                 PROVE  /\ at'[q].n < Request
                        /\ at'[q].op = "read" => rpos' < wpos' /\ at'[q].byte = rpos'
                        /\ at'[q].op = "write" => /\ wpos' < rpos' + PIPEBUFSIZ
                                                  /\ buf'[wpos' % PIPEBUFSIZ] = wpos'
      BY DEF Moving
    <3>1. q # p /\ at'[q] = at[q]
      BY <1>3, <1>4
    <3>2. at[q].op # "read"
      BY <1>1, <1>6, <3>1 DEF RingInv, Alone, Calling
    <3>3. /\ at[q].n < Request
          /\ at[q].op = "write" => wpos < rpos + PIPEBUFSIZ /\ buf[wpos % PIPEBUFSIZ] = wpos
      BY <3>1 DEF RingInv, Moving
    <3> QED  BY <1>2, <1>5, <2>1, <3>1, <3>2, <3>3, PipeAssumption
  <2>8. Room'
    <3>1. \A q \in Proc : Calling(q)' /\ at'[q].op = "write" => q # p
      BY <1>3, <1>4, <1>6
    <3> QED  BY <1>4, <2>1, <3>1 DEF RingInv, Room, Calling
  <2> QED  BY <2>4, <2>5, <2>6, <2>7, <2>8 DEF RingInv
<1>7. CASE at[p].op = "write"
  <2>1. wpos' = wpos + 1 /\ rpos' = rpos /\ out' = out
    BY <1>7 DEF Advance
  <2>2. wpos < rpos + PIPEBUFSIZ /\ buf[wpos % PIPEBUFSIZ] = wpos
    BY <1>1, <1>7 DEF RingInv, Moving
  <2>3. wpos + Request <= MaxBytes + at[p].n
    BY <1>1, <1>7 DEF RingInv, Room, Calling
  <2>4. Types'
    BY <1>2, <1>4, <2>1 DEF Advance, RingInv, Types
  <2>5. HoldsEnd' /\ Loops' /\ Alone'
    BY <1>1, <1>3, <1>4, <1>5, <1>7 DEF RingInv, HoldsEnd, Loops, Alone, Calling
  <2>6. Ring'
    <3>1. rpos <= wpos + 1 /\ wpos + 1 <= rpos + PIPEBUFSIZ /\ wpos + 1 <= MaxBytes
      BY <1>1, <1>2, <2>2, <2>3, PipeAssumption DEF RingInv, Ring
    <3>2. ASSUME NEW k \in rpos..((wpos + 1) - 1)
          PROVE  buf[k % PIPEBUFSIZ] = k
      <4>1. CASE k = wpos
        BY <2>2, <4>1
      <4>2. CASE k # wpos
        <5>1. k \in rpos..(wpos - 1)
          BY <1>2, <4>2
        <5> QED  BY <5>1 DEF RingInv, Ring
      <4> QED  BY <4>1, <4>2
    <3>3. Len(out) = rpos
      BY DEF RingInv, Ring
    <3> QED  BY <1>5, <2>1, <3>1, <3>2, <3>3 DEF Ring
  <2>7. Moving'
    <3> SUFFICES ASSUME NEW q \in Proc, at'[q].pc = "move"
                 PROVE  /\ at'[q].n < Request
                        /\ at'[q].op = "read" => rpos' < wpos' /\ at'[q].byte = rpos'
                        /\ at'[q].op = "write" => /\ wpos' < rpos' + PIPEBUFSIZ
                                                  /\ buf'[wpos' % PIPEBUFSIZ] = wpos'
      BY DEF Moving
    <3>1. q # p /\ at'[q] = at[q]
      BY <1>3, <1>4
    <3>2. at[q].op # "write"
      BY <1>1, <1>7, <3>1 DEF RingInv, Alone, Calling
    <3>3. at[q].n < Request /\ (at[q].op = "read" => rpos < wpos /\ at[q].byte = rpos)
      BY <3>1 DEF RingInv, Moving
    <3> QED  BY <1>2, <1>5, <2>1, <3>1, <3>2, <3>3
  <2>8. Room'
    <3> SUFFICES ASSUME NEW q \in Proc, Calling(q)', at'[q].op = "write"
                 PROVE  wpos' + Request <= MaxBytes + at'[q].n
      BY DEF Room
    <3>1. q = p
      BY <1>1, <1>4, <1>7 DEF RingInv, Alone, Calling
    <3> QED  BY <1>1, <1>2, <1>3, <1>4, <2>1, <2>3, <3>1, PipeAssumption
  <2> QED  BY <2>4, <2>5, <2>6, <2>7, <2>8 DEF RingInv
<1> QED  BY <1>1, <1>6, <1>7

LEMMA ReturnBytesRing ==
  ASSUME RingInv, NEW p \in Proc, ReturnBytes(p)
  PROVE  RingInv'
<1>1. /\ at' \in [Proc -> AtType] /\ at'[p].pc = "user"
      /\ \A q \in Proc : q # p => at'[q] = at[q]
  BY GotoMoves, PlaceTypes DEF ReturnBytes, RingInv
<1>2. Types' /\ UNCHANGED <<buf, rpos, wpos, out, fd>>
  BY <1>1 DEF ReturnBytes, pipevars, seen, RingInv, Types
<1> QED  BY <1>1, <1>2, DescriptorSteps

LEMMA WaitRing ==
  ASSUME RingInv, NEW p \in Proc, Wait(p)
  PROVE  RingInv'
<1>1. at[p].pc = "loop" /\ at[p].op \in Op /\ at[p].fd \in Slot /\ at[p].n \in 0..Request
  BY AtShape DEF Wait, In, RingInv, Calling
<1>2. [at[p] EXCEPT !.pc = "check"]
         = [pc |-> "check", op |-> at[p].op, fd |-> at[p].fd, n |-> at[p].n]
  <2>1. at[p] \in [pc : {"loop", "check"}, op : Op, fd : Slot, n : 0..Request]
    BY <1>1 DEF RingInv, Types, AtType
  <2> QED  BY <2>1
<1>3. PICK l \in AtType : /\ Goto(p, l) /\ l.pc = "check" /\ l.op = at[p].op
                          /\ l.fd = at[p].fd /\ l.n = at[p].n
  BY <1>1, <1>2, PlaceTypes DEF Wait
<1>4. /\ at' \in [Proc -> AtType] /\ at'[p] = l
      /\ \A q \in Proc : q # p => at'[q] = at[q]
  BY <1>3, GotoMoves DEF RingInv
<1>5. Types' /\ UNCHANGED <<buf, rpos, wpos, out, fd>>
  BY <1>4 DEF Wait, pipevars, seen, RingInv, Types
<1>6. Calling(p)
  BY <1>1 DEF Calling
<1> QED  BY <1>3, <1>4, <1>5, <1>6, CallSteps

LEMMA CheckFdRing ==
  ASSUME IsFiniteSet(Proc), RingInv, NEW p \in Proc, CheckFd(p)
  PROVE  RingInv'
<1>1. at[p].pc = "check" /\ at[p].op \in Op /\ at[p].fd \in Slot /\ at[p].n \in 0..Request
  BY AtShape DEF CheckFd, In, RingInv, Calling
<1>2. Refs(fd[p][at[p].fd]) \in Nat
  BY <1>1, CountsAreNumbers DEF RingInv, HoldsEnd, Calling
<1>3. PICK l \in AtType : /\ Goto(p, l) /\ l.pc = "compare" /\ l.op = at[p].op
                          /\ l.fd = at[p].fd /\ l.n = at[p].n
  BY <1>1, <1>2, PlaceTypes DEF CheckFd
<1>4. /\ at' \in [Proc -> AtType] /\ at'[p] = l
      /\ \A q \in Proc : q # p => at'[q] = at[q]
  BY <1>3, GotoMoves DEF RingInv
<1>5. Types' /\ UNCHANGED <<buf, rpos, wpos, out, fd>>
  BY <1>4 DEF CheckFd, pipevars, seen, RingInv, Types
<1>6. Calling(p) /\ at'[p].pc \in {"loop", "check", "compare"} /\ at'[p].pc # "loop"
  BY <1>1, <1>3, <1>4 DEF Calling
<1>7. RingInv /\ Types'
  BY <1>5
<1>8. UNCHANGED <<buf, rpos, wpos, out, fd>>
  BY <1>5
<1> QED  BY <1>3, <1>4, <1>6, <1>7, <1>8, CallSteps

LEMMA CheckAgainRing ==
  ASSUME RingInv, NEW p \in Proc, CheckAgain(p)
  PROVE  RingInv'
<1>1. at[p].pc = "compare" /\ at[p].op \in Op /\ at[p].fd \in Slot /\ at[p].n \in 0..Request
  BY AtShape DEF CheckAgain, In, RingInv, Calling
<1>2. PICK l \in AtType : /\ Goto(p, l) /\ l.pc = "check" /\ l.op = at[p].op
                          /\ l.fd = at[p].fd /\ l.n = at[p].n
  BY <1>1, PlaceTypes DEF CheckAgain
<1>3. /\ at' \in [Proc -> AtType] /\ at'[p] = l
      /\ \A q \in Proc : q # p => at'[q] = at[q]
  BY <1>2, GotoMoves DEF RingInv
<1>4. Types' /\ UNCHANGED <<buf, rpos, wpos, out, fd>>
  BY <1>3 DEF CheckAgain, pipevars, seen, RingInv, Types
<1>5. Calling(p)
  BY <1>1 DEF Calling
<1> QED  BY <1>2, <1>3, <1>4, <1>5, CallSteps

LEMMA SaysClosedRing ==
  ASSUME RingInv, NEW p \in Proc, SaysClosed(p)
  PROVE  RingInv'
<1>1. at[p].pc = "compare" /\ at[p].fd \in Slot
  BY AtShape DEF SaysClosed, Quiet, In, RingInv, Calling
<1>2. /\ at' \in [Proc -> AtType] /\ at'[p].pc = "user"
      /\ \A q \in Proc : q # p => at'[q] = at[q]
  BY GotoMoves, PlaceTypes DEF SaysClosed, RingInv
<1>3. told' \in SUBSET End /\ eof' \in BOOLEAN
  <2>1. Other(fd[p][at[p].fd]) \in End
    BY DEF Other, End
  <2> QED  BY <2>1 DEF SaysClosed, RingInv, Types
<1>4. Types' /\ UNCHANGED <<buf, rpos, wpos, out, fd>>
  BY <1>2, <1>3 DEF SaysClosed, pipevars, RingInv, Types
<1> QED  BY <1>2, <1>4, DescriptorSteps

LEMMA SaysOpenRing ==
  ASSUME RingInv, NEW p \in Proc, SaysOpen(p)
  PROVE  RingInv'
<1>1. at[p].pc = "compare" /\ at[p].op \in Op /\ at[p].fd \in Slot /\ at[p].n \in 0..Request
  BY AtShape DEF SaysOpen, Quiet, In, RingInv, Calling
<1>2. CASE at[p].op = "isclosed"
  <2>1. /\ at' \in [Proc -> AtType] /\ at'[p].pc = "user"
        /\ \A q \in Proc : q # p => at'[q] = at[q]
    BY <1>2, GotoMoves, PlaceTypes DEF SaysOpen, RingInv
  <2>2. Types' /\ UNCHANGED <<buf, rpos, wpos, out, fd>>
    BY <2>1 DEF SaysOpen, pipevars, seen, RingInv, Types
  <2> QED  BY <2>1, <2>2, DescriptorSteps
<1>3. CASE at[p].op # "isclosed"
  <2>1. PICK l \in AtType : /\ Goto(p, l) /\ l.pc = "loop" /\ l.op = at[p].op
                            /\ l.fd = at[p].fd /\ l.n = at[p].n
    BY <1>1, <1>3, PlaceTypes DEF SaysOpen
  <2>2. /\ at' \in [Proc -> AtType] /\ at'[p] = l
        /\ \A q \in Proc : q # p => at'[q] = at[q]
    BY <2>1, GotoMoves DEF RingInv
  <2>3. Types' /\ UNCHANGED <<buf, rpos, wpos, out, fd>>
    BY <2>2 DEF SaysOpen, pipevars, seen, RingInv, Types
  <2>4. Calling(p)
    BY <1>1 DEF Calling
  <2> QED  BY <1>3, <2>1, <2>2, <2>3, <2>4, CallSteps
<1> QED  BY <1>2, <1>3

\* What Run does to the check that it interrupts.
LEMMA RunFacts ==
  ASSUME Types, NEW c \in CPU, NEW p \in Proc, Run(c, p)
  PROVE  /\ at' \in [Proc -> AtType]
         /\ \A q \in Proc : q # p \/ at[p].pc # "compare" => at'[q] = at[q]
         /\ at[p].pc = "compare" =>
              /\ at'[p].pc = "compare" /\ at'[p].op = at[p].op /\ at'[p].fd = at[p].fd
              /\ at'[p].n = at[p].n /\ at'[p].quiet = FALSE
<1>1. at \in [Proc -> AtType]
  BY DEF Types
<1>2. CASE at[p].pc # "compare"
  BY <1>1, <1>2 DEF Run
<1>3. CASE at[p].pc = "compare"
  <2>1. at[p] \in [pc : {"compare"}, op : Op, fd : Slot, n : 0..Request, ref : Nat, quiet : BOOLEAN]
    BY <1>1, <1>3 DEF AtType
  <2> DEFINE l == [pc |-> "compare", op |-> at[p].op, fd |-> at[p].fd, n |-> at[p].n,
                   ref |-> at[p].ref, quiet |-> FALSE]
  <2>2. \A b : [at[p] EXCEPT !.quiet = b]
                = [pc |-> "compare", op |-> at[p].op, fd |-> at[p].fd, n |-> at[p].n,
                   ref |-> at[p].ref, quiet |-> b]
    BY <2>1
  <2>3. l \in AtType
    <3>1. at[p].op \in Op /\ at[p].fd \in Slot /\ at[p].n \in 0..Request /\ at[p].ref \in Nat
      BY <2>1
    <3> QED  BY <3>1, PlaceTypes
  <2>4. at' = [at EXCEPT ![p] = l]
    BY <1>1, <1>3, <2>2 DEF Run
  <2> QED  BY <1>1, <1>3, <2>3, <2>4
<1> QED  BY <1>2, <1>3

LEMMA RunRing ==
  ASSUME RingInv, NEW c \in CPU, NEW p \in Proc, Run(c, p)
  PROVE  RingInv'
<1>0. Types
  BY DEF RingInv
<1>1. /\ at' \in [Proc -> AtType]
      /\ \A q \in Proc : q # p \/ at[p].pc # "compare" => at'[q] = at[q]
      /\ at[p].pc = "compare" =>
           /\ at'[p].pc = "compare" /\ at'[p].op = at[p].op /\ at'[p].fd = at[p].fd
           /\ at'[p].n = at[p].n
  BY <1>0, RunFacts
<1>2. Types' /\ UNCHANGED <<buf, rpos, wpos, out, fd>>
  BY <1>0, <1>1 DEF Run, pipevars, seen, Types
<1>3. CASE at[p].pc = "compare"
  <2>1. Calling(p)
    BY <1>3 DEF Calling
  <2> QED  BY <1>1, <1>2, <1>3, <2>1, CallSteps
<1>4. CASE at[p].pc # "compare"
  BY <1>1, <1>2, <1>4, DescriptorSteps
<1> QED  BY <1>3, <1>4

-----------------------------------------------------------------------------
(* Descriptors.                                                            *)

\* A step of an environment that does not go on with a fork and is not being made.
LEMMA OneEnvironment ==
  ASSUME DescInv, NEW p \in Proc,
         at[p].pc # "new", at'[p].pc \notin {"new", "fork", "unborn"},
         \A q \in Proc : q # p => at'[q] = at[q] /\ fd'[q] = fd[q] /\ data'[q] = data[q],
         \A q \in Proc : at[q].pc = "fork" => at[q].child \in Proc,
         \A i \in Slot : fd'[p][i] # "none" => i \in data'[p],
         at'[p].pc = "dead" => data'[p] = {} /\ \A i \in Slot : fd'[p][i] = "none",
         at'[p].pc = "dupfd" => (fd'[p][at'[p].from] # "none" => at'[p].to \in data'[p])
  PROVE  DescInv'
<1>1. Backed'
  BY DEF DescInv, Backed
<1>2. Bare'
  BY DEF DescInv, Bare
<1>3. Dupped'
  BY DEF DescInv, Dupped
<1>4. ASSUME NEW x \in Proc, at'[x].pc = "fork"
      PROVE  ForkingAt(x)'
  <2>1. x # p /\ at'[x] = at[x] /\ at[x].pc = "fork" /\ at[x].child \in Proc
    BY <1>4
  <2>2. ForkingAt(x)
    BY <2>1 DEF DescInv, Forking
  <2>3. at[x].child # p
    BY <2>2 DEF ForkingAt
  <2>4. Pages(x)' = Pages(x)
    BY <2>1 DEF Pages
  <2>5. \A q \in Proc : at'[q].pc = "fork" /\ at'[q].child = at[x].child => q = x
    BY <2>2 DEF ForkingAt
  <2> QED  BY <2>1, <2>2, <2>3, <2>4, <2>5 DEF ForkingAt
<1>5. Forking'
  BY <1>4 DEF Forking
<1>6. Marked'
  BY DEF DescInv, Marked
<1> QED  BY <1>1, <1>2, <1>3, <1>5, <1>6 DEF DescInv

LEMMA Parents ==
  ASSUME Types
  PROVE  \A q \in Proc : at[q].pc = "fork" => at[q].child \in Proc
BY AtShape

\* Steps of read, write and pipeisclosed, and who takes them.
CallStep(p) ==
    \/ TakeByte(p) \/ StoreByte(p) \/ Advance(p) \/ ReturnBytes(p) \/ Wait(p)
    \/ CheckFd(p) \/ CheckAgain(p) \/ SaysClosed(p) \/ SaysOpen(p)
    \/ \E op \in Op, i \in Slot : Call(p, op, i)

LEMMA CallStepFacts ==
  ASSUME Types, NEW p \in Proc, CallStep(p)
  PROVE  /\ UNCHANGED <<fd, data, cur>> /\ OnCpu(p)
         /\ at[p].pc \in {"user", "loop", "move", "check", "compare"}
         /\ at'[p].pc \in {"user", "loop", "move", "check", "compare"}
         /\ \A q \in Proc : q # p => at'[q] = at[q]
<1>1. UNCHANGED <<fd, data, cur>>
  BY DEF CallStep, TakeByte, StoreByte, Advance, ReturnBytes, Wait, CheckFd, CheckAgain,
         SaysClosed, SaysOpen, Call
<1>2. OnCpu(p) /\ at[p].pc \in {"user", "loop", "move", "check", "compare"}
  BY DEF CallStep, TakeByte, StoreByte, Advance, ReturnBytes, Wait, CheckFd, CheckAgain,
         SaysClosed, SaysOpen, Call, Quiet, In
<1>3. \A s : at[p].pc = "loop" => [at[p] EXCEPT !.pc = s].pc = s
  <2>1. at[p].pc = "loop" => at[p] \in [pc : {"loop", "check"}, op : Op, fd : Slot, n : 0..Request]
    BY DEF Types, AtType
  <2> QED  BY <2>1
<1>4. \E l : Goto(p, l) /\ l.pc \in {"user", "loop", "move", "check", "compare"}
  <2>1. CASE TakeByte(p) \/ Advance(p) \/ CheckFd(p) \/ CheckAgain(p)
    BY <2>1 DEF TakeByte, Advance, CheckFd, CheckAgain
  <2>2. CASE StoreByte(p) \/ Wait(p)
    BY <1>3, <2>2 DEF StoreByte, Wait, In
  <2>3. CASE ReturnBytes(p) \/ SaysClosed(p)
    BY <2>3 DEF ReturnBytes, SaysClosed, User
  <2>4. CASE SaysOpen(p)
    <3>1. CASE at[p].op = "isclosed"
      BY <2>4, <3>1 DEF SaysOpen, User
    <3>2. CASE at[p].op # "isclosed"
      BY <2>4, <3>2 DEF SaysOpen
    <3> QED  BY <3>1, <3>2
  <2>5. ASSUME NEW op \in Op, NEW i \in Slot, Call(p, op, i)
        PROVE  \E l : Goto(p, l) /\ l.pc \in {"user", "loop", "move", "check", "compare"}
    <3>1. CASE op = "isclosed"
      BY <2>5, <3>1 DEF Call
    <3>2. CASE op # "isclosed"
      BY <2>5, <3>2 DEF Call
    <3> QED  BY <3>1, <3>2
  <2> QED  BY <2>1, <2>2, <2>3, <2>4, <2>5 DEF CallStep
<1>5. at \in [Proc -> AtType]
  BY DEF Types
<1>6. at'[p].pc \in {"user", "loop", "move", "check", "compare"}
      /\ \A q \in Proc : q # p => at'[q] = at[q]
  BY <1>4, <1>5 DEF Goto
<1> QED  BY <1>1, <1>2, <1>6

LEMMA CallDesc ==
  ASSUME Types, DescInv, NEW p \in Proc, CallStep(p)
  PROVE  DescInv'
<1>1. \A i \in Slot : fd[p][i] # "none" => i \in data[p]
  BY CallStepFacts DEF DescInv, Backed
<1> QED  BY <1>1, CallStepFacts, Parents, OneEnvironment

LEMMA CloseDesc ==
  ASSUME Types, DescInv, NEW p \in Proc, NEW i \in Slot, Close(p, i)
  PROVE  DescInv'
<1>1. at[p].pc = "user" /\ at'[p].pc = "close" /\ \A q \in Proc : q # p => at'[q] = at[q]
  BY DEF Close, CloseFd, In, Types, Goto
<1>2. /\ fd'[p] = [fd[p] EXCEPT ![i] = "none"] /\ data' = data
      /\ \A q \in Proc : q # p => fd'[q] = fd[q]
  BY DEF Close, CloseFd, UnmapFd, Types
<1>3. \A j \in Slot : fd[p][j] # "none" => j \in data[p]
  BY <1>1 DEF DescInv, Backed
<1>4. \A j \in Slot : fd'[p][j] # "none" => fd[p][j] # "none"
  <2>1. fd[p] \in [Slot -> End \cup {"none"}]
    BY DEF Types
  <2> QED  BY <1>2, <2>1
<1>5. \A j \in Slot : fd'[p][j] # "none" => j \in data'[p]
  BY <1>2, <1>3, <1>4
<1> QED  BY <1>1, <1>2, <1>5, Parents, OneEnvironment

LEMMA CloseDataDesc ==
  ASSUME Types, DescInv, NEW p \in Proc, CloseData(p)
  PROVE  DescInv'
<1>1. /\ at[p].pc = "close" /\ at[p].slot \in Slot /\ at[p].then.pc \in {"user", "dup"}
  BY AtShape DEF CloseData, In
<1>2. at'[p] = at[p].then /\ \A q \in Proc : q # p => at'[q] = at[q]
  BY DEF CloseData, Goto, Types
<1>3. /\ fd'[p] = [fd[p] EXCEPT ![at[p].slot] = "none"] /\ data'[p] = data[p] \ {at[p].slot}
      /\ \A q \in Proc : q # p => fd'[q] = fd[q] /\ data'[q] = data[q]
  BY <1>1 DEF CloseData, Types
<1>4. \A j \in Slot : fd'[p][j] # "none" => j \in data'[p]
  BY <1>1, <1>3 DEF DescInv, Backed, Types
<1> QED  BY <1>1, <1>2, <1>3, <1>4, Parents, OneEnvironment

LEMMA DupDesc ==
  ASSUME Types, DescInv, NEW p \in Proc, NEW i \in Slot, NEW j \in Slot, Dup(p, i, j)
  PROVE  DescInv'
<1>1. \E l : Goto(p, l) /\ l.pc \in {"close", "dup"}
  BY DEF Dup, CloseFd
<1>2. /\ at[p].pc = "user" /\ at'[p].pc \in {"close", "dup"}
      /\ \A q \in Proc : q # p => at'[q] = at[q]
  BY <1>1 DEF Dup, In, Types, Goto
<1>3. data' = data /\ (fd' = [fd EXCEPT ![p][j] = "none"] \/ fd' = fd)
  BY DEF Dup, CloseFd, UnmapFd
<1>4. fd \in [Proc -> [Slot -> End \cup {"none"}]]
  BY DEF Types
<1>5. /\ \A k \in Slot : fd'[p][k] = fd[p][k] \/ fd'[p][k] = "none"
      /\ \A q \in Proc : q # p => fd'[q] = fd[q]
  <2>1. CASE fd' = fd
    BY <2>1
  <2>2. CASE fd' = [fd EXCEPT ![p][j] = "none"]
    BY <1>4, <2>2
  <2> QED  BY <1>3, <2>1, <2>2
<1>6. \A k \in Slot : fd'[p][k] # "none" => k \in data'[p]
  BY <1>2, <1>3, <1>5 DEF DescInv, Backed
<1> QED  BY <1>2, <1>3, <1>5, <1>6, Parents, OneEnvironment

LEMMA DupDataDesc ==
  ASSUME Types, DescInv, NEW p \in Proc, DupData(p)
  PROVE  DescInv'
<1>1. at[p].pc = "dup" /\ at[p].from \in Slot /\ at[p].to \in Slot
  BY AtShape DEF DupData, In
<1>2. at[p] \in [pc : {"dup", "dupfd"}, from : Slot, to : Slot]
  BY <1>1 DEF Types, AtType
<1>3. /\ at'[p].pc = "dupfd" /\ at'[p].from = at[p].from /\ at'[p].to = at[p].to
      /\ \A q \in Proc : q # p => at'[q] = at[q]
  BY <1>2 DEF DupData, Goto, Types
<1>4. /\ fd' = fd /\ data[p] \subseteq data'[p]
      /\ at[p].from \in data[p] => at[p].to \in data'[p]
      /\ \A q \in Proc : q # p => data'[q] = data[q]
  BY DEF DupData, Types
<1>5. \A j \in Slot : fd[p][j] # "none" => j \in data[p]
  BY <1>1 DEF DescInv, Backed
<1>6. fd'[p][at'[p].from] # "none" => at'[p].to \in data'[p]
  BY <1>1, <1>3, <1>4, <1>5
<1> QED  BY <1>1, <1>3, <1>4, <1>5, <1>6, Parents, OneEnvironment

LEMMA DupFdDesc ==
  ASSUME Types, DescInv, NEW p \in Proc, DupFd(p)
  PROVE  DescInv'
<1>1. at[p].pc = "dupfd" /\ at[p].from \in Slot /\ at[p].to \in Slot
  BY AtShape DEF DupFd, In
<1>2. at'[p].pc = "user" /\ \A q \in Proc : q # p => at'[q] = at[q]
  BY DEF DupFd, Goto, Types, User
<1>3. /\ fd'[p] = [fd[p] EXCEPT ![at[p].to] = fd[p][at[p].from]] /\ data' = data
      /\ \A q \in Proc : q # p => fd'[q] = fd[q]
  BY <1>1 DEF DupFd, Types
<1>4. \A j \in Slot : fd'[p][j] # "none" => j \in data'[p]
  BY <1>1, <1>3 DEF DescInv, Backed, Dupped, Types
<1> QED  BY <1>1, <1>2, <1>3, <1>4, Parents, OneEnvironment

LEMMA KillDesc ==
  ASSUME Types, DescInv, NEW p \in Proc, Kill(p)
  PROVE  DescInv'
<1>1. at'[p].pc = "dead" /\ \A q \in Proc : q # p => at'[q] = at[q]
  BY DEF Kill, Goto, Types
<1>2. /\ \A i \in Slot : fd'[p][i] = "none"
      /\ data'[p] = {}
      /\ \A q \in Proc : q # p => fd'[q] = fd[q] /\ data'[q] = data[q]
  BY DEF Kill, Types
<1> QED  BY <1>1, <1>2, Parents, OneEnvironment DEF Kill, Started

LEMMA ForkDesc ==
  ASSUME Types, DescInv, NEW p \in Proc, NEW q \in Proc, Fork(p, q)
  PROVE  DescInv'
<1>1. at[p].pc = "user" /\ at[q].pc = "unborn" /\ p # q
  BY DEF Fork, In
<1>2. /\ at'[p] = [pc |-> "fork", child |-> q, todo |-> Pages(p)]
      /\ at'[q] = [pc |-> "new", ends |-> Ends(p)]
      /\ \A x \in Proc : x \notin {p, q} => at'[x] = at[x]
  BY <1>1 DEF Fork, Types
<1>3. UNCHANGED <<fd, data>>
  BY DEF Fork
<1>4. data[q] = {} /\ \A i \in Slot : fd[q][i] = "none"
  BY <1>1 DEF DescInv, Bare
<1>5. Backed' /\ Bare' /\ Dupped'
  BY <1>1, <1>2, <1>3 DEF DescInv, Backed, Bare, Dupped
<1>6. \A x \in Proc : Pages(x)' = Pages(x)
  BY <1>3 DEF Pages
<1>7. \A x \in Proc : at[x].pc = "fork" => ForkingAt(x) /\ at[x].child \in Proc
  BY Parents DEF DescInv, Forking
<1>8. ASSUME NEW x \in Proc, at'[x].pc = "fork"
      PROVE  ForkingAt(x)'
  <2>1. CASE x = p
    <3>1. at'[x].child = q /\ at'[x].todo = Pages(p) /\ at'[q].pc = "new"
      BY <1>2, <2>1
    <3>2. ASSUME NEW y \in Proc, at'[y].pc = "fork", at'[y].child = q
          PROVE  y = p
      <4> SUFFICES ASSUME y # p PROVE FALSE
        OBVIOUS
      <4>1. at'[y] = at[y]
        BY <1>2, <3>2
      <4> QED  BY <1>1, <1>7, <3>2, <4>1 DEF ForkingAt
    <3>3. \A i \in Slot : /\ i \notin Pages(p) => fd[p][i] = "none"
                          /\ NFD + i \notin Pages(p) => i \notin data[p]
      BY DEF Pages
    <3>4. \A i \in Slot : fd[p][i] # "none" => fd[p][i] \in at'[q].ends
      <4>1. at'[q].ends = Ends(p)
        BY <1>2
      <4> QED  BY <4>1 DEF Ends, Types
    <3> QED  BY <1>3, <1>4, <1>6, <2>1, <3>1, <3>2, <3>3, <3>4 DEF ForkingAt
  <2>2. CASE x # p
    <3>1. x # q /\ at'[x] = at[x] /\ at[x].pc = "fork"
      BY <1>2, <1>8, <2>2
    <3>2. at[x].child \in Proc /\ at[x].child # q /\ at[x].child # p
      BY <1>1, <1>7, <3>1 DEF ForkingAt
    <3>3. ForkingAt(x)
      BY <1>7, <3>1
    <3>4. \A y \in Proc : at'[y].pc = "fork" /\ at'[y].child = at[x].child => y = x
      <4>1. ASSUME NEW y \in Proc, at'[y].pc = "fork", at'[y].child = at[x].child
            PROVE  y = x
        <5>1. y # p /\ y # q
          BY <1>2, <3>2, <4>1
        <5>2. at[y].pc = "fork" /\ at[y].child = at[x].child
          BY <1>2, <4>1, <5>1
        <5> QED  BY <3>3, <5>2 DEF ForkingAt
      <4> QED  BY <4>1
    <3>5. at'[at[x].child] = at[at[x].child]
      BY <1>2, <3>2
    <3> QED  BY <1>3, <1>6, <3>1, <3>3, <3>4, <3>5 DEF ForkingAt
  <2> QED  BY <2>1, <2>2
<1>9. Forking'
  BY <1>8 DEF Forking
<1>10. Marked'
  BY <1>1, <1>2, <1>3, <1>4 DEF DescInv, Marked
<1> QED  BY <1>5, <1>9, <1>10 DEF DescInv

LEMMA DuppageDesc ==
  ASSUME Types, DescInv, NEW p \in Proc, Duppage(p)
  PROVE  DescInv'
<1> DEFINE q == at[p].child
           k == Min(at[p].todo)
<1>1. /\ at[p].pc = "fork" /\ q \in Proc /\ k \in at[p].todo /\ k \in 0..(2 * NFD - 1)
      /\ k < NFD => k \in Slot
      /\ k >= NFD => k - NFD \in Slot
  BY DuppageFacts
<1>2. /\ at'[p] = [pc |-> "fork", child |-> q, todo |-> at[p].todo \ {k}]
      /\ \A x \in Proc : x # p => at'[x] = at[x]
  BY DuppageFacts
<1>3. /\ \A x \in Proc : x # q => fd'[x] = fd[x] /\ data'[x] = data[x]
      /\ \A i \in Slot : /\ i # k => fd'[q][i] = fd[q][i]
                         /\ i = k => fd'[q][i] = fd[p][i]
      /\ k >= NFD => data'[q] = data[q] \cup {k - NFD}
      /\ k < NFD => data'[q] = data[q]
  BY DuppageMaps
<1> HIDE DEF q, k
<1>4. \A x \in Proc : at[x].pc = "fork" => ForkingAt(x) /\ at[x].child \in Proc
  BY Parents DEF DescInv, Forking
<1>5. ForkingAt(p) /\ q = at[p].child
  BY <1>1, <1>4 DEF q
<1>6. p # q /\ at[q].pc = "new" /\ at'[q].pc = "new"
  BY <1>1, <1>2, <1>5 DEF ForkingAt
<1>7. at'[p].pc = "fork" /\ at'[p].child = q /\ at'[p].todo = at[p].todo \ {k}
  BY <1>2
<1>8. \A x \in Proc : x # q => Pages(x)' = Pages(x)
  BY <1>3 DEF Pages
<1>9. Backed'
  BY <1>1, <1>2, <1>3, <1>6, <1>7 DEF DescInv, Backed
<1>10. Bare'
  BY <1>1, <1>2, <1>3, <1>6, <1>7 DEF DescInv, Bare
<1>11. Dupped'
  BY <1>1, <1>2, <1>3, <1>6, <1>7 DEF DescInv, Dupped
<1>12. ASSUME NEW x \in Proc, at'[x].pc = "fork"
       PROVE  ForkingAt(x)'
  <2>1. CASE x = p
    <3>1. \A y \in Proc : at'[y].pc = "fork" /\ at'[y].child = q => y = p
      BY <1>2, <1>5 DEF ForkingAt
    <3>2. ASSUME NEW i \in Slot, i \notin at[p].todo \ {k}
          PROVE  fd'[q][i] = fd'[p][i]
      <4>1. fd'[p] = fd[p]
        BY <1>3, <1>6
      <4>2. CASE i = k
        BY <1>3, <4>1, <4>2
      <4>3. CASE i # k
        BY <1>3, <1>5, <3>2, <4>1, <4>3 DEF ForkingAt
      <4> QED  BY <4>2, <4>3
    <3>3. ASSUME NEW i \in Slot, NFD + i \notin at[p].todo \ {k}, i \in data'[p]
          PROVE  i \in data'[q]
      <4>1. i \in data[p] /\ data[q] \subseteq data'[q]
        BY <1>1, <1>3, <1>6, <3>3, PipeAssumption
      <4>2. CASE NFD + i = k
        <5>1. k >= NFD /\ k - NFD = i
          BY <4>2, PipeAssumption DEF Slot
        <5> QED  BY <1>3, <5>1
      <4>3. CASE NFD + i # k
        BY <1>5, <3>3, <4>1, <4>3 DEF ForkingAt
      <4> QED  BY <4>2, <4>3
    <3>4. at[p].todo \ {k} \subseteq Pages(p)'
      BY <1>5, <1>6, <1>8 DEF ForkingAt
    <3>5. \A i \in Slot : fd'[p][i] # "none" => fd'[p][i] \in at'[q].ends
      <4>1. fd'[p] = fd[p] /\ at'[q] = at[q]
        BY <1>1, <1>2, <1>3, <1>6
      <4>2. \A i \in Slot : fd[p][i] # "none" => fd[p][i] \in at[q].ends
        BY <1>5 DEF ForkingAt
      <4> QED  BY <4>1, <4>2
    <3> QED  BY <1>6, <1>7, <2>1, <3>1, <3>2, <3>3, <3>4, <3>5 DEF ForkingAt
  <2>2. CASE x # p
    <3>1. at'[x] = at[x] /\ at[x].pc = "fork" /\ x # q
      BY <1>2, <1>6, <1>12, <2>2
    <3>2. ForkingAt(x) /\ at[x].child \in Proc
      BY <1>4, <3>1
    <3>3. at[x].child # q /\ at[x].child # p
      BY <1>1, <1>5, <2>2, <3>1, <3>2 DEF ForkingAt
    <3>4. \A y \in Proc : at'[y].pc = "fork" /\ at'[y].child = at[x].child => y = x
      BY <1>2, <1>7, <3>2, <3>3 DEF ForkingAt
    <3>5. /\ at'[at[x].child] = at[at[x].child] /\ Pages(x)' = Pages(x)
          /\ fd'[x] = fd[x] /\ data'[x] = data[x]
          /\ fd'[at[x].child] = fd[at[x].child] /\ data'[at[x].child] = data[at[x].child]
      BY <1>2, <1>3, <1>8, <3>1, <3>2, <3>3
    <3> QED  BY <3>1, <3>2, <3>4, <3>5 DEF ForkingAt
  <2> QED  BY <2>1, <2>2
<1>13. Forking'
  BY <1>12 DEF Forking
<1>14. ASSUME NEW x \in Proc, at'[x].pc = "new", NEW i \in Slot, fd'[x][i] # "none"
       PROVE  fd'[x][i] \in at'[x].ends
  <2>1. x # p /\ at'[x] = at[x]
    BY <1>2, <1>7, <1>14
  <2>2. fd[x][i] # "none" => fd[x][i] \in at[x].ends
    BY <1>14, <2>1 DEF DescInv, Marked
  <2>3. CASE x = q /\ i = k
    BY <1>3, <1>5, <1>14, <2>1, <2>3 DEF ForkingAt
  <2>4. CASE ~(x = q /\ i = k)
    BY <1>3, <1>14, <2>1, <2>2, <2>4
  <2> QED  BY <2>3, <2>4
<1>15. Marked'
  BY <1>14 DEF Marked
<1> QED  BY <1>9, <1>10, <1>11, <1>13, <1>15 DEF DescInv

LEMMA ForkDoneDesc ==
  ASSUME Types, DescInv, NEW p \in Proc, ForkDone(p)
  PROVE  DescInv'
<1> DEFINE q == at[p].child
<1>1. at[p].pc = "fork" /\ q \in Proc /\ at[p].todo = {}
  BY AtShape DEF ForkDone, In
<1> HIDE DEF q
<1>2. ForkingAt(p) /\ q = at[p].child
  BY <1>1 DEF DescInv, Forking, q
<1>3. at[q].pc = "new" /\ p # q
  BY <1>1, <1>2 DEF ForkingAt
<1>4. /\ at'[p].pc = "user" /\ at'[q].pc = "user"
      /\ \A x \in Proc : x # p /\ x # q => at'[x] = at[x]
  BY <1>1, <1>2, <1>3 DEF ForkDone, User, Types
<1>5. UNCHANGED <<fd, data>> /\ \A x \in Proc : Pages(x)' = Pages(x)
  BY DEF ForkDone, Pages
<1>6. \A i \in Slot : fd[q][i] # "none" => i \in data[q]
  BY <1>1, <1>2 DEF ForkingAt, DescInv, Backed
<1>7. Backed' /\ Bare' /\ Dupped'
  BY <1>1, <1>3, <1>4, <1>5, <1>6 DEF DescInv, Backed, Bare, Dupped
<1>8. ASSUME NEW x \in Proc, at'[x].pc = "fork"
      PROVE  ForkingAt(x)'
  <2>1. x # p /\ x # q /\ at'[x] = at[x] /\ at[x].pc = "fork"
    BY <1>4, <1>8
  <2>2. ForkingAt(x) /\ at[x].child \in Proc
    BY <2>1, Parents DEF DescInv, Forking
  <2>3. at[x].child # q /\ at[x].child # p
    BY <1>1, <1>2, <2>1, <2>2 DEF ForkingAt
  <2>4. \A y \in Proc : at'[y].pc = "fork" /\ at'[y].child = at[x].child => y = x
    BY <1>4, <2>2 DEF ForkingAt
  <2>5. at'[at[x].child] = at[at[x].child]
    BY <1>4, <2>2, <2>3
  <2> QED  BY <1>5, <2>1, <2>2, <2>4, <2>5 DEF ForkingAt
<1>9. Forking'
  BY <1>8 DEF Forking
<1>10. Marked'
  BY <1>3, <1>4, <1>5 DEF DescInv, Marked
<1> QED  BY <1>7, <1>9, <1>10 DEF DescInv

LEMMA RunDesc ==
  ASSUME Types, DescInv, NEW c \in CPU, NEW p \in Proc, Run(c, p)
  PROVE  DescInv'
<1>1. UNCHANGED <<fd, data>>
  BY DEF Run
<1>2. CASE at[p].pc = "compare"
  <2>1. at'[p].pc = "compare" /\ \A q \in Proc : q # p => at'[q] = at[q]
    BY <1>2, RunFacts
  <2>2. \A i \in Slot : fd[p][i] # "none" => i \in data[p]
    BY <1>2 DEF DescInv, Backed
  <2> QED  BY <1>1, <1>2, <2>1, <2>2, Parents, OneEnvironment
<1>3. CASE at[p].pc # "compare"
  <2>1. at' = at
    BY <1>3 DEF Run
  <2> QED  BY <1>1, <2>1 DEF DescInv, Backed, Bare, Dupped, Forking, ForkingAt, Marked, Pages
<1> QED  BY <1>2, <1>3

-----------------------------------------------------------------------------
(* Both together.                                                          *)

PipeInv == RingInv /\ DescInv

LEMMA InitPipeInv == Init => PipeInv
<1> SUFFICES ASSUME Init PROVE PipeInv
  OBVIOUS
<1>1. /\ \A p \in Proc : at[p] = IF p = Root THEN User ELSE [pc |-> "unborn"]
      /\ \A p \in Proc : at[p].pc \in {"user", "unborn"} /\ at[p] \in AtType
      /\ \A p \in Proc : at[p].pc = "unborn" => p # Root
  BY PlaceTypes DEF Init, User
<1>2. /\ 0 \in Slot /\ 1 \in Slot
      /\ \A p \in Proc, i \in Slot : fd[p][i] # "none" => p = Root /\ i \in {0, 1}
      /\ \A p \in Proc : p # Root => data[p] = {}
      /\ \A p \in Proc : data[Root] = {0, 1}
  BY PipeAssumption DEF Init, Slot
<1>3. fd \in [Proc -> [Slot -> End \cup {"none"}]] /\ data \in [Proc -> SUBSET Slot]
  BY <1>2 DEF Init, End
<1>4. Types
  <2>1. at \in [Proc -> AtType] /\ cur \in [CPU -> Proc \cup {Idle}]
    BY PlaceTypes DEF Init
  <2>2. buf \in [0..(PIPEBUFSIZ - 1) -> 0..MaxBytes] /\ rpos \in Nat /\ wpos \in Nat
    BY PipeAssumption DEF Init
  <2>3. out \in Seq(Nat) /\ told \in SUBSET End /\ eof \in BOOLEAN
    <3>1. <<>> \in Seq(Nat)
      OBVIOUS
    <3> QED  BY <3>1 DEF Init
  <2> QED  BY <1>3, <2>1, <2>2, <2>3 DEF Types
<1>5. HoldsEnd /\ Alone /\ Moving /\ Room /\ Loops
  BY <1>1 DEF HoldsEnd, Alone, Moving, Room, Loops, Calling
<1>6. Ring
  BY PipeAssumption DEF Init, Ring
<1>7. DescInv
  BY <1>1, <1>2, PipeAssumption DEF DescInv, Backed, Bare, Dupped, Forking, Marked
<1> QED  BY <1>4, <1>5, <1>6, <1>7 DEF PipeInv, RingInv

\* The steps of one environment that are not steps of a call.
DescStep(p) ==
    \/ CloseData(p) \/ DupData(p) \/ DupFd(p) \/ Duppage(p) \/ ForkDone(p) \/ Kill(p)
    \/ \E q \in Proc : Fork(p, q)
    \/ \E i \in Slot : Close(p, i) \/ \E j \in Slot : Dup(p, i, j)

\* A step is one of a call, one of descriptors, or the kernel's.
LEMMA NextCases ==
  ASSUME Next
  PROVE  \/ \E p \in Proc : CallStep(p) \/ DescStep(p)
         \/ \E c \in CPU, p \in Proc : Run(c, p)
<1>1. {"read", "write", "isclosed"} = Op
  BY DEF Op
<1> QED  BY <1>1 DEF Next, Step, CallStep, DescStep

LEMMA CallRingInv ==
  ASSUME IsFiniteSet(Proc), RingInv, NEW p \in Proc, CallStep(p)
  PROVE  RingInv'
BY TakeByteRing, StoreByteRing, AdvanceRing, ReturnBytesRing, WaitRing, CheckFdRing,
   CheckAgainRing, SaysClosedRing, SaysOpenRing, CallRing DEF CallStep

LEMMA DescRingInv ==
  ASSUME PipeInv, NEW p \in Proc, DescStep(p)
  PROVE  RingInv'
<1>1. RingInv /\ Types
  BY DEF PipeInv, RingInv
<1>2. ASSUME Duppage(p) PROVE RingInv'
  <2>1. at[p].pc = "fork"
    BY <1>1, <1>2, DuppageFacts
  <2>2. at[at[p].child].pc = "new"
    BY <2>1 DEF PipeInv, DescInv, Forking, ForkingAt
  <2> QED  BY <1>1, <1>2, <2>2, DuppageRing
<1> QED  BY <1>1, <1>2, CloseDataRing, DupDataRing, DupFdRing, ForkDoneRing, KillRing, ForkRing,
            CloseRing, DupRing DEF DescStep

LEMMA DescDescInv ==
  ASSUME Types, DescInv, NEW p \in Proc, DescStep(p)
  PROVE  DescInv'
BY CloseDataDesc, DupDataDesc, DupFdDesc, DuppageDesc, ForkDoneDesc, KillDesc, ForkDesc,
   CloseDesc, DupDesc DEF DescStep

LEMMA NextPipeInv ==
  ASSUME IsFiniteSet(Proc), PipeInv, [Next]_vars
  PROVE  PipeInv'
<1>1. RingInv /\ DescInv /\ Types
  BY DEF PipeInv, RingInv
<1>2. CASE Next
  <2>1. ASSUME NEW p \in Proc, CallStep(p) PROVE PipeInv'
    BY <1>1, <2>1, CallRingInv, CallDesc DEF PipeInv
  <2>2. ASSUME NEW p \in Proc, DescStep(p) PROVE PipeInv'
    BY <1>1, <2>2, DescRingInv, DescDescInv DEF PipeInv
  <2>3. ASSUME NEW c \in CPU, NEW p \in Proc, Run(c, p) PROVE PipeInv'
    BY <1>1, <2>3, RunRing, RunDesc DEF PipeInv
  <2> QED  BY <1>2, <2>1, <2>2, <2>3, NextCases
<1>3. CASE UNCHANGED vars
  BY <1>3 DEF vars, pipevars, seen, PipeInv, RingInv, Types, HoldsEnd, Alone, Ring, Moving, Room,
     Loops, Calling, DescInv, Backed, Bare, Dupped, Forking, ForkingAt, Marked, Pages
<1> QED  BY <1>2, <1>3

\* The two layers hold together, whatever environments do with the pipe.
THEOREM PipeInvariant == ASSUME IsFiniteSet(Proc) PROVE Spec => []PipeInv
<1>1. PipeInv /\ [Next]_vars => PipeInv'
  BY NextPipeInv
<1> QED  BY <1>1, InitPipeInv, PTL DEF Spec

\* The reader never passes the writer and the writer never laps the reader
\* (devpipe_read and devpipe_write of lib/pipe.c).
THEOREM PipeTypes == ASSUME IsFiniteSet(Proc) PROVE Spec => []TypeOK
<1>1. PipeInv => TypeOK
  BY PipeAssumption DEF PipeInv, RingInv, Types, Ring, TypeOK
<1> QED  BY <1>1, PipeInvariant, PTL

\* Every descriptor has its data page, so there are not fewer of those.
LEMMA DataCovers ==
  ASSUME IsFiniteSet(Proc), DescInv, \A p \in Proc : at[p].pc # "new"
  PROVE  DataRefs >= Refs("r") + Refs("w")
<1> DEFINE R == {pi \in Proc \X Slot : fd[pi[1]][pi[2]] = "r"}
           W == {pi \in Proc \X Slot : fd[pi[1]][pi[2]] = "w"}
           D == {pi \in Proc \X Slot : pi[2] \in data[pi[1]]}
<1>1. R \cap W = {}
  OBVIOUS
<1>2. R \cup W \subseteq D
  BY DEF DescInv, Backed
<1>3. IsFiniteSet(R) /\ IsFiniteSet(W) /\ IsFiniteSet(D)
  BY CountsAreNumbers
<1>4. Refs("r") = Cardinality(R) /\ Refs("w") = Cardinality(W) /\ DataRefs = Cardinality(D)
  BY DEF Refs, DataRefs
<1> HIDE DEF R, W, D
<1>5. Cardinality(R \cup W) = Cardinality(R) + Cardinality(W) - Cardinality({})
  BY <1>1, <1>3, FS_Union
<1>6. Cardinality(R \cup W) <= Cardinality(D)
  BY <1>2, <1>3, FS_Subset
<1>7. Cardinality({}) = 0
  BY FS_EmptySet
<1>8. Cardinality(R) \in Nat /\ Cardinality(W) \in Nat /\ Cardinality(D) \in Nat
  BY <1>3, FS_CardinalityType
<1> QED  BY <1>4, <1>5, <1>6, <1>7, <1>8

\* The pipe's page has a mapping for each mapping of a descriptor: _pipeisclosed never
\* finds fewer (the order of the system calls in devpipe_close and dup).
THEOREM DataOutlives == ASSUME IsFiniteSet(Proc) PROVE Spec => []DataOutlivesFds
<1>1. PipeInv => DataOutlivesFds
  BY DataCovers DEF PipeInv, DataOutlivesFds
<1> QED  BY <1>1, PipeInvariant, PTL

-----------------------------------------------------------------------------
(* Ends.  From here on there is one CPU, and nobody calls on an end that a *)
(* fork is copying; EndsStayGone, CallHeld and RunHeld need neither.       *)

OneCpu == \A c, d \in CPU : c = d

\* What the steps do to descriptors, but for fork()'s loop: a new one is a copy.
LEMMA DescriptorsKept ==
  ASSUME Types, NEW p \in Proc, DescStep(p), ~Duppage(p)
  PROVE  /\ \A q \in Proc : q # p => fd'[q] = fd[q]
         /\ \A i \in Slot : fd'[p][i] # "none" => \E j \in Slot : fd[p][j] = fd'[p][i]
<1>1. \A q \in Proc : q # p => fd'[q] = fd[q]
  BY DEF DescStep, CloseData, DupData, DupFd, ForkDone, Kill, Fork, Close, CloseFd, UnmapFd, Dup,
         Types
<1>2. fd \in [Proc -> [Slot -> End \cup {"none"}]]
  BY DEF Types
<1>3. ASSUME \A i \in Slot : fd'[p][i] = fd[p][i] \/ fd'[p][i] = "none"
      PROVE  \A i \in Slot : fd'[p][i] # "none" => \E j \in Slot : fd[p][j] = fd'[p][i]
  BY <1>3
<1>4. CASE CloseData(p)
  <2>1. at[p].slot \in Slot
    BY <1>4, AtShape DEF CloseData, In
  <2> QED  BY <1>1, <1>2, <1>3, <1>4, <2>1 DEF CloseData
<1>5. CASE DupFd(p)
  <2>1. at[p].from \in Slot /\ at[p].to \in Slot
    BY <1>5, AtShape DEF DupFd, In
  <2>2. \A i \in Slot : fd'[p][i] = IF i = at[p].to THEN fd[p][at[p].from] ELSE fd[p][i]
    BY <1>2, <1>5, <2>1 DEF DupFd
  <2>3. \A i \in Slot : fd'[p][i] # "none" => \E j \in Slot : fd[p][j] = fd'[p][i]
    BY <2>1, <2>2
  <2> QED  BY <1>1, <2>3
<1>6. CASE DupData(p) \/ ForkDone(p) \/ \E q \in Proc : Fork(p, q)
  <2>1. fd' = fd
    BY <1>6 DEF DupData, ForkDone, Fork
  <2> QED  BY <1>1, <1>3, <2>1
<1>7. CASE Kill(p)
  BY <1>1, <1>2, <1>3, <1>7 DEF Kill
<1>8. CASE \E i \in Slot : Close(p, i) \/ \E j \in Slot : Dup(p, i, j)
  <2>1. fd' = fd \/ \E i \in Slot : fd' = [fd EXCEPT ![p][i] = "none"]
    BY <1>8 DEF Close, Dup, CloseFd, UnmapFd
  <2>2. \A i \in Slot : fd'[p][i] = fd[p][i] \/ fd'[p][i] = "none"
    <3>1. CASE fd' = fd
      BY <3>1
    <3>2. ASSUME NEW i \in Slot, fd' = [fd EXCEPT ![p][i] = "none"]
          PROVE  \A k \in Slot : fd'[p][k] = fd[p][k] \/ fd'[p][k] = "none"
      BY <1>2, <3>2
    <3> QED  BY <2>1, <3>1, <3>2
  <2> QED  BY <1>1, <1>3, <2>2
<1> QED  BY <1>4, <1>5, <1>6, <1>7, <1>8 DEF DescStep

\* Where the others are after a step on descriptors.
LEMMA OthersStay ==
  ASSUME Types, DescInv, NEW p \in Proc, DescStep(p)
  PROVE  /\ at[p].pc # "new"
         /\ at'[p].pc \in {"user", "close", "dup", "dupfd", "fork", "dead"}
         /\ \A x \in Proc : x # p => \/ at'[x] = at[x]
                                     \/ Fork(p, x) /\ at'[x] = [pc |-> "new", ends |-> Ends(p)]
                                     \/ /\ ForkDone(p) /\ at[p].pc = "fork"
                                        /\ at[p].child = x /\ at'[x] = User
<1>0. at \in [Proc -> AtType]
  BY DEF Types
<1>1. at[p].pc # "new"
  BY DEF DescStep, CloseData, DupData, DupFd, Duppage, ForkDone, Kill, Fork, Close, Dup, In, Started
<1>2. ASSUME NEW l, Goto(p, l), l.pc \in {"user", "close", "dup", "dupfd", "fork", "dead"}
      PROVE  /\ at'[p].pc \in {"user", "close", "dup", "dupfd", "fork", "dead"}
             /\ \A x \in Proc : x # p => at'[x] = at[x]
  BY <1>0, <1>2 DEF Goto
<1>3. CASE CloseData(p)
  <2>1. at[p].then.pc \in {"user", "dup"}
    BY <1>3, AtShape DEF CloseData, In
  <2> QED  BY <1>1, <1>2, <1>3, <2>1 DEF CloseData
<1>4. CASE DupData(p)
  <2>1. at[p] \in [pc : {"dup", "dupfd"}, from : Slot, to : Slot]
    BY <1>4 DEF DupData, In, Types, AtType
  <2>2. [at[p] EXCEPT !.pc = "dupfd"].pc = "dupfd"
    BY <2>1
  <2> QED  BY <1>1, <1>2, <1>4, <2>2 DEF DupData
<1>5. CASE DupFd(p)
  BY <1>1, <1>2, <1>5 DEF DupFd, User
<1>6. CASE Duppage(p)
  BY <1>1, <1>6, DuppageFacts
<1>7. CASE Kill(p)
  BY <1>1, <1>2, <1>7 DEF Kill
<1>8. ASSUME NEW i \in Slot, Close(p, i)
      PROVE  \E l : Goto(p, l) /\ l.pc = "close"
  BY <1>8 DEF Close, CloseFd
<1>9. ASSUME NEW i \in Slot, NEW j \in Slot, Dup(p, i, j)
      PROVE  \E l : Goto(p, l) /\ l.pc \in {"close", "dup"}
  BY <1>9 DEF Dup, CloseFd
<1>10. CASE ForkDone(p)
  <2>1. at[p].pc = "fork" /\ at[p].child \in Proc
    BY <1>10, AtShape DEF ForkDone, In
  <2>2. at' = [at EXCEPT ![p] = User, ![at[p].child] = User]
    BY <1>10 DEF ForkDone
  <2>3. /\ at'[p] = User
        /\ \A x \in Proc : x # p => at'[x] = at[x] \/ (at[p].child = x /\ at'[x] = User)
    BY <1>0, <2>1, <2>2
  <2>4. User.pc = "user"
    BY DEF User
  <2> QED  BY <1>1, <1>10, <2>1, <2>3, <2>4
<1>11. ASSUME NEW q \in Proc, Fork(p, q)
       PROVE  /\ at'[p].pc = "fork"
              /\ \A x \in Proc : x # p => \/ at'[x] = at[x]
                                          \/ x = q /\ at'[x] = [pc |-> "new", ends |-> Ends(p)]
  <2>1. p # q
    BY <1>11 DEF Fork, In
  <2> QED  BY <1>0, <1>11, <2>1 DEF Fork
<1> QED  BY <1>1, <1>2, <1>3, <1>4, <1>5, <1>6, <1>7, <1>8, <1>9, <1>10, <1>11 DEF DescStep

\* Descriptors come from descriptors: an end that nobody holds stays gone.
LEMMA EndsStayGone ==
  ASSUME IsFiniteSet(Proc), Types, Types', DescInv,
         NEW p \in Proc, DescStep(p), NEW e \in End, Held(e) = 0
  PROVE  Held(e)' = 0
<1>1. ASSUME NEW x \in Proc, NEW i \in Slot, at'[x].pc # "new", fd'[x][i] # "none"
      PROVE  \E y \in Proc, j \in Slot : at[y].pc # "new" /\ fd[y][j] = fd'[x][i]
  <2>1. CASE Duppage(p)
    <3>1. /\ at[p].pc = "fork" /\ at'[p].pc = "fork" /\ at[p].child \in Proc
          /\ \A y \in Proc : y # p => at'[y] = at[y]
          /\ \A y \in Proc : y # at[p].child => fd'[y] = fd[y]
      BY <2>1, DuppageFacts, DuppageMaps
    <3>2. at[at[p].child].pc = "new"
      BY <3>1 DEF DescInv, Forking, ForkingAt
    <3>3. x # at[p].child
      BY <1>1, <3>1, <3>2
    <3>4. at[x].pc # "new" /\ fd'[x][i] = fd[x][i]
      BY <1>1, <3>1, <3>3
    <3> QED  BY <3>4
  <2>2. CASE ForkDone(p) /\ at[p].pc = "fork" /\ at[p].child = x
    <3>1. at[p].todo = {} /\ fd' = fd
      BY <2>2 DEF ForkDone
    <3>2. fd[x][i] = fd[p][i]
      BY <2>2, <3>1 DEF DescInv, Forking, ForkingAt
    <3>3. at[p].pc # "new" /\ fd[p][i] = fd'[x][i]
      BY <2>2, <3>1, <3>2
    <3> QED  BY <3>3
  <2>3. CASE ~Duppage(p) /\ ~(ForkDone(p) /\ at[p].pc = "fork" /\ at[p].child = x)
    <3>1. CASE x = p
      <4>1. PICK j \in Slot : fd[p][j] = fd'[p][i]
        BY <1>1, <2>3, <3>1, DescriptorsKept
      <4>2. at[p].pc # "new"
        BY OthersStay
      <4> QED  BY <3>1, <4>1, <4>2
    <3>2. CASE x # p
      <4>1. at'[x] = at[x]
        <5>1. [pc |-> "new", ends |-> Ends(p)].pc = "new"
          OBVIOUS
        <5>2. \/ at'[x] = at[x]
              \/ at'[x] = [pc |-> "new", ends |-> Ends(p)]
              \/ ForkDone(p) /\ at[p].pc = "fork" /\ at[p].child = x
          BY <3>2, OthersStay
        <5>3. at'[x] # [pc |-> "new", ends |-> Ends(p)]
          BY <1>1, <5>1
        <5> QED  BY <2>3, <5>2, <5>3
      <4>2. fd'[x] = fd[x]
        BY <2>3, <3>2, DescriptorsKept
      <4> QED  BY <1>1, <4>1, <4>2
    <3> QED  BY <3>1, <3>2
  <2> QED  BY <2>1, <2>2, <2>3
<1> DEFINE S == {pi \in Proc \X Slot : at[pi[1]].pc # "new" /\ fd[pi[1]][pi[2]] = e}
           T == {pi \in Proc \X Slot : at'[pi[1]].pc # "new" /\ fd'[pi[1]][pi[2]] = e}
<1>2. S = {}
  <2>1. IsFiniteSet(S) /\ Cardinality(S) = 0
    BY CountsAreNumbers DEF Held
  <2> HIDE DEF S
  <2> QED  BY <2>1, FS_EmptySet
<1>3. \A y \in Proc, j \in Slot : at[y].pc # "new" => fd[y][j] # e
  <2>1. \A y \in Proc, j \in Slot : <<y, j>> \in Proc \X Slot /\ <<y, j>> \notin S
    BY <1>2
  <2> QED  BY <2>1
<1>4. T = {}
  BY <1>1, <1>3 DEF End
<1> QED  BY <1>4, FS_EmptySet DEF Held

\* Calls and the kernel give nobody a descriptor, and take none away.
LEMMA CallHeld ==
  ASSUME Types, NEW p \in Proc, CallStep(p)
  PROVE  \A e : Held(e)' = Held(e)
<1>1. fd' = fd /\ \A q \in Proc : at'[q].pc = "new" <=> at[q].pc = "new"
  BY CallStepFacts
<1> QED  BY <1>1 DEF Held

LEMMA RunHeld ==
  ASSUME Types, NEW c \in CPU, NEW p \in Proc, Run(c, p)
  PROVE  \A e : Held(e)' = Held(e)
<1>1. fd' = fd
  BY DEF Run
<1>2. \A q \in Proc : at'[q].pc = "new" <=> at[q].pc = "new"
  BY RunFacts
<1> QED  BY <1>1, <1>2 DEF Held

-----------------------------------------------------------------------------
(* Apart.                                                                  *)

\* A step of a call, or the kernel's: no fork begins.
LEMMA CallApart ==
  ASSUME Misuse = {}, Types, Apart, NEW p \in Proc, CallStep(p)
  PROVE  Apart'
<1>1. /\ fd' = fd /\ \A q \in Proc : q # p => at'[q] = at[q]
      /\ at[p].pc # "new" /\ at'[p].pc # "new"
  BY CallStepFacts
<1>2. \A e : Copying(e)' = Copying(e)
  BY <1>1 DEF Copying
<1>3. Calling(p)' => ~Copying(fd[p][at'[p].fd])
  <2>0. at \in [Proc -> AtType]
    BY DEF Types
  <2>1. ASSUME NEW op \in Op, NEW i \in Slot, Call(p, op, i)
        PROVE  at'[p].fd = i /\ ~Copying(fd[p][i])
    BY <2>0, <2>1 DEF Call, Goto
  <2>2. CASE ~\E op \in Op, i \in Slot : Call(p, op, i)
    <3>1. Calling(p)
      BY <2>2 DEF CallStep, TakeByte, StoreByte, Advance, ReturnBytes, Wait, CheckFd, CheckAgain,
         SaysClosed, SaysOpen, Quiet, In, Calling
    <3>2. Calling(p)' => at'[p].fd = at[p].fd
      <4>1. CASE TakeByte(p) \/ Advance(p) \/ CheckFd(p) \/ CheckAgain(p)
        BY <2>0, <4>1 DEF TakeByte, Advance, CheckFd, CheckAgain, Goto
      <4>2. CASE StoreByte(p) \/ Wait(p)
        <5>1. at[p] \in [pc : {"loop", "check"}, op : Op, fd : Slot, n : 0..Request]
          BY <2>0, <4>2 DEF StoreByte, Wait, In, AtType
        <5>2. \A s : [at[p] EXCEPT !.pc = s].fd = at[p].fd
          BY <5>1
        <5>3. \E s : at'[p] = [at[p] EXCEPT !.pc = s]
          BY <2>0, <4>2 DEF StoreByte, Wait, Goto
        <5> QED  BY <5>2, <5>3
      <4>3. CASE ReturnBytes(p) \/ SaysClosed(p)
        BY <2>0, <4>3 DEF ReturnBytes, SaysClosed, Goto, User, Calling
      <4>4. CASE SaysOpen(p)
        <5>1. CASE at[p].op = "isclosed"
          BY <2>0, <4>4, <5>1 DEF SaysOpen, Goto, User, Calling
        <5>2. CASE at[p].op # "isclosed"
          BY <2>0, <4>4, <5>2 DEF SaysOpen, Goto
        <5> QED  BY <5>1, <5>2
      <4> QED  BY <2>2, <4>1, <4>2, <4>3, <4>4 DEF CallStep
    <3> QED  BY <3>1, <3>2 DEF Apart
  <2> QED  BY <2>1, <2>2
<1>4. ASSUME NEW x \in Proc, x # p, Calling(x)'
      PROVE  ~Copying(fd[x][at'[x].fd])
  BY <1>1, <1>4 DEF Apart, Calling
<1> QED  BY <1>1, <1>2, <1>3, <1>4 DEF Apart

LEMMA RunApart ==
  ASSUME Types, Apart, NEW c \in CPU, NEW p \in Proc, Run(c, p)
  PROVE  Apart'
<1>1. fd' = fd
  BY DEF Run
<1>2. /\ \A q \in Proc : q # p \/ at[p].pc # "compare" => at'[q] = at[q]
      /\ at[p].pc = "compare" => at'[p].pc = "compare" /\ at'[p].fd = at[p].fd
  BY RunFacts
<1>3. \A e : Copying(e)' => Copying(e)
  BY <1>2 DEF Copying
<1>4. \A x \in Proc : Calling(x)' => Calling(x) /\ at'[x].fd = at[x].fd
  BY <1>2 DEF Calling
<1> QED  BY <1>1, <1>3, <1>4 DEF Apart

\* Descriptors: a fork begins when nobody uses what it copies.
LEMMA DescApart ==
  ASSUME Misuse = {}, Types, Types', DescInv, HoldsEnd, Apart, NEW p \in Proc, DescStep(p)
  PROVE  Apart'
<1> SUFFICES ASSUME NEW x \in Proc, Calling(x)', NEW q \in Proc, at'[q].pc = "new",
                    fd'[x][at'[x].fd] \in at'[q].ends
             PROVE  FALSE
  BY DEF Apart, Copying
<1>1. x # p /\ q # p
  BY OthersStay DEF Calling
<1>2. at'[x] = at[x] /\ Calling(x)
  <2>1. \/ at'[x] = at[x]
        \/ at'[x] = [pc |-> "new", ends |-> Ends(p)]
        \/ at'[x] = User
    BY <1>1, OthersStay
  <2>2. [pc |-> "new", ends |-> Ends(p)].pc = "new" /\ User.pc = "user"
    BY DEF User
  <2> QED  BY <2>1, <2>2 DEF Calling
<1>3. fd'[x] = fd[x]
  <2>1. CASE Duppage(p)
    <3>1. at[p].pc = "fork" /\ at[p].child \in Proc
      BY <2>1, DuppageFacts
    <3>2. at[at[p].child].pc = "new"
      BY <3>1 DEF DescInv, Forking, ForkingAt
    <3>3. x # at[p].child
      BY <1>2, <3>2 DEF Calling
    <3> QED  BY <2>1, <3>3, DuppageMaps
  <2>2. CASE ~Duppage(p)
    BY <1>1, <2>2, DescriptorsKept
  <2> QED  BY <2>1, <2>2
<1>4. CASE at'[q] = at[q]
  BY <1>2, <1>3, <1>4 DEF Apart, Copying
<1>5. CASE at'[q] # at[q]
  <2>1. Fork(p, q) /\ at'[q] = [pc |-> "new", ends |-> Ends(p)]
    BY <1>1, <1>5, OthersStay DEF User
  <2>2. fd[x][at[x].fd] \in Ends(p)
    BY <1>2, <1>3, <2>1
  <2>3. InUse(fd[x][at[x].fd])
    BY <1>2 DEF InUse
  <2> QED  BY <2>1, <2>2, <2>3 DEF Fork
<1> QED  BY <1>4, <1>5

-----------------------------------------------------------------------------
(* Counted.                                                                *)

\* On one CPU nobody is in the middle of a check that has not been interrupted, except who
\* runs.
LEMMA QuietRuns ==
  ASSUME OneCpu, NEW p \in Proc, NEW q \in Proc, OnCpu(p), OnCpu(q)
  PROVE  p = q
BY DEF OneCpu, OnCpu

LEMMA CallCounted ==
  ASSUME OneCpu, Types, Counted, NEW p \in Proc, CallStep(p)
  PROVE  Counted'
<1>1. /\ UNCHANGED <<fd, cur>> /\ OnCpu(p)
      /\ \A q \in Proc : q # p => at'[q] = at[q]
  BY CallStepFacts
<1> SUFFICES ASSUME NEW x \in Proc, Quiet(x)'
             PROVE  at'[x].ref = Refs(fd[x][at'[x].fd])
  BY <1>1 DEF Counted, Refs
<1>2. x = p
  BY <1>1, QuietRuns DEF Quiet, In, OnCpu
<1>3. at'[p].pc = "compare"
  BY <1>2 DEF Quiet, In
<1>4. at \in [Proc -> AtType]
  BY DEF Types
<1>5. CheckFd(p)
  <2>1. \A l : Goto(p, l) => l.pc = "compare"
    BY <1>3, <1>4 DEF Goto
  <2>2. ~TakeByte(p) /\ ~Advance(p) /\ ~CheckAgain(p)
    BY <2>1 DEF TakeByte, Advance, CheckAgain
  <2>3. ~ReturnBytes(p) /\ ~SaysClosed(p)
    BY <2>1 DEF ReturnBytes, SaysClosed, User
  <2>4. \A s : at[p].pc = "loop" => [at[p] EXCEPT !.pc = s].pc = s
    <3>1. at[p].pc = "loop"
            => at[p] \in [pc : {"loop", "check"}, op : Op, fd : Slot, n : 0..Request]
      BY DEF Types, AtType
    <3> QED  BY <3>1
  <2>5. ~StoreByte(p) /\ ~Wait(p)
    BY <2>1, <2>4 DEF StoreByte, Wait, In
  <2>6. ~SaysOpen(p)
    <3>1. CASE at[p].op = "isclosed"
      BY <2>1, <3>1 DEF SaysOpen, User
    <3>2. CASE at[p].op # "isclosed"
      BY <2>1, <3>2 DEF SaysOpen
    <3> QED  BY <3>1, <3>2
  <2>7. \A op \in Op, i \in Slot : ~Call(p, op, i)
    <3>1. ASSUME NEW op \in Op, NEW i \in Slot, Call(p, op, i) PROVE FALSE
      <4>1. CASE op = "isclosed"
        BY <2>1, <3>1, <4>1 DEF Call
      <4>2. CASE op # "isclosed"
        BY <2>1, <3>1, <4>2 DEF Call
      <4> QED  BY <4>1, <4>2
    <3> QED  BY <3>1
  <2> QED  BY <2>2, <2>3, <2>5, <2>6, <2>7 DEF CallStep
<1>6. /\ at'[p].ref = Refs(fd[p][at[p].fd]) /\ at'[p].fd = at[p].fd
  BY <1>4, <1>5 DEF CheckFd, Goto
<1> QED  BY <1>2, <1>6

LEMMA DescCounted ==
  ASSUME OneCpu, Types, Types', NEW p \in Proc, DescStep(p)
  PROVE  \A x \in Proc : ~Quiet(x)'
<1>1. at \in [Proc -> AtType] /\ cur \in [CPU -> Proc \cup {Idle}]
  BY DEF Types
<1> SUFFICES ASSUME NEW x \in Proc, OnCpu(x)', at'[x].pc = "compare"
             PROVE  FALSE
  BY DEF Quiet, In
<1>2. CASE Kill(p)
  <2>1. at'[p].pc = "dead" /\ \A q \in Proc : q # p => at'[q] = at[q]
    BY <1>1, <1>2 DEF Kill, Goto
  <2>2. x # p /\ at[x].pc = "compare"
    BY <2>1
  <2>3. PICK c \in CPU : cur'[c] = x
    BY DEF OnCpu
  <2>4. cur[c] = x
    BY <1>2, <2>2, <2>3, PipeAssumption DEF Kill
  <2>5. OnCpu(x)
    BY <2>4 DEF OnCpu
  <2> QED  BY <1>2, <2>2, <2>5, QuietRuns DEF Kill, In
<1>3. CASE ~Kill(p)
  <2>1. OnCpu(p) /\ cur' = cur
    BY <1>3 DEF DescStep, CloseData, DupData, DupFd, Duppage, ForkDone, Fork, Close, Dup, In
  <2>2. x = p
    BY <2>1, QuietRuns DEF OnCpu
  <2>3. at'[p].pc = "compare"
    BY <2>2
  <2>4. \A l : Goto(p, l) => l.pc = "compare"
    BY <1>1, <2>3 DEF Goto
  <2>5. ~CloseData(p)
    BY <2>4, AtShape DEF CloseData, In
  <2>6. ~DupData(p)
    <3>1. at[p].pc = "dup" => at[p] \in [pc : {"dup", "dupfd"}, from : Slot, to : Slot]
      BY <1>1 DEF AtType
    <3>2. at[p].pc = "dup" => [at[p] EXCEPT !.pc = "dupfd"].pc = "dupfd"
      BY <3>1
    <3> QED  BY <2>4, <3>2 DEF DupData, In
  <2>7. ~DupFd(p) /\ \A i \in Slot : ~Close(p, i) /\ \A j \in Slot : ~Dup(p, i, j)
    BY <2>4 DEF DupFd, Close, Dup, CloseFd, User
  <2>8. ~Duppage(p)
    BY <2>3, DuppageFacts
  <2>9. ~ForkDone(p)
    <3>1. ASSUME ForkDone(p) PROVE FALSE
      <4>1. at[p].child \in Proc /\ at' = [at EXCEPT ![p] = User, ![at[p].child] = User]
        BY <3>1, AtShape DEF ForkDone, In
      <4>2. at'[p] = User
        BY <1>1, <4>1
      <4> QED  BY <2>3, <4>2 DEF User
    <3> QED  BY <3>1
  <2>10. \A q \in Proc : ~Fork(p, q)
    BY <1>1, <2>3 DEF Fork, In
  <2> QED  BY <1>3, <2>5, <2>6, <2>7, <2>8, <2>9, <2>10 DEF DescStep
<1> QED  BY <1>2, <1>3

LEMMA RunCounted ==
  ASSUME OneCpu, Types, NEW c \in CPU, NEW p \in Proc, Run(c, p)
  PROVE  \A x \in Proc : ~Quiet(x)'
<1>1. cur \in [CPU -> Proc \cup {Idle}] /\ cur' = [cur EXCEPT ![c] = p]
  BY DEF Types, Run
<1>2. ASSUME NEW x \in Proc, OnCpu(x)' PROVE x = p
  BY <1>1, <1>2 DEF OnCpu, OneCpu
<1>3. at'[p].pc = "compare" => at'[p].quiet = FALSE
  BY RunFacts
<1> QED  BY <1>2, <1>3 DEF Quiet, In

-----------------------------------------------------------------------------
(* An end is said to be gone when it is gone.                              *)

\* An end that nobody is copying has a data page for each of its Fd pages, and so has the
\* other end where it is held.
LEMMA DataCoversEnd ==
  ASSUME IsFiniteSet(Proc), DescInv, NEW e \in End, NEW o \in End, o # e, ~Copying(e)
  PROVE  DataRefs >= Refs(e) + Held(o)
<1> DEFINE R == {pi \in Proc \X Slot : fd[pi[1]][pi[2]] = e}
           H == {pi \in Proc \X Slot : at[pi[1]].pc # "new" /\ fd[pi[1]][pi[2]] = o}
           D == {pi \in Proc \X Slot : pi[2] \in data[pi[1]]}
<1>1. R \cap H = {}
  OBVIOUS
<1>2. R \cup H \subseteq D
  <2>1. \A p \in Proc, i \in Slot : fd[p][i] = e => at[p].pc # "new"
    BY DEF DescInv, Marked, Copying, End
  <2> QED  BY <2>1 DEF DescInv, Backed, End
<1>3. IsFiniteSet(R) /\ IsFiniteSet(H) /\ IsFiniteSet(D)
  BY CountsAreNumbers
<1>4. Refs(e) = Cardinality(R) /\ Held(o) = Cardinality(H) /\ DataRefs = Cardinality(D)
  BY DEF Refs, Held, DataRefs
<1> HIDE DEF R, H, D
<1>5. Cardinality(R \cup H) = Cardinality(R) + Cardinality(H) - Cardinality({})
  BY <1>1, <1>3, FS_Union
<1>6. Cardinality(R \cup H) <= Cardinality(D)
  BY <1>2, <1>3, FS_Subset
<1>7. Cardinality({}) = 0
  BY FS_EmptySet
<1>8. Cardinality(R) \in Nat /\ Cardinality(H) \in Nat /\ Cardinality(D) \in Nat
  BY <1>3, FS_CardinalityType
<1> QED  BY <1>4, <1>5, <1>6, <1>7, <1>8

LEMMA ToldIsGone ==
  ASSUME IsFiniteSet(Proc), PipeInv, EndInv, NEW p \in Proc, SaysClosed(p)
  PROVE  LET e == Other(fd[p][at[p].fd])
         IN  e \in End /\ Held(e) = 0 /\ told' = told \cup {e}
<1>1. at[p].pc = "compare" /\ Calling(p) /\ HoldsEnd
  BY DEF SaysClosed, Quiet, In, Calling, PipeInv, RingInv
<1>2. PICK e \in End : e = fd[p][at[p].fd]
  BY <1>1 DEF HoldsEnd
<1>3. PICK o \in End : o = Other(e) /\ o # e
  BY DEF Other, End
<1>4. ~Copying(e)
  BY <1>1, <1>2 DEF EndInv, Apart
<1>5. DataRefs >= Refs(e) + Held(o)
  BY <1>3, <1>4, DataCoversEnd DEF PipeInv
<1>6. Refs(e) = DataRefs
  BY <1>2 DEF EndInv, Counted, SaysClosed
<1>7. Refs(e) \in Nat /\ Held(o) \in Nat
  BY CountsAreNumbers DEF Held
<1>8. Held(o) = 0
  BY <1>5, <1>6, <1>7
<1> QED  BY <1>2, <1>3, <1>8 DEF SaysClosed

\* What a step of a call that tells nobody leaves alone.
LEMMA CallTells ==
  ASSUME NEW p \in Proc, CallStep(p), ~SaysClosed(p)
  PROVE  told' = told /\ eof' = eof
BY DEF CallStep, TakeByte, StoreByte, Advance, ReturnBytes, Wait, CheckFd, CheckAgain, SaysOpen,
       Call, seen

LEMMA NextEndInv ==
  ASSUME IsFiniteSet(Proc), OneCpu, Misuse = {}, PipeInv, PipeInv', EndInv, [Next]_vars
  PROVE  EndInv'
<1>1. Types /\ Types' /\ DescInv /\ HoldsEnd /\ Apart /\ Counted /\ NoFalseEof /\ told \in SUBSET End
  BY DEF PipeInv, RingInv, EndInv, Types
<1>2. ASSUME NEW p \in Proc, CallStep(p)
      PROVE  EndInv'
  <2>1. Apart' /\ Counted'
    BY <1>1, <1>2, CallApart, CallCounted
  <2>2. \A e : Held(e)' = Held(e)
    BY <1>1, <1>2, CallHeld
  <2>3. NoFalseEof'
    <3>1. CASE SaysClosed(p)
      BY <1>1, <2>2, <3>1, ToldIsGone DEF NoFalseEof
    <3>2. CASE ~SaysClosed(p)
      BY <1>1, <1>2, <2>2, <3>2, CallTells DEF NoFalseEof
    <3> QED  BY <3>1, <3>2
  <2> QED  BY <2>1, <2>3 DEF EndInv
<1>3. ASSUME NEW p \in Proc, DescStep(p)
      PROVE  EndInv'
  <2>1. Apart'
    BY <1>1, <1>3, DescApart
  <2>2. Counted'
    BY <1>1, <1>3, DescCounted DEF Counted
  <2>3. told' = told
    BY <1>3 DEF DescStep, CloseData, DupData, DupFd, Duppage, ForkDone, Kill, Fork, Close, Dup, seen
  <2>4. NoFalseEof'
    BY <1>1, <1>3, <2>3, EndsStayGone DEF NoFalseEof
  <2> QED  BY <2>1, <2>2, <2>4 DEF EndInv
<1>4. ASSUME NEW c \in CPU, NEW p \in Proc, Run(c, p)
      PROVE  EndInv'
  <2>1. Apart'
    BY <1>1, <1>4, RunApart
  <2>2. Counted'
    BY <1>1, <1>4, RunCounted DEF Counted
  <2>3. told' = told /\ \A e : Held(e)' = Held(e)
    BY <1>1, <1>4, RunHeld DEF Run, seen
  <2>4. NoFalseEof'
    BY <1>1, <2>3 DEF NoFalseEof
  <2> QED  BY <2>1, <2>2, <2>4 DEF EndInv
<1>5. CASE UNCHANGED vars
  BY <1>5 DEF vars, pipevars, seen, EndInv, Apart, Calling, Copying, Counted, NoFalseEof, Held,
     Quiet, In, OnCpu, Refs
<1> QED  BY <1>2, <1>3, <1>4, <1>5, NextCases

LEMMA InitEndInv == Init => EndInv
<1> SUFFICES ASSUME Init PROVE EndInv
  OBVIOUS
<1>1. \A p \in Proc : at[p].pc \in {"user", "unborn"}
  BY DEF Init, User
<1>2. told = {}
  BY DEF Init
<1> QED  BY <1>1, <1>2 DEF EndInv, Apart, Calling, Counted, Quiet, In, NoFalseEof

\* One CPU (CPUS ?= 1 of GNUmakefile), and nobody calls on an end that a fork is copying.
\* Other environments may be in calls on the other end, may fork it, and may close, dup and
\* die at any time.
Disciplined == IsFiniteSet(Proc) /\ OneCpu /\ Misuse = {}

\* Under this discipline the count that _pipeisclosed has read is right when it is used, and
\* nobody compares the counts of an end that is being copied.
THEOREM PipeEnds == ASSUME Disciplined PROVE Spec => [](PipeInv /\ EndInv)
<1>1. PipeInv /\ PipeInv' /\ EndInv /\ [Next]_vars => EndInv'
  BY NextEndInv DEF Disciplined
<1>2. Spec => []PipeInv
  BY PipeInvariant DEF Disciplined
<1> QED  BY <1>1, <1>2, InitEndInv, PTL DEF Spec

\* read, write and pipeisclosed say that an end is gone only if nobody holds it, under the
\* same discipline; the theorem is false without either half of it.
THEOREM EofIsTrue == ASSUME Disciplined PROVE Spec => []NoFalseEof
<1>1. EndInv => NoFalseEof
  BY DEF EndInv
<1> QED  BY <1>1, PipeEnds, PTL

-----------------------------------------------------------------------------
(* The queue.                                                              *)

\* The numbers from i to j - 1, as a sequence.
Numbers(i, j) == [k \in 1..(j - i) |-> i + k - 1]
Contents == [k \in 1..(wpos - rpos) |-> buf[(rpos + k - 1) % PIPEBUFSIZ]]

\* A sequence of consecutive numbers, and its ends.
LEMMA NumbersFacts ==
  ASSUME NEW i \in Nat, NEW j \in Nat, i <= j
  PROVE  /\ Numbers(i, j) \in Seq(Nat) /\ Len(Numbers(i, j)) = j - i
         /\ Append(Numbers(i, j), j) = Numbers(i, j + 1)
         /\ i = j => Numbers(i, j) = <<>>
         /\ i < j => /\ Numbers(i, j) # <<>> /\ Head(Numbers(i, j)) = i
                     /\ Tail(Numbers(i, j)) = Numbers(i + 1, j)
<1>1. \A a, b \in Nat : a <= b => Numbers(a, b) \in Seq(Nat) /\ Len(Numbers(a, b)) = b - a
  <2> SUFFICES ASSUME NEW a \in Nat, NEW b \in Nat, a <= b
               PROVE  Numbers(a, b) \in Seq(Nat) /\ Len(Numbers(a, b)) = b - a
    OBVIOUS
  <2>1. b - a \in Nat
    OBVIOUS
  <2>2. Numbers(a, b) \in [1..(b - a) -> Nat]
    BY DEF Numbers
  <2>3. Numbers(a, b) \in Seq(Nat)
    BY <2>1, <2>2, SeqDef
  <2>4. DOMAIN Numbers(a, b) = 1..(b - a)
    BY DEF Numbers
  <2> QED  BY <2>1, <2>3, <2>4, LenProperties
<1>2. \A a, b \in Nat : \A k \in 1..(b - a) : Numbers(a, b)[k] = a + k - 1
  BY DEF Numbers
<1>3. Append(Numbers(i, j), j) = Numbers(i, j + 1)
  <2>1. /\ Append(Numbers(i, j), j) \in Seq(Nat) /\ Len(Append(Numbers(i, j), j)) = j - i + 1
        /\ \A k \in 1..(j - i) : Append(Numbers(i, j), j)[k] = Numbers(i, j)[k]
        /\ Append(Numbers(i, j), j)[j - i + 1] = j
    <3>1. Numbers(i, j) \in Seq(Nat) /\ Len(Numbers(i, j)) = j - i
      BY <1>1
    <3> DEFINE s == Numbers(i, j)
    <3>2. s \in Seq(Nat) /\ Len(s) = j - i
      BY <3>1
    <3> HIDE DEF s
    <3>3. /\ Append(s, j) \in Seq(Nat) /\ Len(Append(s, j)) = Len(s) + 1
          /\ \A k \in 1..Len(s) : Append(s, j)[k] = s[k]
          /\ Append(s, j)[Len(s) + 1] = j
      BY <3>2, AppendProperties
    <3> QED  BY <3>2, <3>3 DEF s
  <2>2. Numbers(i, j + 1) \in Seq(Nat) /\ Len(Numbers(i, j + 1)) = j - i + 1
    BY <1>1
  <2>3. ASSUME NEW k \in 1..(j - i + 1)
        PROVE  Append(Numbers(i, j), j)[k] = Numbers(i, j + 1)[k]
    <3>1. Numbers(i, j + 1)[k] = i + k - 1
      BY <1>2
    <3>2. CASE k = j - i + 1
      BY <2>1, <3>1, <3>2
    <3>3. CASE k # j - i + 1
      <4>1. k \in 1..(j - i)
        BY <3>3
      <4> QED  BY <1>2, <2>1, <3>1, <4>1
    <3> QED  BY <3>2, <3>3
  <2> QED  BY <2>1, <2>2, <2>3, SeqEqual
<1>4. i = j => Numbers(i, j) = <<>>
  BY <1>1, EmptySeq
<1>5. ASSUME i < j
      PROVE  /\ Numbers(i, j) # <<>> /\ Head(Numbers(i, j)) = i
             /\ Tail(Numbers(i, j)) = Numbers(i + 1, j)
  <2>1. Numbers(i, j) # <<>>
    BY <1>1, <1>5, EmptySeq
  <2>2. Head(Numbers(i, j)) = i
    <3>1. Head(Numbers(i, j)) = Numbers(i, j)[1]
      BY <1>1, <2>1
    <3> QED  BY <1>2, <1>5, <3>1
  <2>3. /\ Tail(Numbers(i, j)) \in Seq(Nat) /\ Len(Tail(Numbers(i, j))) = j - i - 1
        /\ \A k \in 1..(j - i - 1) : Tail(Numbers(i, j))[k] = Numbers(i, j)[k + 1]
    BY <1>1, <2>1, HeadTailProperties
  <2>4. Numbers(i + 1, j) \in Seq(Nat) /\ Len(Numbers(i + 1, j)) = j - i - 1
    BY <1>1, <1>5
  <2>5. \A k \in 1..(j - i - 1) : Tail(Numbers(i, j))[k] = Numbers(i + 1, j)[k]
    BY <1>2, <1>5, <2>3
  <2> QED  BY <2>1, <2>2, <2>3, <2>4, <2>5, SeqEqual
<1> QED  BY <1>1, <1>3, <1>4, <1>5

\* The ring has the numbers of the bytes that were written and not read.
LEMMA ContentsAreNumbers == RingInv => Contents = Numbers(rpos, wpos)
<1> SUFFICES ASSUME RingInv PROVE Contents = Numbers(rpos, wpos)
  OBVIOUS
<1>1. rpos \in Nat /\ wpos \in Nat /\ rpos <= wpos
  BY DEF RingInv, Types, Ring
<1>2. \A k \in 1..(wpos - rpos) : rpos + k - 1 \in rpos..(wpos - 1)
  BY <1>1
<1>3. \A k \in 1..(wpos - rpos) : buf[(rpos + k - 1) % PIPEBUFSIZ] = rpos + k - 1
  BY <1>2 DEF RingInv, Ring
<1> QED  BY <1>3 DEF Contents, Numbers

Holders == [e \in End |-> Held(e)]

\* What the queue sees of a state.
LEMMA InitQueue ==
  ASSUME IsFiniteSet(Proc), Init
  PROVE  Contents = <<>> /\ out = <<>> /\ Holders = [e \in End |-> 1] /\ told = {}
<1>1. Contents = <<>>
  <2>1. RingInv /\ rpos = 0 /\ wpos = 0
    BY InitPipeInv DEF PipeInv, Init
  <2> QED  BY <2>1, ContentsAreNumbers, NumbersFacts
<1>2. Root \in Proc /\ 0 \in Slot /\ 1 \in Slot
  BY PipeAssumption DEF Slot
<1>3. \A p \in Proc, i \in Slot : /\ fd[p][i] = "r" <=> p = Root /\ i = 0
                                  /\ fd[p][i] = "w" <=> p = Root /\ i = 1
  BY PipeAssumption DEF Init, Slot
<1>4. \A p \in Proc : at[p].pc # "new"
  BY DEF Init, User
<1>5. /\ {pi \in Proc \X Slot : at[pi[1]].pc # "new" /\ fd[pi[1]][pi[2]] = "r"} = {<<Root, 0>>}
      /\ {pi \in Proc \X Slot : at[pi[1]].pc # "new" /\ fd[pi[1]][pi[2]] = "w"} = {<<Root, 1>>}
  BY <1>2, <1>3, <1>4
<1>6. Held("r") = 1 /\ Held("w") = 1
  BY <1>5, FS_Singleton DEF Held
<1>7. Holders = [e \in End |-> 1]
  BY <1>6 DEF Holders, End
<1> QED  BY <1>1, <1>7 DEF Init

\* Advance takes a byte or puts one.
LEMMA AdvanceQueue ==
  ASSUME PipeInv, PipeInv', NEW p \in Proc, Advance(p)
  PROVE  \/ /\ Contents # <<>> /\ Contents' = Tail(Contents)
            /\ out' = Append(out, Head(Contents)) /\ UNCHANGED <<Holders, told>>
         \/ /\ Len(Contents) < PIPEBUFSIZ
            /\ Contents' = Append(Contents, Len(out) + Len(Contents))
            /\ UNCHANGED <<out, Holders, told>>
<1>1. RingInv /\ RingInv' /\ at[p].pc = "move" /\ Types
  BY DEF Advance, In, PipeInv, RingInv
<1>2. rpos \in Nat /\ wpos \in Nat /\ rpos <= wpos /\ Len(out) = rpos
      /\ rpos' \in Nat /\ wpos' \in Nat
  BY <1>1 DEF RingInv, Types, Ring
<1>3. Contents = Numbers(rpos, wpos) /\ Contents' = Numbers(rpos', wpos')
  <2>1. RingInv' => (Contents = Numbers(rpos, wpos))'
    BY ContentsAreNumbers, PTL
  <2> QED  BY <1>1, <2>1, ContentsAreNumbers DEF Numbers
<1>4. UNCHANGED <<Holders, told>>
  <2>1. CallStep(p)
    BY DEF CallStep
  <2>2. \A e : Held(e)' = Held(e)
    BY <1>1, <2>1, CallHeld
  <2> QED  BY <2>2 DEF Advance, Holders
<1>5. CASE at[p].op = "read"
  <2>1. rpos' = rpos + 1 /\ wpos' = wpos /\ out' = Append(out, at[p].byte)
    BY <1>5 DEF Advance
  <2>2. rpos < wpos /\ at[p].byte = rpos
    BY <1>1, <1>5 DEF RingInv, Moving
  <2> QED  BY <1>2, <1>3, <1>4, <2>1, <2>2, NumbersFacts
<1>6. CASE at[p].op = "write"
  <2>1. wpos' = wpos + 1 /\ rpos' = rpos /\ out' = out
    BY <1>6 DEF Advance
  <2>2. wpos < rpos + PIPEBUFSIZ
    BY <1>1, <1>6 DEF RingInv, Moving
  <2>3. Len(Contents) = wpos - rpos /\ Append(Contents, wpos) = Contents'
    BY <1>2, <1>3, <2>1, NumbersFacts
  <2> QED  BY <1>2, <1>4, <2>1, <2>2, <2>3, PipeAssumption
<1> QED  BY <1>1, <1>5, <1>6, AtShape

\* A step that moves no position shows nothing of the bytes.
LEMMA SameContents ==
  ASSUME RingInv, RingInv', rpos' = rpos, wpos' = wpos
  PROVE  Contents' = Contents
<1>1. RingInv' => (Contents = Numbers(rpos, wpos))'
  BY ContentsAreNumbers, PTL
<1> QED  BY <1>1, ContentsAreNumbers DEF Numbers

\* The steps of the queue, in these terms.
QueueStep ==
    \/ /\ Len(Contents) < PIPEBUFSIZ
       /\ Contents' = Append(Contents, Len(out) + Len(Contents))
       /\ UNCHANGED <<out, Holders, told>>
    \/ /\ Contents # <<>> /\ Contents' = Tail(Contents)
       /\ out' = Append(out, Head(Contents)) /\ UNCHANGED <<Holders, told>>
    \/ /\ Holders' \in [End -> Nat]
       /\ \A e \in End : Holders[e] = 0 => Holders'[e] = 0
       /\ UNCHANGED <<Contents, out, told>>
    \/ \E e \in End : Holders[e] = 0 /\ told' = told \cup {e} /\ UNCHANGED <<Contents, out, Holders>>

LEMMA StepRefines ==
  ASSUME Disciplined, PipeInv, PipeInv', EndInv, [Next]_vars
  PROVE  QueueStep \/ UNCHANGED <<Contents, out, Holders, told>>
<1>1. RingInv /\ RingInv' /\ Types /\ Types' /\ IsFiniteSet(Proc)
  BY DEF PipeInv, RingInv, Disciplined
<1>2. ASSUME NEW p \in Proc, CallStep(p)
      PROVE  QueueStep \/ UNCHANGED <<Contents, out, Holders, told>>
  <2>1. Holders' = Holders
    <3>1. \A e : Held(e)' = Held(e)
      BY <1>1, <1>2, CallHeld
    <3> QED  BY <3>1 DEF Holders
  <2>2. CASE Advance(p)
    BY <2>2, AdvanceQueue DEF QueueStep
  <2>3. CASE ~Advance(p)
    <3>1. rpos' = rpos /\ wpos' = wpos /\ out' = out
      BY <1>2, <2>3 DEF CallStep, TakeByte, StoreByte, ReturnBytes, Wait, CheckFd, CheckAgain,
         SaysClosed, SaysOpen, Call, pipevars, seen
    <3>2. Contents' = Contents
      BY <1>1, <3>1, SameContents
    <3>3. CASE SaysClosed(p)
      <4>1. PICK e \in End : Held(e) = 0 /\ told' = told \cup {e}
        BY <1>1, <3>3, ToldIsGone
      <4>2. Holders[e] = 0
        BY <4>1 DEF Holders
      <4> QED  BY <2>1, <3>1, <3>2, <4>1, <4>2 DEF QueueStep
    <3>4. CASE ~SaysClosed(p)
      BY <1>2, <2>1, <3>1, <3>2, <3>4, CallTells
    <3> QED  BY <3>3, <3>4
  <2> QED  BY <2>2, <2>3
<1>3. ASSUME NEW p \in Proc, DescStep(p)
      PROVE  QueueStep
  <2>1. UNCHANGED <<rpos, wpos, out, told>>
    BY <1>3 DEF DescStep, CloseData, DupData, DupFd, Duppage, ForkDone, Kill, Fork, Close, Dup,
       pipevars, seen
  <2>2. Contents' = Contents
    BY <1>1, <2>1, SameContents
  <2>3. \A e \in End : Held(e)' \in Nat
    <3>1. \A S \in SUBSET (Proc \X Slot) : Cardinality(S) \in Nat
      BY <1>1, CountsAreNumbers
    <3> QED  BY <3>1 DEF Held
  <2>4. \A e \in End : Held(e) = 0 => Held(e)' = 0
    BY <1>1, <1>3, EndsStayGone DEF PipeInv
  <2>5. Holders' \in [End -> Nat] /\ \A e \in End : Holders[e] = 0 => Holders'[e] = 0
    BY <2>3, <2>4 DEF Holders
  <2> QED  BY <2>1, <2>2, <2>5 DEF QueueStep
<1>4. ASSUME NEW c \in CPU, NEW p \in Proc, Run(c, p)
      PROVE  UNCHANGED <<Contents, out, Holders, told>>
  <2>1. UNCHANGED <<fd, rpos, wpos, out, told>>
    BY <1>4 DEF Run, pipevars, seen
  <2>2. Contents' = Contents
    BY <1>1, <2>1, SameContents
  <2>3. \A e : Held(e)' = Held(e)
    BY <1>1, <1>4, RunHeld
  <2> QED  BY <2>1, <2>2, <2>3 DEF Holders
<1>5. CASE UNCHANGED vars
  BY <1>5 DEF vars, pipevars, seen, Contents, Holders, Held
<1> QED  BY <1>2, <1>3, <1>4, <1>5, NextCases

\* The bytes of a step.
LEMMA StepBytes ==
  ASSUME IsFiniteSet(Proc), PipeInv, PipeInv', [Next]_vars
  PROVE  [Queue!Put \/ Queue!Take]_<<Contents, out>>
<1>1. RingInv /\ RingInv' /\ Types
  BY DEF PipeInv, RingInv
<1>2. ASSUME NEW p \in Proc, Advance(p)
      PROVE  Queue!Put \/ Queue!Take
  BY <1>2, AdvanceQueue DEF Queue!Put, Queue!Take, Contents, Holders
<1>3. ASSUME \A p \in Proc : ~Advance(p)
      PROVE  UNCHANGED <<Contents, out>>
  <2>1. UNCHANGED <<rpos, wpos, out>>
    <3>1. CASE \E p \in Proc : CallStep(p)
      BY <1>3, <3>1 DEF CallStep, TakeByte, StoreByte, ReturnBytes, Wait, CheckFd, CheckAgain,
         SaysClosed, SaysOpen, Call, pipevars, seen
    <3>2. CASE \E p \in Proc : DescStep(p)
      BY <3>2 DEF DescStep, CloseData, DupData, DupFd, Duppage, ForkDone, Kill, Fork, Close, Dup,
         pipevars, seen
    <3>3. CASE \E c \in CPU, p \in Proc : Run(c, p)
      BY <3>3 DEF Run, pipevars, seen
    <3>4. CASE UNCHANGED vars
      BY <3>4 DEF vars, pipevars, seen
    <3> QED  BY <3>1, <3>2, <3>3, <3>4, NextCases
  <2> QED  BY <1>1, <2>1, SameContents
<1> QED  BY <1>2, <1>3

\* On any number of CPUs, whatever programs do with their descriptors, the bytes of a pipe
\* come out once, in order, and never more than PIPEBUFSIZ are inside (devpipe_read and
\* devpipe_write of lib/pipe.c).  One environment reads at a time and one writes.
THEOREM PipeBytes == ASSUME IsFiniteSet(Proc) PROVE Spec => BytesAreQueue
<1>1. Init => Queue!Init
  BY InitQueue DEF Queue!Init, Contents, Holders
<1>2. PipeInv /\ PipeInv' /\ [Next]_vars => [Queue!Put \/ Queue!Take]_<<Contents, out>>
  BY StepBytes
<1> QED  BY <1>1, <1>2, PipeInvariant, PTL DEF Spec, BytesAreQueue, Queue!ByteSpec, Contents

\* Under the discipline of EofIsTrue a pipe is a bounded FIFO queue whose ends are gone when
\* it says so, whatever the environments do between any two system calls (lib/pipe.c, lib/fd.c
\* and duppage in lib/fork.c).
THEOREM PipeIsQueue == ASSUME Disciplined PROVE Spec => IsQueue
<1>1. Init => Queue!Init
  <2>1. IsFiniteSet(Proc)
    BY DEF Disciplined
  <2> QED  BY <2>1, InitQueue DEF Queue!Init, Contents, Holders
<1>2. PipeInv /\ PipeInv' /\ EndInv /\ [Next]_vars => [Queue!Next]_(Queue!vars)
  <2>1. QueueStep => Queue!Next
    BY DEF QueueStep, Queue!Next, Queue!Put, Queue!Take, Queue!Hold, Queue!Tell, Contents, Holders
  <2>2. UNCHANGED <<Contents, out, Holders, told>> => UNCHANGED Queue!vars
    BY DEF Queue!vars, Contents, Holders
  <2> QED  BY <2>1, <2>2, StepRefines
<1> QED  BY <1>1, <1>2, PipeEnds, PTL DEF Spec, IsQueue, Queue!Spec
=============================================================================
