------------------------------ MODULE FileSys ------------------------------
(***************************************************************************)
(* fs/fs.c and fs/bc.c: the file system of the file server, on top of the  *)
(* block cache.  A block is an array of words, and what a word means is    *)
(* decided by who points to the block: words of the bitmap, entries of an  *)
(* indirect block, the File structures of a directory, or somebody's data. *)
(* Nothing is ever evicted from the cache, so a block that is not cached   *)
(* is one whose copy in memory equals the disk.                            *)
(*                                                                         *)
(* The server handles one request at a time and each is one step here; the *)
(* machine may stop after any write to the disk in it (Crash).  Writes of  *)
(* one block are atomic.  Sizes and offsets are in blocks: a client moves  *)
(* at most a page at a time (struct Fsipc), and the model takes the pieces *)
(* that stay within one block.                                             *)
(***************************************************************************)
EXTENDS Naturals, FiniteSets, Sequences, SequencesExt

CONSTANTS
    NBLOCKS,        \* s_nblocks
    NDIRECT,        \* block pointers in a File
    BLKFILES,       \* File structures in a block
    Name,           \* file names, as the word that stands for them
    Vals,           \* what clients fill their blocks with
    MaxBlocks,      \* no client makes a file longer
    Formatted,      \* lengths of the file fsformat may put on the disk
    Misuse,         \* what this instance lets happen, see Safe
    Hole, NoFile

FileWords == 3 + NDIRECT                \* name, size, f_direct, f_indirect
NINDIRECT == BLKFILES * FileWords       \* words in a block
Blocks    == 0..NBLOCKS - 1
Addr      == 0..NBLOCKS * NINDIRECT - 1 \* the words of the disk map

ASSUME Layout ==
    /\ NBLOCKS \in Nat /\ NDIRECT \in Nat \ {0} /\ BLKFILES \in Nat \ {0}
    /\ 3 < NBLOCKS /\ NBLOCKS <= NINDIRECT      \* one bitmap block
    /\ Name \subseteq Nat \ {0} /\ Name # {}
    /\ Vals \subseteq Blocks        \* data that looks like a block number
    /\ MaxBlocks \in Nat /\ MaxBlocks <= NDIRECT + NINDIRECT
    /\ Formatted \subseteq 0..NDIRECT
    /\ \A len \in Formatted : 3 + len < NBLOCKS

VARIABLES
    mem,        \* the block cache
    disk        \* the disk

vars == <<mem, disk>>

-----------------------------------------------------------------------------
(* Addresses.  A File structure is known by the address of its first word. *)

diskaddr(b)      == b * NINDIRECT
blockno(a)       == a \div NINDIRECT
WordsOf(b)       == diskaddr(b)..diskaddr(b) + NINDIRECT - 1
BitAt(b)         == diskaddr(2) + b
SizeAt(f)        == f + 1
DirectAt(f, n)   == f + 2 + n
IndirectAt(f)    == f + 2 + NDIRECT
Root             == diskaddr(1)
FilesIn(b)       == {diskaddr(b) + j * FileWords : j \in 0..BLKFILES - 1}
Path             == Name \cup {0}          \* 0 is "/"
IsClear(img, b)  == \A a \in WordsOf(b) : img[a] = 0

(* file_block_walk() without alloc: the pointer to block n of f. *)
HasSlot(img, f, n) == n < NDIRECT \/ (n < NDIRECT + NINDIRECT /\ img[IndirectAt(f)] # 0)
SlotAt(img, f, n)  == IF n < NDIRECT THEN DirectAt(f, n)
                      ELSE diskaddr(img[IndirectAt(f)]) + n - NDIRECT
Pointer(img, f, n) == IF HasSlot(img, f, n) THEN img[SlotAt(img, f, n)] ELSE 0

(* The files: the names in the root directory's blocks. *)
DirBlocks(img) == {Pointer(img, Root, i) : i \in 0..img[SizeAt(Root)] - 1} \ {0}
FilesOf(img)   == UNION {{f \in FilesIn(b) : img[f] # 0} : b \in DirBlocks(img)}

-----------------------------------------------------------------------------
(* A request in progress: its view of cache and disk, what the disk was    *)
(* after each of its writes, what it returns, and the steps in it that go  *)
(* beyond what the code can do safely.                                     *)

Now == [mem |-> mem, disk |-> disk, seen |-> {}, err |-> "ok",
        at |-> 0, unsafe |-> {}]

Fail(s, e)   == [s EXCEPT !.err = e]
Then(s, Op(_)) == IF s.err = "ok" THEN Op(s) ELSE s
Put(s, a, v) == [s EXCEPT !.mem[a] = v]
Mark(s, kind, cond) == IF cond THEN [s EXCEPT !.unsafe = @ \cup {kind}] ELSE s

(* flush_block() for the blocks of a sequence, where 0 stands for none. *)
Written(s, X) == [a \in Addr |-> IF blockno(a) \in X \ {0} THEN s.mem[a] ELSE s.disk[a]]
FlushAll(s, blocks) ==
    LET Upto(i) == Written(s, {blocks[k] : k \in 1..i})
    IN  [s EXCEPT !.disk = Upto(Len(blocks)),
                  !.seen = @ \cup {Upto(i) : i \in 1..Len(blocks)}]
Flush(s, b) == FlushAll(s, <<b>>)

\* Mutant: the bitmap is not flushed.
AllocBlockNoFlush(s) ==
    LET avail == {b \in Blocks : s.mem[BitAt(b)] = 1}
    IN  IF avail = {} THEN Fail(s, "NO_DISK")
        ELSE [Put(s, BitAt(Min(avail)), 0) EXCEPT !.at = Min(avail)]

AllocBlock(s) ==
    LET avail == {b \in Blocks : s.mem[BitAt(b)] = 1}
        b     == Min(avail)
    IN  IF avail = {} THEN Fail(s, "NO_DISK")
        ELSE [Flush(Put(s, BitAt(b), 0), 2) EXCEPT !.at = b]

(* file_block_walk() or file_get_block() links in a new block at a. *)
Link(s, a) == Then(AllocBlock(s), LAMBDA n : Flush(Put(n, a, n.at), n.at))

(* Leaves the address of the pointer in s.at. *)
FileBlockWalk(s, f, n) ==
    IF n >= NDIRECT + NINDIRECT THEN Fail(s, "INVAL")
    ELSE IF HasSlot(s.mem, f, n) THEN [s EXCEPT !.at = SlotAt(s.mem, f, n)]
    ELSE Then(Link(s, IndirectAt(f)), LAMBDA l :
           Mark([l EXCEPT !.at = SlotAt(l.mem, f, n)], "dirty_meta", ~IsClear(l.mem, l.at)))

(* Leaves the block number in s.at. *)
FileGetBlock(s, f, n) ==
    Then(FileBlockWalk(s, f, n), LAMBDA w :
      IF w.mem[w.at] # 0 THEN [w EXCEPT !.at = w.mem[w.at]]
      ELSE Then(Link(w, w.at), LAMBDA l :
             Mark(l, "dirty_meta", f = Root /\ ~IsClear(l.mem, l.at))))

-----------------------------------------------------------------------------
(* Directories.  Only the root holds files: nothing creates another one.   *)

(* The loop of dir_lookup() and dir_alloc_file().  Leaves the first File   *)
(* structure with this name in s.at, or 0 if there is none.                *)
Found(g, name) == {f \in FilesIn(g.at) : g.mem[f] = name}

DirLook(s, i, name) ==
    IF s.at # 0 THEN s
    ELSE Then(FileGetBlock(s, Root, i), LAMBDA g :
           [g EXCEPT !.at = IF Found(g, name) = {} THEN 0 ELSE Min(Found(g, name))])

DirScan(s, name) ==
    LET n == s.mem[SizeAt(Root)]
        scan[i \in 0..n] == IF i = 0 THEN [s EXCEPT !.at = 0, !.err = "ok"]
                            ELSE Then(scan[i - 1], LAMBDA t : DirLook(t, i - 1, name))
    IN  scan[n]

DirLookup(s, name) ==
    Then(DirScan(s, name), LAMBDA d : IF d.at = 0 THEN Fail(d, "NOT_FOUND") ELSE d)

(* "/" is the root itself, which a client opens like a file. *)
WalkPath(s, path) == IF path = 0 THEN [s EXCEPT !.at = Root, !.err = "ok"] ELSE DirLookup(s, path)

DirAllocFile(s) ==
    LET Grow(d, n) == FileGetBlock(Put(d, SizeAt(Root), n + 1), Root, n) IN
    Then(DirScan(s, 0), LAMBDA d : IF d.at # 0 THEN d ELSE
      Then(Grow(d, d.mem[SizeAt(Root)]), LAMBDA g : [g EXCEPT !.at = diskaddr(g.at)]))

-----------------------------------------------------------------------------
(* Files. *)

\* Mutant: the indirect block is not flushed.
FileFlushNoIndirect(s, f) ==
    LET ptrs == [i \in 1..s.mem[SizeAt(f)] |-> Pointer(s.mem, f, i - 1)]
    IN  FlushAll(s, Append(ptrs, blockno(f)))

FileFlush(s, f) ==
    LET ptrs == [i \in 1..s.mem[SizeAt(f)] |-> Pointer(s.mem, f, i - 1)]
    IN  FlushAll(s, Append(Append(ptrs, blockno(f)), s.mem[IndirectAt(f)]))

\* Mutant: the directory is not flushed.
FileCreateNoFlush(s, path) ==
    LET Make(d) == CASE d.err = "ok" -> Fail(d, "EXISTS")
                     [] d.err = "NOT_FOUND" ->
                          Then(DirAllocFile(d), LAMBDA a : Put(a, a.at, path))
                     [] OTHER -> d
    IN  Make(WalkPath(s, path))

FileCreate(s, path) ==
    LET Make(d) == CASE d.err = "ok" -> Fail(d, "EXISTS")
                     [] d.err = "NOT_FOUND" ->
                          Then(DirAllocFile(d), LAMBDA a : FileFlush(Put(a, a.at, path), Root))
                     [] OTHER -> d
    IN  Make(WalkPath(s, path))

\* Mutant: f_indirect is cleared and its block not freed.
TruncateLosesIndirect(s, f, n) ==
    LET slots == {SlotAt(s.mem, f, i) : i \in {j \in n..s.mem[SizeAt(f)] - 1 : HasSlot(s.mem, f, j)}}
        bits  == {BitAt(s.mem[a]) : a \in {b \in slots : s.mem[b] # 0}}
        gone  == slots \cup (IF n <= NDIRECT THEN {IndirectAt(f)} ELSE {})
    IN  [s EXCEPT !.mem = [a \in Addr |-> IF a \in gone THEN 0
                                          ELSE IF a \in bits THEN 1 ELSE s.mem[a]]]

(* file_truncate_blocks() and file_free_block().  The pointers that go are *)
(* those of the blocks beyond n, and f_indirect if all fit in f_direct.    *)
TruncateBlocks(s, f, n) ==
    LET drop  == n <= NDIRECT /\ s.mem[IndirectAt(f)] # 0
        slots == {SlotAt(s.mem, f, i) : i \in {j \in n..s.mem[SizeAt(f)] - 1 : HasSlot(s.mem, f, j)}}
                   \cup (IF drop THEN {IndirectAt(f)} ELSE {})
        bits  == {BitAt(s.mem[a]) : a \in {b \in slots : s.mem[b] # 0}}
    IN  Mark([s EXCEPT !.mem = [a \in Addr |-> IF a \in slots THEN 0
                                               ELSE IF a \in bits THEN 1 ELSE s.mem[a]]],
             "partial_truncate", s.mem[IndirectAt(f)] # 0 /\ ~drop)

FileSetSize(s, f, n) ==
    LET t == IF s.mem[SizeAt(f)] > n THEN TruncateBlocks(s, f, n) ELSE s
        u == Mark(t, "write_root", f = Root /\ n # s.mem[SizeAt(f)])
    IN  Flush(Put(u, SizeAt(f), n), blockno(f))

(* file_read() and file_write() of one block: the n-th, filled with v. *)
FileRead(s, f, n) == IF n < s.mem[SizeAt(f)] THEN FileGetBlock(s, f, n) ELSE s

FileWrite(s, f, n, v) ==
    LET Room == IF n + 1 > s.mem[SizeAt(f)] THEN FileSetSize(s, f, n + 1) ELSE s
    IN  Then(FileGetBlock(Mark(Room, "write_root", f = Root), f, n), LAMBDA g :
          [g EXCEPT !.mem = [a \in Addr |-> IF blockno(a) = g.at THEN v ELSE g.mem[a]]])

FsSync(s) == FlushAll(s, [i \in 1..NBLOCKS - 1 |-> i])

(* serve_open(), once it has a slot of the open file table. *)
ServeOpen(s, path, mode) ==
    LET Exists(c) == IF c.err = "EXISTS" /\ "O_EXCL" \notin mode THEN WalkPath(c, path) ELSE c
        Find == IF "O_CREAT" \in mode THEN Exists(FileCreate(s, path)) ELSE WalkPath(s, path)
    IN  Then(Find, LAMBDA o :
          WalkPath(IF "O_TRUNC" \in mode THEN FileSetSize(o, o.at, 0) ELSE o, path))

-----------------------------------------------------------------------------
(* What fsformat makes: no file, or one of this name and length. *)
Empty == [a \in Addr |-> IF a \in {BitAt(b) : b \in 3..NBLOCKS - 1} THEN 1 ELSE 0]
Format(name, len) ==
    LET dir == 3 + len
        f   == diskaddr(dir)
    IN  [a \in Addr |->
          CASE a \in {BitAt(b) : b \in 3..dir} -> 0
            [] a = SizeAt(Root) -> 1
            [] a = DirectAt(Root, 0) -> dir
            [] a = f -> name
            [] a = SizeAt(f) -> len
            [] a \in {DirectAt(f, i) : i \in 0..len - 1} -> 3 + a - DirectAt(f, 0)
            [] OTHER -> Empty[a]]

Init ==
    /\ mem \in {Empty} \cup {Format(Min(Name), len) : len \in Formatted}
    /\ disk = mem

(* The requests the code does not survive, left out unless Misuse has them:*)
(*   dirty_meta        a block that is not clear becomes an indirect or a  *)
(*                     directory block                                     *)
(*   partial_truncate  a file loses blocks and keeps its indirect block    *)
(*   write_root        a client writes to "/", or changes its size: nobody *)
(*                     looks whether the file is the directory             *)
Safe(s) == s.unsafe \subseteq Misuse

(* A request is answered, or the machine stops after one of its writes and *)
(* boots from what the disk holds then.                                    *)
Serve(s) ==
    /\ Safe(s)
    /\ \/ mem' = s.mem /\ disk' = s.disk
       \/ mem' \in s.seen /\ disk' = mem'

Modes == {{}, {"O_TRUNC"}} \cup {M \in SUBSET {"O_CREAT", "O_EXCL", "O_TRUNC"} : "O_CREAT" \in M}

(* Requests other than open name an open file: some File structure that    *)
(* serve_open() found, or the root.  It stays where it is for ever, so     *)
(* being open makes no difference here.                                    *)
Open(path, mode) == Serve(ServeOpen(Now, path, mode))
SetSize(f, k)    == Serve(FileSetSize(Now, f, k))
Read(f, i)       == Serve(FileRead(Now, f, i))
Write(f, i, v)   == Serve(FileWrite(Now, f, i, v))
FlushFile(f)     == Serve(FileFlush(Now, f))
Sync             == Serve(FsSync(Now))
Reboot           == mem' = disk /\ UNCHANGED disk

Next ==
    \/ \E path \in Path, mode \in Modes : Open(path, mode)
    \/ \E f \in FilesOf(mem) \cup {Root} :
         \/ \E k \in 0..MaxBlocks : SetSize(f, k)
         \/ \E i \in 0..MaxBlocks - 1 : Read(f, i)
         \/ \E i \in 0..MaxBlocks - 1, v \in Vals : Write(f, i, v)
         \/ FlushFile(f)
    \/ Sync
    \/ Reboot

Spec == Init /\ [][Next]_vars

-----------------------------------------------------------------------------
(* Properties. *)

(* Every word in a file and in its indirect block that points to a block.  *)
SlotsOf(img, f) ==
    {DirectAt(f, i) : i \in 0..NDIRECT - 1} \cup {IndirectAt(f)}
      \cup UNION {WordsOf(b) : b \in {img[IndirectAt(f)]} \ {0}}
Links(img) == {a \in UNION {SlotsOf(img, f) : f \in FilesOf(img) \cup {Root}} : img[a] # 0}

(* Every block a file points to, within its size or not, is marked in use, *)
(* and nothing else points to it: two files never share a block, and no    *)
(* later allocation hands it out, wherever the machine stopped, as long as *)
(* no client writes or truncates "/" and none cuts a file within its       *)
(* indirect block (Safe).                                                  *)
BlockOwned ==
    \A a \in Links(mem) :
      /\ mem[a] \in 3..NBLOCKS - 1
      /\ mem[BitAt(mem[a])] = 0
      /\ \A b \in Links(mem) : mem[a] = mem[b] => a = b

(* A block in use that nothing points to is lost for ever.  No request     *)
(* that is answered loses one, whether it succeeds or fails half way       *)
(* (file_truncate_blocks, file_get_block), those that Safe is about left   *)
(* out.  A stop of the machine may: alloc_block() writes the bitmap before *)
(* anything points to the block.                                           *)
Lost(img) == {b \in 3..NBLOCKS - 1 : img[BitAt(b)] = 0} \ {img[a] : a \in Links(img)}
NoLeak ==
    LET Keeps(s) == Safe(s) => Lost(s.mem) \subseteq Lost(mem)
    IN  /\ \A path \in Path, mode \in Modes : Keeps(ServeOpen(Now, path, mode))
        /\ \A f \in FilesOf(mem) \cup {Root}, i \in 0..MaxBlocks :
              /\ Keeps(FileSetSize(Now, f, i))
              /\ i < MaxBlocks => /\ Keeps(FileRead(Now, f, i))
                                 /\ \A v \in Vals : Keeps(FileWrite(Now, f, i, v))

(* The files as a client sees them, and would see them after a crash.      *)
Contents(img, f) ==
    [i \in 1..img[SizeAt(f)] |->
       LET p == Pointer(img, f, i - 1)
       IN  IF p = 0 THEN Hole ELSE [w \in 1..NINDIRECT |-> img[diskaddr(p) + w - 1]]]
FilesNamed(img, n) == {f \in FilesOf(img) : img[f] = n}
FileOf(img, n) ==
    LET all == {Contents(img, f) : f \in FilesNamed(img, n)}
    IN  IF all = {} THEN NoFile ELSE CHOOSE c \in all : TRUE

(* A file that has just been flushed, or everything after a sync, is on    *)
(* the disk as it is in memory: a client's data outlive the machine.       *)
FlushIsDurable ==
    \A n \in Name :
      /\ FileOf(FsSync(Now).disk, n) = FileOf(mem, n)
      /\ \A f \in FilesNamed(mem, n) :
           FileOf(FileFlush(Now, f).disk, n) = FileOf(mem, n)

(* The file system is a set of independent files: requests on one never    *)
(* change another, those on "/" that Safe lets pass change none, and what  *)
(* is on the disk survives every crash.                                    *)
Files == INSTANCE FileSysSpec WITH
    file  <- [n \in Name |-> FileOf(mem, n)],
    saved <- [n \in Name |-> FileOf(disk, n)]
IsFiles == Files!Spec
=============================================================================
