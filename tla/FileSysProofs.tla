-------------------------- MODULE FileSysProofs --------------------------
(***************************************************************************)
(* BlockOwned and FlushIsDurable of FileSys, for a disk of any size, any   *)
(* names and any lengths, as long as no request does what Safe is about:   *)
(* one that takes a block with old contents for one of pointers or names,  *)
(* cuts a file within its indirect block, or writes or truncates "/".      *)
(*                                                                         *)
(* A request is a composition of the functions of fs.c, so the proof is    *)
(* one lemma for each of them about the state of a request in progress,    *)
(* under it one for each change of the two images such a function makes:   *)
(* blocks are flushed (Mixed), a new block is linked in (Linked), pointers *)
(* are cleared (Cut), and words that point nowhere change (Same).          *)
(***************************************************************************)
EXTENDS FileSys, TLAPS, WellFoundedInduction, NaturalsInduction, FiniteSetTheorems

(* The requests that share or lose blocks do not happen.                   *)
Careful == Misuse \cap {"dirty_meta", "partial_truncate", "write_root"} = {}

-----------------------------------------------------------------------------
(* The inductive invariant: what points to what in an image.  All File     *)
(* structures of the directory are taken, with a name or without, and all  *)
(* the pointers, within the size of the file or not.                       *)

Image == [Addr -> Nat]

IndirectWords(img, f) == UNION {WordsOf(b) : b \in {img[IndirectAt(f)]} \ {0}}
DataSlots(img, f) == {DirectAt(f, i) : i \in 0..NDIRECT - 1} \cup IndirectWords(img, f)
DirBlks(img)   == {img[a] : a \in DataSlots(img, Root)} \ {0}
Structs(img)   == UNION {FilesIn(b) : b \in DirBlks(img)}
AllSlots(img)  == UNION {SlotsOf(img, f) : f \in Structs(img) \cup {Root}}
Pointers(img)  == {a \in AllSlots(img) : img[a] # 0}

PointToData(img) == \A a \in Pointers(img) : img[a] \in 3..NBLOCKS - 1
InUse(img)       == \A a \in Pointers(img) : img[BitAt(img[a])] = 0
Injective(img)   == \A a, b \in Pointers(img) : img[a] = img[b] => a = b
Reserved(img)    == \A b \in 0..2 : img[BitAt(b)] # 1
InSize(img)      == \A i \in 0..NDIRECT + NINDIRECT - 1 :
                      Pointer(img, Root, i) # 0 => i < img[SizeAt(Root)]
NamedOnce(img)   == \A f, g \in Structs(img) : img[f] = img[g] /\ img[f] # 0 => f = g
ZeroBlock(img)   == \A a \in WordsOf(0) : img[a] = 0

Good(img) ==
    /\ img \in Image /\ PointToData(img) /\ InUse(img) /\ Injective(img)
    /\ Reserved(img) /\ InSize(img) /\ NamedOnce(img) /\ ZeroBlock(img)

(* The disk has the pointers and the names of the cache, or none yet.      *)
Older(d, m) ==
    /\ d \in Image /\ Reserved(d) /\ InSize(d) /\ ZeroBlock(d)
    /\ \A a \in AllSlots(m) : d[a] \in {0, m[a]}
    /\ \A f \in Structs(m) : d[f] \in {0, m[f]}
    /\ \A a \in Pointers(m) : d[BitAt(m[a])] = 0

(* Every named file is on the disk, under its name. *)
Visible(d, m) == \A f \in Structs(m) : m[f] # 0 => f \in Structs(d) /\ d[f] = m[f]

FSInv == Good(mem) /\ Older(disk, mem) /\ Visible(disk, mem)

-----------------------------------------------------------------------------
(* Natural numbers. *)

LEMMA Induction ==
    ASSUME NEW S, 0 \in S, \A n \in Nat : n \in S => n + 1 \in S
    PROVE  Nat \subseteq S
<1> DEFINE T == Nat \ S
           R == OpToRel(<, Nat)
<1>1. SUFFICES ASSUME T # {} PROVE FALSE OBVIOUS
<1>2. IsWellFoundedOn(R, Nat) BY NatLessThanWellFounded
<1>3. PICK x \in T : \A y \in T : <<y, x>> \notin R
  <2> HIDE DEF T, R
  <2> T \subseteq Nat BY DEF T
  <2> QED BY <1>1, <1>2, WFMin
<1>4. x # 0 /\ x \in Nat OBVIOUS
<1>5. x - 1 \in Nat /\ <<x - 1, x>> \in R BY <1>4 DEF OpToRel
<1>6. x - 1 \in S BY <1>3, <1>5
<1>7. (x - 1) + 1 \in S BY <1>5, <1>6
<1> QED BY <1>4, <1>7

LEMMA MinIn ==
    ASSUME NEW S, S \subseteq Nat, S # {}
    PROVE  Min(S) \in S
<1> DEFINE R == OpToRel(<, Nat)
<1>1. IsWellFoundedOn(R, Nat) BY NatLessThanWellFounded
<1>2. PICK x \in S : \A y \in S : <<y, x>> \notin R
  <2> HIDE DEF R
  <2> QED BY <1>1, WFMin
<1>3. ASSUME NEW y \in S PROVE x <= y
  <2>1. x \in Nat /\ y \in Nat /\ <<y, x>> \notin R BY <1>2
  <2>2. ~(y < x) BY <2>1 DEF OpToRel
  <2> HIDE DEF R
  <2> QED BY <2>1, <2>2
<1> QED BY <1>3 DEF Min

LEMMA Quotient ==
    ASSUME NEW m \in Nat \ {0}, NEW q \in Nat, NEW r \in 0..m - 1
    PROVE  (q * m + r) \div m = q
OBVIOUS

LEMMA Remainder ==
    ASSUME NEW m \in Nat \ {0}, NEW a \in Nat
    PROVE  \E q \in Nat, r \in 0..m - 1 : a = q * m + r /\ q = a \div m
<1>1. a \div m \in Nat /\ a - (a \div m) * m \in 0..m - 1 OBVIOUS
<1>2. a = (a \div m) * m + (a - (a \div m) * m) BY <1>1
<1> QED BY <1>1, <1>2

LEMMA Unique ==
    ASSUME NEW m \in Nat \ {0}, NEW q \in Nat, NEW r \in 0..m - 1,
           NEW p \in Nat, NEW s \in 0..m - 1, q * m + r = p * m + s
    PROVE  q = p /\ r = s
OBVIOUS

-----------------------------------------------------------------------------
(* Where words are. *)

LEMMA Sizes ==
    /\ FileWords \in Nat /\ FileWords = 3 + NDIRECT /\ NDIRECT \in Nat \ {0}
    /\ NINDIRECT \in Nat \ {0} /\ NINDIRECT = BLKFILES * FileWords
    /\ BLKFILES \in Nat \ {0} /\ NBLOCKS \in Nat /\ 3 < NBLOCKS /\ NBLOCKS <= NINDIRECT
    /\ FileWords <= NINDIRECT
BY Layout DEF FileWords, NINDIRECT

LEMMA Monotone ==
    ASSUME NEW m \in Nat, NEW p \in Nat, NEW q \in Nat, p <= q
    PROVE  p * m <= q * m
<1>1. (q - p) * m >= 0 OBVIOUS
<1>2. (q - p) * m = q * m - p * m OBVIOUS
<1> QED BY <1>1, <1>2

LEMMA Product ==
    ASSUME NEW m \in Nat, NEW p \in Nat, NEW q \in Nat, p + 1 <= q
    PROVE  p * m \in Nat /\ p * m + m <= q * m
<1>1. (p + 1) * m = p * m + m OBVIOUS
<1>2. (p + 1) * m <= q * m BY Monotone
<1> QED BY <1>1, <1>2

LEMMA WordIn ==
    ASSUME NEW b \in Blocks, NEW r \in 0..NINDIRECT - 1
    PROVE  /\ diskaddr(b) + r \in Addr /\ diskaddr(b) \in Nat
           /\ blockno(diskaddr(b) + r) = b
           /\ diskaddr(b) + r \in WordsOf(b)
<1>1. b \in Nat /\ b + 1 <= NBLOCKS BY Sizes DEF Blocks
<1>2. b * NINDIRECT \in Nat /\ b * NINDIRECT + NINDIRECT <= NBLOCKS * NINDIRECT
  BY <1>1, Sizes, Product
<1>3. b * NINDIRECT + r \in 0..NBLOCKS * NINDIRECT - 1 BY <1>2, Sizes
<1>4. (b * NINDIRECT + r) \div NINDIRECT = b BY <1>1, Sizes, Quotient
<1>5. b * NINDIRECT + r \in b * NINDIRECT..b * NINDIRECT + NINDIRECT - 1 BY <1>2, Sizes
<1> QED BY <1>2, <1>3, <1>4, <1>5 DEF diskaddr, blockno, Addr, WordsOf

LEMMA WordsIn ==
    ASSUME NEW b \in Blocks
    PROVE  \A a : a \in WordsOf(b) => a \in Addr /\ blockno(a) = b /\ a - diskaddr(b) \in 0..NINDIRECT - 1
<1> SUFFICES ASSUME NEW a \in WordsOf(b)
             PROVE  a \in Addr /\ blockno(a) = b /\ a - diskaddr(b) \in 0..NINDIRECT - 1
  OBVIOUS
<1>0. diskaddr(b) \in Nat BY WordIn, Sizes
<1>1. a - diskaddr(b) \in 0..NINDIRECT - 1 /\ a \in Int BY <1>0, Sizes DEF WordsOf
<1>2. a = diskaddr(b) + (a - diskaddr(b)) BY <1>0, <1>1
<1> QED BY <1>1, <1>2, WordIn

LEMMA BlockOf ==
    ASSUME NEW a \in Addr
    PROVE  blockno(a) \in Blocks /\ a \in WordsOf(blockno(a))
<1>1. a \in Nat /\ a < NBLOCKS * NINDIRECT BY Sizes DEF Addr
<1>2. PICK q \in Nat, r \in 0..NINDIRECT - 1 :
          a = q * NINDIRECT + r /\ q = a \div NINDIRECT
  BY <1>1, Sizes, Remainder
<1>3. q < NBLOCKS
  <2> SUFFICES ASSUME NBLOCKS <= q PROVE FALSE BY <1>2, Sizes
  <2>1. NBLOCKS * NINDIRECT <= q * NINDIRECT BY <1>2, Sizes, Monotone
  <2> QED BY <2>1, <1>1, <1>2, Sizes
<1>4. q \in Blocks BY <1>2, <1>3, Sizes DEF Blocks
<1>6. a = diskaddr(q) + r BY <1>2 DEF diskaddr
<1>7. blockno(a) = q /\ a \in WordsOf(q) BY <1>2, <1>4, <1>6, WordIn
<1> QED BY <1>4, <1>7

LEMMA BitIn ==
    ASSUME NEW b \in Blocks
    PROVE  BitAt(b) \in WordsOf(2) /\ BitAt(b) \in Addr /\ blockno(BitAt(b)) = 2
<1>1. 2 \in Blocks /\ b \in 0..NINDIRECT - 1 BY Sizes DEF Blocks
<1> QED BY <1>1, WordIn DEF BitAt

LEMMA BitsDiffer ==
    ASSUME NEW b \in Blocks, NEW c \in Blocks, BitAt(b) = BitAt(c)
    PROVE  b = c
<1>1. 2 \in Blocks /\ b \in Nat /\ c \in Nat /\ 0 \in 0..NINDIRECT - 1 BY Sizes DEF Blocks
<1>2. diskaddr(2) \in Nat BY <1>1, WordIn
<1> QED BY <1>1, <1>2 DEF BitAt

(* The words of a File structure are in its block and in no other one. *)
LEMMA FileIn ==
    ASSUME NEW b \in Blocks, NEW f \in FilesIn(b), NEW x \in 0..FileWords - 1
    PROVE  f \in Nat /\ f + x \in WordsOf(b) /\ f + x \in Addr /\ blockno(f + x) = b
<1>1. PICK j \in 0..BLKFILES - 1 : f = diskaddr(b) + j * FileWords BY DEF FilesIn
<1>2. j * FileWords \in Nat /\ j * FileWords + FileWords <= BLKFILES * FileWords
  BY Sizes, Product, j \in Nat, j + 1 <= BLKFILES
<1>3. j * FileWords + x \in 0..NINDIRECT - 1 BY <1>2, Sizes
<1>4. diskaddr(b) \in Nat BY WordIn, Sizes
<1>5. f + x = diskaddr(b) + (j * FileWords + x) BY <1>1, <1>2, <1>4
<1> QED BY <1>1, <1>2, <1>3, <1>4, <1>5, WordIn, WordsIn

LEMMA FileWordsDiffer ==
    ASSUME NEW b \in Blocks, NEW f \in FilesIn(b), NEW x \in 0..FileWords - 1,
           NEW c \in Blocks, NEW g \in FilesIn(c), NEW y \in 0..FileWords - 1,
           f + x = g + y
    PROVE  b = c /\ f = g /\ x = y
<1>1. b = c BY FileIn
<1>2. PICK j \in 0..BLKFILES - 1 : f = diskaddr(b) + j * FileWords BY DEF FilesIn
<1>3. PICK i \in 0..BLKFILES - 1 : g = diskaddr(c) + i * FileWords BY DEF FilesIn
<1>4. diskaddr(b) \in Nat BY WordIn, Sizes
<1>5. j \in Nat /\ i \in Nat /\ j * FileWords \in Nat /\ i * FileWords \in Nat BY Sizes
<1>6. j * FileWords + x = i * FileWords + y BY <1>1, <1>2, <1>3, <1>4, <1>5
<1>7. FileWords \in Nat \ {0} BY Sizes
<1>8. i = j /\ x = y BY <1>5, <1>6, <1>7, Unique
<1> QED BY <1>1, <1>2, <1>3, <1>8

LEMMA RootIn == 1 \in Blocks /\ Root \in FilesIn(1)
<1>1. 0 \in 0..BLKFILES - 1 /\ 1 \in Blocks /\ diskaddr(1) \in Nat /\ 0 * FileWords = 0
  BY Sizes, WordIn DEF Blocks
<1> QED BY <1>1 DEF Root, FilesIn

LEMMA Places ==
    ASSUME NEW b \in Blocks, NEW f \in FilesIn(b)
    PROVE  /\ f \in WordsOf(b) /\ SizeAt(f) \in WordsOf(b) /\ IndirectAt(f) \in WordsOf(b)
           /\ \A i \in 0..NDIRECT - 1 : DirectAt(f, i) \in WordsOf(b)
<1>1. \A x \in 0..FileWords - 1 : f + x \in WordsOf(b) /\ f \in Nat BY FileIn
<1>2. 0 \in 0..FileWords - 1 /\ 1 \in 0..FileWords - 1 /\ 2 + NDIRECT \in 0..FileWords - 1 BY Sizes
<1>3. f \in Nat BY <1>1, <1>2
<1>4. f \in WordsOf(b) /\ f + 0 = f BY <1>1, <1>2, <1>3
<1>5. SizeAt(f) \in WordsOf(b) BY <1>1, <1>2 DEF SizeAt
<1>6. IndirectAt(f) \in WordsOf(b)
  <2> f + (2 + NDIRECT) = IndirectAt(f) BY <1>3, Sizes DEF IndirectAt
  <2> QED BY <1>1, <1>2
<1>7. ASSUME NEW i \in 0..NDIRECT - 1 PROVE DirectAt(f, i) \in WordsOf(b)
  <2> f + (2 + i) = DirectAt(f, i) BY <1>3, Sizes DEF DirectAt
  <2> 2 + i \in 0..FileWords - 1 BY Sizes
  <2> QED BY <1>1
<1> QED BY <1>4, <1>5, <1>6, <1>7

(* Two fields are the same word only if they are the same field. *)
LEMMA FieldsDiffer ==
    ASSUME NEW b \in Blocks, NEW f \in FilesIn(b), NEW c \in Blocks, NEW g \in FilesIn(c)
    PROVE  /\ IndirectAt(f) = IndirectAt(g) => f = g
           /\ SizeAt(f) = SizeAt(g) => f = g
           /\ f # SizeAt(g) /\ IndirectAt(f) # g /\ IndirectAt(f) # SizeAt(g)
           /\ \A i, j \in 0..NDIRECT - 1 : DirectAt(f, i) = DirectAt(g, j) => f = g /\ i = j
           /\ \A i \in 0..NDIRECT - 1 : DirectAt(f, i) # g /\ DirectAt(f, i) # SizeAt(g)
                                          /\ DirectAt(f, i) # IndirectAt(g)
<1>1. \A x, y \in 0..FileWords - 1 : f + x = g + y => f = g /\ x = y
  BY FileWordsDiffer
<1>2. 0 \in 0..FileWords - 1 /\ 1 \in 0..FileWords - 1 /\ 2 + NDIRECT \in 0..FileWords - 1
      /\ 0 # 1 /\ 2 + NDIRECT # 0 /\ 2 + NDIRECT # 1
  BY Sizes
<1>3. f \in Nat /\ g \in Nat BY FileIn, <1>2
<1>4. f + 0 = f /\ g + 0 = g /\ f + 1 = SizeAt(f) /\ g + 1 = SizeAt(g)
      /\ f + (2 + NDIRECT) = IndirectAt(f) /\ g + (2 + NDIRECT) = IndirectAt(g)
  BY <1>3, Sizes DEF SizeAt, IndirectAt
<1>5. \A i \in 0..NDIRECT - 1 :
        /\ 2 + i \in 0..FileWords - 1 /\ 2 + i # 0 /\ 2 + i # 1 /\ 2 + i # 2 + NDIRECT
        /\ f + (2 + i) = DirectAt(f, i) /\ g + (2 + i) = DirectAt(g, i)
  BY <1>3, Sizes DEF DirectAt
<1>6. \A i, j \in 0..NDIRECT - 1 : DirectAt(f, i) = DirectAt(g, j) => f = g /\ i = j
  <2> TAKE i, j \in 0..NDIRECT - 1
  <2> HAVE DirectAt(f, i) = DirectAt(g, j)
  <2>1. f = g /\ 2 + i = 2 + j BY <1>1, <1>5
  <2> QED BY <2>1
<1>7. \A i \in 0..NDIRECT - 1 : DirectAt(f, i) # g /\ DirectAt(f, i) # SizeAt(g)
                                 /\ DirectAt(f, i) # IndirectAt(g)
  <2> TAKE i \in 0..NDIRECT - 1
  <2> QED BY <1>1, <1>2, <1>4, <1>5
<1>8. /\ IndirectAt(f) = IndirectAt(g) => f = g
      /\ SizeAt(f) = SizeAt(g) => f = g
      /\ f # SizeAt(g) /\ IndirectAt(f) # g /\ IndirectAt(f) # SizeAt(g)
  BY <1>1, <1>2, <1>4
<1> QED BY <1>6, <1>7, <1>8

-----------------------------------------------------------------------------
(* The shape of an image in which no two words point to the same block.    *)

Owners(img) == Structs(img) \cup {Root}
Indirects(img) == {img[IndirectAt(f)] : f \in Owners(img)} \ {0}
Tree(img) == img \in Image /\ PointToData(img) /\ Injective(img)

LEMMA SlotsAre ==
    ASSUME NEW img, NEW f
    PROVE  SlotsOf(img, f) = DataSlots(img, f) \cup {IndirectAt(f)}
BY DEF SlotsOf, DataSlots, IndirectWords

LEMMA SlotsIn ==
    ASSUME NEW img, NEW f \in Owners(img)
    PROVE  SlotsOf(img, f) \subseteq AllSlots(img) /\ DataSlots(img, f) \subseteq AllSlots(img)
           /\ IndirectAt(f) \in AllSlots(img)
BY SlotsAre DEF AllSlots, Owners

LEMMA RootOwns == ASSUME NEW img PROVE Root \in Owners(img)
BY DEF Owners

LEMMA DataBlocks ==
    /\ 3..NBLOCKS - 1 \subseteq Blocks
    /\ \A b \in 3..NBLOCKS - 1 : b # 0 /\ b # 1 /\ b # 2
    /\ 0 \in Blocks /\ 1 \in Blocks /\ 2 \in Blocks
BY Sizes DEF Blocks

(* Where owners are, and where their pointers point. *)
LEMMA OwnersIn ==
    ASSUME NEW m, Tree(m)
    PROVE  /\ DirBlks(m) \subseteq 3..NBLOCKS - 1
           /\ Indirects(m) \subseteq 3..NBLOCKS - 1
           /\ \A f \in Structs(m) : \E b \in DirBlks(m) : f \in FilesIn(b)
           /\ \A f \in Owners(m) : \E b \in DirBlks(m) \cup {1} : f \in FilesIn(b) /\ b \in Blocks
<1>1. DirBlks(m) \subseteq 3..NBLOCKS - 1
  <2> SUFFICES ASSUME NEW a \in DataSlots(m, Root), m[a] # 0
               PROVE  m[a] \in 3..NBLOCKS - 1
    BY DEF DirBlks
  <2> QED BY SlotsIn, RootOwns DEF Tree, PointToData, Pointers
<1>2. Indirects(m) \subseteq 3..NBLOCKS - 1
  BY SlotsIn DEF Tree, PointToData, Pointers, Indirects
<1>3. \A f \in Structs(m) : \E b \in DirBlks(m) : f \in FilesIn(b)
  BY DEF Structs
<1> QED BY <1>1, <1>2, <1>3, RootIn, DataBlocks DEF Owners

(* The words of f's indirect block. *)
LEMMA IndirectIn ==
    ASSUME NEW m, Tree(m), NEW f \in Owners(m), NEW a \in IndirectWords(m, f)
    PROVE  /\ m[IndirectAt(f)] \in Indirects(m) /\ a \in WordsOf(m[IndirectAt(f)])
           /\ a \in Addr /\ blockno(a) = m[IndirectAt(f)]
<1>1. m[IndirectAt(f)] # 0 /\ a \in WordsOf(m[IndirectAt(f)]) BY DEF IndirectWords
<1>2. m[IndirectAt(f)] \in Indirects(m) BY <1>1 DEF Indirects
<1>3. m[IndirectAt(f)] \in Blocks BY <1>2, OwnersIn, DataBlocks
<1> QED BY <1>1, <1>2, <1>3, WordsIn

(* The root, the blocks of the directory and the indirect blocks are       *)
(* different blocks, and no file shares an indirect block.                 *)
LEMMA Apart ==
    ASSUME NEW m, Tree(m)
    PROVE  /\ DirBlks(m) \cap Indirects(m) = {}
           /\ 1 \notin DirBlks(m) \cup Indirects(m)
           /\ \A f, g \in Owners(m) :
                m[IndirectAt(f)] = m[IndirectAt(g)] /\ m[IndirectAt(f)] # 0 => f = g
<1>1. 1 \notin DirBlks(m) \cup Indirects(m) BY OwnersIn, DataBlocks
<1>2. \A f, g \in Owners(m) :
        m[IndirectAt(f)] = m[IndirectAt(g)] /\ m[IndirectAt(f)] # 0 => f = g
  <2> SUFFICES ASSUME NEW f \in Owners(m), NEW g \in Owners(m),
                      m[IndirectAt(f)] = m[IndirectAt(g)], m[IndirectAt(f)] # 0
               PROVE  f = g
    OBVIOUS
  <2>1. IndirectAt(f) = IndirectAt(g) BY SlotsIn DEF Tree, Injective, Pointers
  <2> QED BY <2>1, OwnersIn, FieldsDiffer
<1>3. ASSUME NEW a \in DataSlots(m, Root), m[a] # 0, NEW g \in Owners(m), m[a] = m[IndirectAt(g)]
      PROVE  FALSE
  <2>1. a = IndirectAt(g) BY <1>3, SlotsIn, RootOwns DEF Tree, Injective, Pointers
  <2>2. PICK c \in Blocks : g \in FilesIn(c) /\ c \in DirBlks(m) \cup {1} BY OwnersIn
  <2>3. a \notin {DirectAt(Root, i) : i \in 0..NDIRECT - 1} BY <2>1, <2>2, RootIn, FieldsDiffer
  <2>4. a \in IndirectWords(m, Root) BY <1>3, <2>3 DEF DataSlots
  <2>5. blockno(a) = m[IndirectAt(Root)] /\ m[IndirectAt(Root)] \in Indirects(m)
    BY <2>4, IndirectIn, RootOwns
  <2>6. blockno(a) = c BY <2>1, <2>2, Places, WordsIn
  <2>7. c \in DirBlks(m) BY <1>1, <2>2, <2>5, <2>6
  <2>8. PICK e \in DataSlots(m, Root) : m[e] = c /\ c # 0 BY <2>7 DEF DirBlks
  <2>9. e = IndirectAt(Root) BY <2>5, <2>6, <2>8, SlotsIn, RootOwns DEF Tree, Injective, Pointers
  <2>10. e \notin {DirectAt(Root, i) : i \in 0..NDIRECT - 1} BY <2>9, RootIn, FieldsDiffer
  <2>11. e \in IndirectWords(m, Root) BY <2>8, <2>10 DEF DataSlots
  <2>12. blockno(e) = m[IndirectAt(Root)] BY <2>11, IndirectIn, RootOwns
  <2>13. blockno(e) = 1 BY <2>9, RootIn, Places, WordsIn
  <2> QED BY <2>5, <2>12, <2>13, <1>1
<1>4. DirBlks(m) \cap Indirects(m) = {} BY <1>3 DEF DirBlks, Indirects
<1> QED BY <1>1, <1>2, <1>4

(* A slot is a field of its File structure or a word of its indirect block.*)
LEMMA SlotIn ==
    ASSUME NEW m, Tree(m), NEW f \in Owners(m), NEW a \in SlotsOf(m, f)
    PROVE  \/ /\ a \notin IndirectWords(m, f)
              /\ a = IndirectAt(f) \/ \E i \in 0..NDIRECT - 1 : a = DirectAt(f, i)
              /\ \E b \in DirBlks(m) \cup {1} : f \in FilesIn(b) /\ b \in Blocks /\ blockno(a) = b
              /\ a \in Addr /\ blockno(a) \in DirBlks(m) \cup {1}
           \/ /\ a \in IndirectWords(m, f) /\ a \in Addr
              /\ blockno(a) = m[IndirectAt(f)] /\ blockno(a) \in Indirects(m)
<1>1. CASE a \in IndirectWords(m, f) BY <1>1, IndirectIn
<1>2. CASE a \notin IndirectWords(m, f)
  <2>1. a = IndirectAt(f) \/ \E i \in 0..NDIRECT - 1 : a = DirectAt(f, i)
    BY <1>2, SlotsAre DEF DataSlots
  <2>2. PICK b \in DirBlks(m) \cup {1} : f \in FilesIn(b) /\ b \in Blocks BY OwnersIn
  <2>3. a \in WordsOf(b) BY <2>1, <2>2, Places
  <2>4. a \in Addr /\ blockno(a) = b BY <2>2, <2>3, WordsIn
  <2> QED BY <1>2, <2>1, <2>2, <2>4
<1> QED BY <1>1, <1>2

LEMMA AllSlotsIn ==
    ASSUME NEW m, Tree(m), NEW a \in AllSlots(m)
    PROVE  /\ a \in Addr /\ blockno(a) \in {1} \cup DirBlks(m) \cup Indirects(m)
           /\ blockno(a) # 0 /\ blockno(a) # 2 /\ blockno(a) \in Blocks
           /\ \E f \in Owners(m) : a \in SlotsOf(m, f)
<1>1. PICK f \in Owners(m) : a \in SlotsOf(m, f) BY DEF AllSlots, Owners
<1>2. a \in Addr /\ blockno(a) \in {1} \cup DirBlks(m) \cup Indirects(m)
  BY <1>1, SlotIn
<1> QED BY <1>1, <1>2, OwnersIn, DataBlocks

(* No two File structures share a slot. *)
LEMMA SlotsDiffer ==
    ASSUME NEW m, Tree(m), NEW f \in Owners(m), NEW g \in Owners(m),
           NEW a \in SlotsOf(m, f), a \in SlotsOf(m, g)
    PROVE  f = g
<1>1. CASE a \in IndirectWords(m, f) /\ a \in IndirectWords(m, g)
  <2>1. m[IndirectAt(f)] = blockno(a) /\ m[IndirectAt(g)] = blockno(a) /\ blockno(a) \in Indirects(m)
    BY <1>1, IndirectIn
  <2>2. blockno(a) # 0 BY <2>1 DEF Indirects
  <2> QED BY <2>1, <2>2, Apart
<1>2. CASE a \notin IndirectWords(m, f) /\ a \notin IndirectWords(m, g)
  <2>1. PICK b \in Blocks, c \in Blocks : f \in FilesIn(b) /\ g \in FilesIn(c) BY OwnersIn
  <2>2. a = IndirectAt(f) \/ \E i \in 0..NDIRECT - 1 : a = DirectAt(f, i) BY <1>2, SlotIn
  <2>3. a = IndirectAt(g) \/ \E i \in 0..NDIRECT - 1 : a = DirectAt(g, i) BY <1>2, SlotIn
  <2> QED BY <2>1, <2>2, <2>3, FieldsDiffer
<1>3. ASSUME NEW h \in Owners(m), NEW k \in Owners(m), a \in SlotsOf(m, h), a \in SlotsOf(m, k),
             a \in IndirectWords(m, h), a \notin IndirectWords(m, k)
      PROVE  FALSE
  <2>1. blockno(a) \in Indirects(m) BY <1>3, IndirectIn
  <2>2. blockno(a) \in DirBlks(m) \cup {1} BY <1>3, SlotIn
  <2> QED BY <2>1, <2>2, Apart
<1> QED BY <1>1, <1>2, <1>3

(* A pointer to an indirect block is not one to data. *)
LEMMA IndirectSlot ==
    ASSUME NEW m, Tree(m), NEW f \in Owners(m), NEW g \in Owners(m)
    PROVE  IndirectAt(f) \notin DataSlots(m, g)
<1> SUFFICES ASSUME IndirectAt(f) \in DataSlots(m, g) PROVE FALSE OBVIOUS
<1>1. f = g BY SlotsAre, SlotsDiffer
<1>2. PICK b \in Blocks : f \in FilesIn(b) /\ b \in DirBlks(m) \cup {1} BY OwnersIn
<1>3. IndirectAt(f) \in IndirectWords(m, f) BY <1>1, <1>2, FieldsDiffer DEF DataSlots
<1>4. blockno(IndirectAt(f)) = b BY <1>2, Places, WordsIn
<1> QED BY <1>2, <1>3, <1>4, IndirectIn, Apart

LEMMA StructsApart ==
    ASSUME NEW m, Tree(m), NEW f \in Structs(m)
    PROVE  /\ f \in Owners(m) /\ f # Root /\ f # 0
           /\ f \in Addr /\ SizeAt(f) \in Addr /\ blockno(f) \in DirBlks(m)
           /\ f \in FilesIn(blockno(f)) /\ blockno(SizeAt(f)) = blockno(f)
           /\ blockno(IndirectAt(f)) = blockno(f) /\ blockno(f) \in Blocks
           /\ \A i \in 0..NDIRECT - 1 : blockno(DirectAt(f, i)) = blockno(f)
<1>1. PICK b \in DirBlks(m) : f \in FilesIn(b) /\ b \in Blocks BY OwnersIn, DataBlocks
<1>2. f \in WordsOf(b) /\ SizeAt(f) \in WordsOf(b) /\ IndirectAt(f) \in WordsOf(b) BY <1>1, Places
<1>3. f \in Addr /\ blockno(f) = b /\ SizeAt(f) \in Addr /\ blockno(SizeAt(f)) = b
      /\ blockno(IndirectAt(f)) = b
  BY <1>1, <1>2, WordsIn
<1>4. \A i \in 0..NDIRECT - 1 : blockno(DirectAt(f, i)) = b BY <1>1, Places, WordsIn
<1>5. blockno(Root) = 1 BY RootIn, Places, WordsIn
<1>6. f # 0
  <2>1. 0 \in WordsOf(0) BY WordIn, DataBlocks, Sizes DEF WordsOf, diskaddr
  <2>2. blockno(0) = 0 BY <2>1, WordsIn, DataBlocks
  <2> QED BY <1>3, <2>2, OwnersIn, DataBlocks
<1> QED BY <1>1, <1>3, <1>4, <1>5, <1>6, Apart DEF Owners

(* What clients write is in no block that holds pointers. *)
LEMMA DataApart ==
    ASSUME NEW m, Tree(m), NEW f \in Structs(m), NEW a \in DataSlots(m, f), m[a] # 0
    PROVE  /\ m[a] \in 3..NBLOCKS - 1 /\ m[a] \notin {1} \cup DirBlks(m) \cup Indirects(m)
           /\ \A e \in AllSlots(m) : blockno(e) # m[a]
<1>1. f \in Owners(m) /\ f # Root /\ a \in Pointers(m) BY StructsApart, SlotsIn DEF Pointers
<1>2. m[a] \in 3..NBLOCKS - 1 /\ m[a] # 1 BY <1>1, DataBlocks DEF Tree, PointToData
<1>3. m[a] \notin Indirects(m)
  <2> SUFFICES ASSUME NEW g \in Owners(m), m[a] = m[IndirectAt(g)] PROVE FALSE
    BY DEF Indirects
  <2>1. IndirectAt(g) \in Pointers(m) BY SlotsIn DEF Pointers
  <2>2. a = IndirectAt(g) BY <1>1, <2>1 DEF Tree, Injective
  <2> QED BY <1>1, <2>2, IndirectSlot
<1>4. m[a] \notin DirBlks(m)
  <2> SUFFICES ASSUME NEW e \in DataSlots(m, Root), m[a] = m[e] PROVE FALSE
    BY DEF DirBlks
  <2>1. e \in Pointers(m) BY SlotsIn, RootOwns DEF Pointers
  <2>2. a = e BY <1>1, <2>1 DEF Tree, Injective
  <2> QED BY <1>1, <2>2, SlotsAre, SlotsDiffer, RootOwns
<1> QED BY <1>2, <1>3, <1>4, AllSlotsIn

LEMMA RootPlaces ==
    /\ Root \in Addr /\ SizeAt(Root) \in Addr /\ IndirectAt(Root) \in Addr
    /\ blockno(Root) = 1 /\ blockno(SizeAt(Root)) = 1 /\ blockno(IndirectAt(Root)) = 1
    /\ \A i \in 0..NDIRECT - 1 : DirectAt(Root, i) \in Addr /\ blockno(DirectAt(Root, i)) = 1
BY RootIn, Places, WordsIn

(* Names and sizes are not pointers. *)
LEMMA NoSlot ==
    ASSUME NEW m, Tree(m), NEW f \in Owners(m)
    PROVE  f \notin AllSlots(m) /\ SizeAt(f) \notin AllSlots(m)
<1>1. PICK b \in Blocks : f \in FilesIn(b) /\ b \in DirBlks(m) \cup {1} BY OwnersIn
<1>2. blockno(f) = b /\ blockno(SizeAt(f)) = b BY <1>1, Places, WordsIn
<1> SUFFICES ASSUME NEW g \in Owners(m), NEW a \in SlotsOf(m, g), a = f \/ a = SizeAt(f)
             PROVE  FALSE
  BY AllSlotsIn
<1>3. a \notin IndirectWords(m, g) BY <1>1, <1>2, IndirectIn, Apart
<1>4. PICK c \in Blocks : g \in FilesIn(c) BY OwnersIn
<1>5. a = IndirectAt(g) \/ \E i \in 0..NDIRECT - 1 : a = DirectAt(g, i) BY <1>3, SlotIn
<1> QED BY <1>1, <1>4, <1>5, FieldsDiffer

LEMMA NamesDiffer ==
    ASSUME NEW m, Tree(m), NEW f \in Owners(m), NEW g \in Owners(m)
    PROVE  f # SizeAt(g) /\ (SizeAt(f) = SizeAt(g) => f = g)
BY OwnersIn, FieldsDiffer

-----------------------------------------------------------------------------
(* The pointer to the n-th block of a file. *)

Index == 0..NDIRECT + NINDIRECT - 1

LEMMA SlotAtIn ==
    ASSUME NEW m, Tree(m), NEW f \in Owners(m), NEW n \in Nat, HasSlot(m, f, n)
    PROVE  SlotAt(m, f, n) \in DataSlots(m, f) /\ n \in Index
<1>1. CASE n < NDIRECT
  <2>1. n \in 0..NDIRECT - 1 /\ n \in Index BY <1>1, Sizes DEF Index
  <2> QED BY <1>1, <2>1 DEF SlotAt, DataSlots
<1>2. CASE ~(n < NDIRECT)
  <2>1. m[IndirectAt(f)] # 0 /\ n < NDIRECT + NINDIRECT BY <1>2 DEF HasSlot
  <2>2. m[IndirectAt(f)] \in Blocks BY <2>1, OwnersIn, DataBlocks DEF Indirects
  <2>3. n - NDIRECT \in 0..NINDIRECT - 1 /\ n \in Index BY <1>2, <2>1, Sizes DEF Index
  <2>4. diskaddr(m[IndirectAt(f)]) + (n - NDIRECT) \in WordsOf(m[IndirectAt(f)])
        /\ diskaddr(m[IndirectAt(f)]) \in Nat
    BY <2>2, <2>3, WordIn
  <2>5. SlotAt(m, f, n) = diskaddr(m[IndirectAt(f)]) + (n - NDIRECT)
    BY <1>2, <2>4, Sizes DEF SlotAt
  <2> QED BY <2>1, <2>3, <2>4, <2>5 DEF DataSlots, IndirectWords
<1> QED BY <1>1, <1>2

LEMMA SlotAtAll ==
    ASSUME NEW m, Tree(m), NEW f \in Owners(m), NEW a \in DataSlots(m, f)
    PROVE  \E n \in Index : HasSlot(m, f, n) /\ SlotAt(m, f, n) = a
<1>1. CASE a \in IndirectWords(m, f)
  <2>1. m[IndirectAt(f)] \in Indirects(m) /\ a \in WordsOf(m[IndirectAt(f)]) BY <1>1, IndirectIn
  <2>2. m[IndirectAt(f)] \in Blocks /\ m[IndirectAt(f)] # 0 BY <2>1, OwnersIn, DataBlocks
  <2>3. a - diskaddr(m[IndirectAt(f)]) \in 0..NINDIRECT - 1 /\ diskaddr(m[IndirectAt(f)]) \in Nat
        /\ a \in Addr
    BY <2>1, <2>2, WordsIn, WordIn, Sizes
  <2> DEFINE n == NDIRECT + (a - diskaddr(m[IndirectAt(f)]))
  <2>4. n \in Index /\ ~(n < NDIRECT) /\ n < NDIRECT + NINDIRECT BY <2>3, Sizes DEF Index
  <2>5. diskaddr(m[IndirectAt(f)]) + n - NDIRECT = a BY <2>3, Sizes DEF Addr
  <2> QED BY <2>2, <2>4, <2>5 DEF HasSlot, SlotAt
<1>2. CASE a \notin IndirectWords(m, f)
  <2>1. PICK n \in 0..NDIRECT - 1 : a = DirectAt(f, n) BY <1>2 DEF DataSlots
  <2>2. n \in Index /\ n < NDIRECT BY Sizes DEF Index
  <2> QED BY <2>1, <2>2 DEF HasSlot, SlotAt
<1> QED BY <1>1, <1>2

LEMMA SlotAtOnce ==
    ASSUME NEW m, Tree(m), NEW f \in Owners(m), NEW n \in Nat, NEW k \in Nat,
           HasSlot(m, f, n), HasSlot(m, f, k), SlotAt(m, f, n) = SlotAt(m, f, k)
    PROVE  n = k
<1>0. PICK b \in Blocks : f \in FilesIn(b) /\ b \in DirBlks(m) \cup {1} BY OwnersIn
<1>1. CASE n < NDIRECT /\ k < NDIRECT
  <2> n \in 0..NDIRECT - 1 /\ k \in 0..NDIRECT - 1 BY <1>1, Sizes
  <2> DirectAt(f, n) = DirectAt(f, k) BY <1>1 DEF SlotAt
  <2> QED BY <1>0, FieldsDiffer
<1>2. CASE ~(n < NDIRECT) /\ ~(k < NDIRECT)
  <2>1. m[IndirectAt(f)] # 0 BY <1>2 DEF HasSlot
  <2>2. m[IndirectAt(f)] \in Blocks BY <2>1, OwnersIn, DataBlocks DEF Indirects
  <2>3. diskaddr(m[IndirectAt(f)]) \in Nat BY <2>2, WordIn, Sizes
  <2> QED BY <1>2, <2>3, Sizes DEF SlotAt
<1>3. ASSUME NEW x \in Nat, NEW y \in Nat, HasSlot(m, f, x), HasSlot(m, f, y),
             SlotAt(m, f, x) = SlotAt(m, f, y), x < NDIRECT, ~(y < NDIRECT)
      PROVE  FALSE
  <2>1. m[IndirectAt(f)] # 0 /\ y < NDIRECT + NINDIRECT BY <1>3 DEF HasSlot
  <2>2. m[IndirectAt(f)] \in Blocks /\ m[IndirectAt(f)] \in Indirects(m)
    BY <2>1, OwnersIn, DataBlocks DEF Indirects
  <2>3. y - NDIRECT \in 0..NINDIRECT - 1 BY <1>3, <2>1, Sizes
  <2>4. diskaddr(m[IndirectAt(f)]) \in Nat
        /\ blockno(diskaddr(m[IndirectAt(f)]) + (y - NDIRECT)) = m[IndirectAt(f)]
    BY <2>2, <2>3, WordIn
  <2>5. SlotAt(m, f, y) = diskaddr(m[IndirectAt(f)]) + (y - NDIRECT)
    BY <1>3, <2>4, Sizes DEF SlotAt
  <2>6. x \in 0..NDIRECT - 1 /\ SlotAt(m, f, x) = DirectAt(f, x) BY <1>3, Sizes DEF SlotAt
  <2>7. blockno(DirectAt(f, x)) = b BY <1>0, <2>6, Places, WordsIn
  <2> QED BY <1>0, <1>3, <2>2, <2>4, <2>5, <2>6, <2>7, Apart
<1> QED BY <1>1, <1>2, <1>3

LEMMA PointerIn ==
    ASSUME NEW m, Tree(m), NEW f \in Owners(m), NEW n \in Nat, Pointer(m, f, n) # 0
    PROVE  /\ HasSlot(m, f, n) /\ n \in Index
           /\ SlotAt(m, f, n) \in DataSlots(m, f) /\ SlotAt(m, f, n) \in Pointers(m)
           /\ Pointer(m, f, n) = m[SlotAt(m, f, n)]
<1>1. HasSlot(m, f, n) /\ Pointer(m, f, n) = m[SlotAt(m, f, n)] BY DEF Pointer
<1> QED BY <1>1, SlotAtIn, SlotsIn DEF Pointers

LEMMA RootPointers ==
    ASSUME NEW m, Tree(m)
    PROVE  DirBlks(m) = {Pointer(m, Root, i) : i \in Index} \ {0}
<1>1. ASSUME NEW a \in DataSlots(m, Root), m[a] # 0
      PROVE  \E i \in Index : m[a] = Pointer(m, Root, i)
  BY SlotAtAll, RootOwns DEF Pointer
<1>2. ASSUME NEW i \in Index, Pointer(m, Root, i) # 0
      PROVE  Pointer(m, Root, i) \in DirBlks(m)
  BY <1>2, PointerIn, RootOwns, Sizes DEF DirBlks, Index
<1> QED BY <1>1, <1>2 DEF DirBlks

LEMMA FilesAre ==
    ASSUME NEW m, Tree(m), InSize(m)
    PROVE  /\ DirBlocks(m) = DirBlks(m)
           /\ FilesOf(m) = {f \in Structs(m) : m[f] # 0}
<1>1. m[SizeAt(Root)] \in Nat BY RootPlaces DEF Tree, Image
<1>2. ASSUME NEW i \in 0..m[SizeAt(Root)] - 1, Pointer(m, Root, i) # 0
      PROVE  Pointer(m, Root, i) \in DirBlks(m)
  <2>1. i \in Nat BY <1>1
  <2> QED BY <1>2, <2>1, PointerIn, RootOwns, RootPointers
<1>3. ASSUME NEW i \in Index, Pointer(m, Root, i) # 0
      PROVE  i \in 0..m[SizeAt(Root)] - 1
  <2>1. i < m[SizeAt(Root)] BY <1>3 DEF InSize, Index
  <2> QED BY <1>1, <2>1, Sizes DEF Index
<1>4. DirBlocks(m) = DirBlks(m) BY <1>2, <1>3, RootPointers DEF DirBlocks
<1> QED BY <1>4 DEF FilesOf, Structs

-----------------------------------------------------------------------------
(* Images with the same pointers, or with some of them. *)

LEMMA Sub ==
    ASSUME NEW m, Tree(m), NEW w \in Image, \A a \in AllSlots(m) : w[a] \in {0, m[a]}
    PROVE  /\ Tree(w) /\ DirBlks(w) \subseteq DirBlks(m) /\ Structs(w) \subseteq Structs(m)
           /\ AllSlots(w) \subseteq AllSlots(m) /\ Pointers(w) \subseteq Pointers(m)
           /\ \A a \in Pointers(w) : w[a] = m[a]
           /\ \A f \in Owners(m) : DataSlots(w, f) \subseteq DataSlots(m, f)
                                     /\ SlotsOf(w, f) \subseteq SlotsOf(m, f)
<1>1. ASSUME NEW f \in Owners(m)
      PROVE  DataSlots(w, f) \subseteq DataSlots(m, f) /\ SlotsOf(w, f) \subseteq SlotsOf(m, f)
  <2>1. w[IndirectAt(f)] \in {0, m[IndirectAt(f)]} BY SlotsIn
  <2> QED BY <2>1, SlotsAre DEF DataSlots, IndirectWords
<1>2. DirBlks(w) \subseteq DirBlks(m)
  <2> SUFFICES ASSUME NEW a \in DataSlots(w, Root), w[a] # 0 PROVE w[a] \in DirBlks(m)
    BY DEF DirBlks
  <2>1. a \in DataSlots(m, Root) /\ a \in AllSlots(m) BY <1>1, RootOwns, SlotsIn
  <2> QED BY <2>1 DEF DirBlks
<1>3. Structs(w) \subseteq Structs(m) BY <1>2 DEF Structs
<1>4. AllSlots(w) \subseteq AllSlots(m)
  <2> SUFFICES ASSUME NEW f \in Owners(w) PROVE SlotsOf(w, f) \subseteq AllSlots(m)
    BY DEF AllSlots, Owners
  <2>1. f \in Owners(m) BY <1>3 DEF Owners
  <2> QED BY <1>1, <2>1, SlotsIn
<1>5. ASSUME NEW a \in Pointers(w) PROVE a \in Pointers(m) /\ w[a] = m[a]
  <2>1. a \in AllSlots(m) /\ w[a] # 0 BY <1>4 DEF Pointers
  <2> QED BY <2>1 DEF Pointers
<1>6. Tree(w) BY <1>5 DEF Tree, PointToData, Injective
<1> QED BY <1>1, <1>2, <1>3, <1>4, <1>5, <1>6

LEMMA Same ==
    ASSUME NEW m, Tree(m), NEW w \in Image, \A a \in AllSlots(m) : w[a] = m[a]
    PROVE  /\ Tree(w) /\ DirBlks(w) = DirBlks(m) /\ Structs(w) = Structs(m)
           /\ AllSlots(w) = AllSlots(m) /\ Pointers(w) = Pointers(m)
           /\ Owners(w) = Owners(m)
           /\ \A f \in Owners(m) : DataSlots(w, f) = DataSlots(m, f)
<1>1. \A a \in AllSlots(m) : w[a] \in {0, m[a]} OBVIOUS
<1>2. Tree(w) /\ AllSlots(w) \subseteq AllSlots(m) BY <1>1, Sub
<1>3. \A a \in AllSlots(w) : m[a] \in {0, w[a]} BY <1>2
<1>4. m \in Image BY DEF Tree
<1>5. /\ DirBlks(w) = DirBlks(m) /\ Structs(w) = Structs(m)
      /\ AllSlots(w) = AllSlots(m) /\ Pointers(w) = Pointers(m)
  <2>1. /\ DirBlks(w) \subseteq DirBlks(m) /\ Structs(w) \subseteq Structs(m)
        /\ AllSlots(w) \subseteq AllSlots(m) /\ Pointers(w) \subseteq Pointers(m)
    BY <1>1, Sub
  <2>2. /\ DirBlks(m) \subseteq DirBlks(w) /\ Structs(m) \subseteq Structs(w)
        /\ AllSlots(m) \subseteq AllSlots(w) /\ Pointers(m) \subseteq Pointers(w)
    BY <1>2, <1>3, <1>4, Sub
  <2> QED BY <2>1, <2>2
<1>6. \A f \in Owners(m) : DataSlots(w, f) = DataSlots(m, f)
  <2> SUFFICES ASSUME NEW f \in Owners(m) PROVE DataSlots(w, f) = DataSlots(m, f) OBVIOUS
  <2>1. w[IndirectAt(f)] = m[IndirectAt(f)] BY SlotsIn
  <2> QED BY <2>1 DEF DataSlots, IndirectWords
<1> QED BY <1>2, <1>5, <1>6 DEF Owners

LEMMA SubPointer ==
    ASSUME NEW m, Tree(m), NEW w \in Image, \A a \in AllSlots(m) : w[a] \in {0, m[a]},
           NEW f \in Owners(m), NEW n \in Nat
    PROVE  /\ HasSlot(w, f, n) => HasSlot(m, f, n) /\ SlotAt(w, f, n) = SlotAt(m, f, n)
           /\ Pointer(w, f, n) \in {0, Pointer(m, f, n)}
<1>1. w[IndirectAt(f)] \in {0, m[IndirectAt(f)]} BY SlotsIn
<1>2. HasSlot(w, f, n) => HasSlot(m, f, n) /\ SlotAt(w, f, n) = SlotAt(m, f, n)
  BY <1>1 DEF HasSlot, SlotAt
<1>3. CASE ~HasSlot(w, f, n) BY <1>2, <1>3 DEF Pointer
<1>4. CASE HasSlot(w, f, n)
  <2>1. SlotAt(m, f, n) \in AllSlots(m) BY <1>2, <1>4, SlotAtIn, SlotsIn
  <2> QED BY <1>2, <1>4, <2>1 DEF Pointer
<1> QED BY <1>2, <1>3, <1>4

LEMMA GoodTree == ASSUME NEW m, Good(m) PROVE Tree(m)
BY DEF Good, Tree

(* A crash image is as good as the cache. *)
LEMMA OlderIsGood ==
    ASSUME NEW m, Good(m), NEW d, Older(d, m)
    PROVE  Good(d)
<1>0. Tree(m) BY GoodTree
<1>1. d \in Image /\ \A a \in AllSlots(m) : d[a] \in {0, m[a]} BY DEF Older
<1>2. /\ Tree(d) /\ Structs(d) \subseteq Structs(m) /\ Pointers(d) \subseteq Pointers(m)
      /\ \A a \in Pointers(d) : d[a] = m[a]
  BY <1>0, <1>1, Sub
<1>3. InUse(d) BY <1>2 DEF Older, InUse
<1>4. NamedOnce(d)
  <2> SUFFICES ASSUME NEW f \in Structs(d), NEW g \in Structs(d), d[f] = d[g], d[f] # 0
               PROVE  f = g
    BY DEF NamedOnce
  <2>1. m[f] = d[f] /\ m[g] = d[g] BY <1>2 DEF Older
  <2> QED BY <1>2, <2>1 DEF Good, NamedOnce
<1> QED BY <1>2, <1>3, <1>4 DEF Good, Older, Tree

LEMMA Restart ==
    ASSUME NEW m, Good(m)
    PROVE  Older(m, m) /\ Visible(m, m)
BY DEF Good, Older, Visible, InUse

(* The directory is decided by the slots of the root. *)
LEMMA SameRoot ==
    ASSUME NEW d, Tree(d), NEW w \in Image, \A a \in SlotsOf(d, Root) : w[a] = d[a]
    PROVE  /\ DirBlks(w) = DirBlks(d) /\ Structs(w) = Structs(d)
           /\ \A i \in Nat : Pointer(w, Root, i) = Pointer(d, Root, i)
           /\ InSize(d) /\ w[SizeAt(Root)] = d[SizeAt(Root)] => InSize(w)
<1>1. w[IndirectAt(Root)] = d[IndirectAt(Root)] BY SlotsAre
<1>2. DataSlots(w, Root) = DataSlots(d, Root) BY <1>1 DEF DataSlots, IndirectWords
<1>3. \A a \in DataSlots(d, Root) : w[a] = d[a] BY SlotsAre
<1>4. DirBlks(w) = DirBlks(d) BY <1>2, <1>3 DEF DirBlks
<1>5. ASSUME NEW i \in Nat PROVE Pointer(w, Root, i) = Pointer(d, Root, i)
  <2>1. HasSlot(w, Root, i) <=> HasSlot(d, Root, i) BY <1>1 DEF HasSlot
  <2>2. SlotAt(w, Root, i) = SlotAt(d, Root, i) BY <1>1 DEF SlotAt
  <2>3. HasSlot(d, Root, i) => SlotAt(d, Root, i) \in DataSlots(d, Root) BY SlotAtIn, RootOwns
  <2> QED BY <1>3, <2>1, <2>2, <2>3 DEF Pointer
<1>6. Index \subseteq Nat BY Sizes DEF Index
<1>7. InSize(d) /\ w[SizeAt(Root)] = d[SizeAt(Root)] => InSize(w)
  BY <1>5, <1>6 DEF InSize, Index
<1> QED BY <1>4, <1>5, <1>7 DEF Structs

(* Some blocks are written: the root's indirect block not before the root. *)
Mix(m, d, X) == [a \in Addr |-> IF blockno(a) \in X \ {0} THEN m[a] ELSE d[a]]
MixAt(m, d, b) == Mix(m, d, {b})
RootFirst(d, X) == d[IndirectAt(Root)] \in X \ {0} => 1 \in X

LEMMA MixIn ==
    ASSUME NEW m \in Image, NEW d \in Image, NEW X
    PROVE  /\ Mix(m, d, X) \in Image
           /\ \A a \in Addr : Mix(m, d, X)[a] = IF blockno(a) \in X \ {0} THEN m[a] ELSE d[a]
BY DEF Mix, Image

LEMMA MixOne ==
    \A m, d \in Image : \A b \in Nat \ {0} :
      /\ MixAt(m, d, b) \in Image
      /\ \A a \in Addr : MixAt(m, d, b)[a] = IF blockno(a) = b THEN m[a] ELSE d[a]
<1> TAKE m, d \in Image
<1> TAKE b \in Nat \ {0}
<1> DEFINE X == {b}
<1>1. \A x : x \in X \ {0} <=> x = b OBVIOUS
<1> HIDE DEF X
<1>2. Mix(m, d, X) \in Image
      /\ \A a \in Addr : Mix(m, d, X)[a] = IF blockno(a) \in X \ {0} THEN m[a] ELSE d[a]
  BY MixIn
<1> QED BY <1>1, <1>2 DEF X, MixAt

LEMMA Mixed ==
    ASSUME NEW m, Good(m), NEW d, Older(d, m), NEW X, RootFirst(d, X)
    PROVE  Older(Mix(m, d, X), m) /\ (Visible(d, m) => Visible(Mix(m, d, X), m))
<1> DEFINE w == Mix(m, d, X)
<1>0. Tree(m) /\ m \in Image /\ d \in Image BY GoodTree DEF Tree, Older
<1>1. w \in Image /\ \A a \in Addr : w[a] = IF blockno(a) \in X \ {0} THEN m[a] ELSE d[a]
  BY <1>0, MixIn
<1> HIDE DEF w
<1>2. \A a \in AllSlots(m) : d[a] \in {0, m[a]} /\ w[a] \in {m[a], d[a]} /\ w[a] \in {0, m[a]}
  BY <1>0, <1>1, AllSlotsIn DEF Older
<1>3. \A f \in Structs(m) : w[f] \in {0, m[f]} /\ w[f] \in {m[f], d[f]}
  BY <1>0, <1>1, StructsApart DEF Older
<1>4. \A a \in Pointers(m) : w[BitAt(m[a])] = 0
  <2> SUFFICES ASSUME NEW a \in Pointers(m) PROVE w[BitAt(m[a])] = 0 OBVIOUS
  <2>1. m[a] \in Blocks BY DataBlocks DEF Good, PointToData
  <2>2. BitAt(m[a]) \in Addr BY <2>1, BitIn
  <2> QED BY <1>1, <2>2 DEF Good, InUse, Older
<1>5. Reserved(w)
  <2> SUFFICES ASSUME NEW b \in 0..2 PROVE w[BitAt(b)] # 1 BY DEF Reserved
  <2>1. BitAt(b) \in Addr BY BitIn, Sizes DEF Blocks
  <2> QED BY <1>1, <2>1 DEF Good, Older, Reserved
<1>6. ZeroBlock(w)
  <2> SUFFICES ASSUME NEW a \in WordsOf(0) PROVE w[a] = 0 BY DEF ZeroBlock
  <2>1. a \in Addr BY WordsIn, DataBlocks
  <2> QED BY <1>1, <2>1 DEF Good, Older, ZeroBlock
<1>7. /\ Tree(w) /\ Tree(d)
      /\ Structs(w) \subseteq Structs(m) /\ AllSlots(w) \subseteq AllSlots(m)
  BY <1>0, <1>1, <1>2, Sub
<1>8. InSize(w)
  <2> SUFFICES ASSUME NEW i \in Index, Pointer(w, Root, i) # 0
               PROVE  i < w[SizeAt(Root)]
    BY DEF InSize, Index
  <2>0. i \in Nat BY Sizes DEF Index
  <2>1. CASE 1 \in X
    <3>1. w[SizeAt(Root)] = m[SizeAt(Root)] BY <1>1, <2>1, RootPlaces
    <3>2. Pointer(w, Root, i) \in {0, Pointer(m, Root, i)}
      BY <1>0, <1>1, <1>2, <2>0, RootOwns, SubPointer
    <3>3. Pointer(m, Root, i) # 0 BY <3>2
    <3> QED BY <3>1, <3>3 DEF Good, InSize, Index
  <2>2. CASE 1 \notin X
    <3>1. w[SizeAt(Root)] = d[SizeAt(Root)] BY <1>1, <2>2, RootPlaces
    <3>2. ASSUME NEW a \in SlotsOf(d, Root) PROVE w[a] = d[a]
      <4>1. a \in Addr /\ blockno(a) \in {1, d[IndirectAt(Root)]}
        <5>1. CASE a \in IndirectWords(d, Root) BY <1>7, <5>1, IndirectIn, RootOwns
        <5>2. CASE a \notin IndirectWords(d, Root)
          BY <5>2, RootPlaces, SlotsAre DEF DataSlots
        <5> QED BY <5>1, <5>2
      <4> QED BY <1>1, <2>2, <4>1 DEF RootFirst
    <3>3. InSize(w) BY <1>1, <1>7, <3>1, <3>2, SameRoot DEF Older
    <3> QED BY <3>3 DEF InSize, Index
  <2> QED BY <2>1, <2>2
<1>9. Older(w, m) BY <1>1, <1>2, <1>3, <1>4, <1>5, <1>6, <1>8 DEF Older
<1>10. ASSUME Visible(d, m) PROVE Visible(w, m)
  <2>1. \A a \in AllSlots(w) : d[a] \in {0, w[a]} BY <1>2, <1>7
  <2>2. Structs(d) \subseteq Structs(w) BY <1>0, <1>7, <2>1, Sub
  <2> QED BY <1>3, <1>10, <2>2 DEF Visible
<1> QED BY <1>9, <1>10 DEF w

-----------------------------------------------------------------------------
(* Changes of words that are no pointers. *)

LEMMA Keep ==
    ASSUME NEW m, Good(m), NEW d, Older(d, m), NEW w \in Image,
           \A a \in AllSlots(m) \cup WordsOf(0) \cup WordsOf(2) : w[a] = m[a],
           w[SizeAt(Root)] >= m[SizeAt(Root)],
           NamedOnce(w), \A f \in Structs(m) : d[f] \in {0, w[f]}
    PROVE  Good(w) /\ Older(d, w)
<1>0. Tree(m) BY GoodTree
<1>1. /\ Tree(w) /\ Structs(w) = Structs(m) /\ AllSlots(w) = AllSlots(m)
      /\ Pointers(w) = Pointers(m)
  BY <1>0, Same
<1>2. \A a \in Pointers(m) : w[a] = m[a] BY DEF Pointers
<1>3. \A a \in Pointers(m) : m[a] \in Blocks BY DataBlocks DEF Good, PointToData
<1>4. InUse(w)
  <2> SUFFICES ASSUME NEW a \in Pointers(m) PROVE w[BitAt(w[a])] = 0 BY <1>1 DEF InUse
  <2>1. w[BitAt(m[a])] = m[BitAt(m[a])] BY <1>3, BitIn
  <2> QED BY <1>2, <2>1 DEF Good, InUse
<1>5. Reserved(w)
  <2> SUFFICES ASSUME NEW b \in 0..2 PROVE w[BitAt(b)] # 1 BY DEF Reserved
  <2>1. BitAt(b) \in WordsOf(2) BY BitIn, Sizes DEF Blocks
  <2> QED BY <2>1 DEF Good, Reserved
<1>6. InSize(w)
  <2> SUFFICES ASSUME NEW i \in Index, Pointer(w, Root, i) # 0 PROVE i < w[SizeAt(Root)]
    BY DEF InSize, Index
  <2>1. i \in Nat BY Sizes DEF Index
  <2>2. Pointer(m, Root, i) # 0 BY <1>0, <2>1, RootOwns, SubPointer
  <2>3. i < m[SizeAt(Root)] BY <2>2 DEF Good, InSize, Index
  <2>4. m[SizeAt(Root)] \in Nat /\ w[SizeAt(Root)] \in Nat BY RootPlaces DEF Good, Image
  <2> QED BY <2>1, <2>3, <2>4
<1>7. ZeroBlock(w) BY DEF Good, ZeroBlock
<1>8. Good(w) BY <1>1, <1>4, <1>5, <1>6, <1>7 DEF Good, Tree
<1>9. Older(d, w) BY <1>1, <1>2 DEF Older
<1> QED BY <1>8, <1>9

LEMMA Touch ==
    ASSUME NEW m, Good(m), NEW d, Older(d, m), NEW w \in Image,
           \A a \in AllSlots(m) \cup Structs(m) \cup WordsOf(0) \cup WordsOf(2) : w[a] = m[a],
           w[SizeAt(Root)] >= m[SizeAt(Root)]
    PROVE  /\ Good(w) /\ Older(d, w) /\ (Visible(d, m) => Visible(d, w))
           /\ Structs(w) = Structs(m) /\ AllSlots(w) = AllSlots(m)
           /\ \A f \in Owners(m) : DataSlots(w, f) = DataSlots(m, f)
<1>1. /\ Structs(w) = Structs(m) /\ AllSlots(w) = AllSlots(m)
      /\ \A f \in Owners(m) : DataSlots(w, f) = DataSlots(m, f)
  BY GoodTree, Same
<1>2. NamedOnce(w) BY <1>1 DEF NamedOnce, Good
<1>3. \A f \in Structs(m) : d[f] \in {0, w[f]} BY DEF Older
<1>4. Good(w) /\ Older(d, w) BY <1>2, <1>3, Keep
<1> QED BY <1>1, <1>4 DEF Visible

(* A name that no file has yet. *)
LEMMA Named ==
    ASSUME NEW m, Good(m), NEW d, Older(d, m), NEW f \in Structs(m), m[f] = 0,
           NEW name \in Nat \ {0}, \A g \in Structs(m) : m[g] # name
    PROVE  /\ Good([m EXCEPT ![f] = name]) /\ Older(d, [m EXCEPT ![f] = name])
           /\ Structs([m EXCEPT ![f] = name]) = Structs(m)
           /\ AllSlots([m EXCEPT ![f] = name]) = AllSlots(m)
<1> DEFINE w == [m EXCEPT ![f] = name]
<1>0. Tree(m) BY GoodTree
<1>1. f \in Addr /\ blockno(f) \in DirBlks(m) /\ f \in Owners(m) BY <1>0, StructsApart
<1>2. w \in Image /\ w[f] = name /\ \A a \in Addr \ {f} : w[a] = m[a]
  BY <1>1 DEF Good, Image
<1> HIDE DEF w
<1>3. ASSUME NEW a \in AllSlots(m) \cup WordsOf(0) \cup WordsOf(2) PROVE w[a] = m[a]
  <2>1. a \in Addr BY <1>0, AllSlotsIn, WordsIn, DataBlocks
  <2>2. a # f
    <3>1. CASE a \in AllSlots(m) BY <1>0, <1>1, <3>1, NoSlot
    <3>2. CASE a \in WordsOf(0) \cup WordsOf(2)
      <4> blockno(a) \in {0, 2} BY <3>2, WordsIn, DataBlocks
      <4> QED BY <1>0, <1>1, OwnersIn, DataBlocks
    <3> QED BY <3>1, <3>2
  <2> QED BY <1>2, <2>1, <2>2
<1>4. Structs(w) = Structs(m) /\ AllSlots(w) = AllSlots(m) BY <1>0, <1>2, <1>3, Same
<1>5. \A g \in Structs(m) : g # f => w[g] = m[g] BY <1>0, <1>2, StructsApart
<1>6. NamedOnce(w) BY <1>2, <1>4, <1>5 DEF NamedOnce, Good
<1>7. \A g \in Structs(m) : d[g] \in {0, w[g]} BY <1>2, <1>5 DEF Older
<1>8. w[SizeAt(Root)] >= m[SizeAt(Root)]
  <2>1. SizeAt(Root) # f BY <1>0, <1>1, NamesDiffer, RootOwns
  <2>2. m[SizeAt(Root)] \in Nat BY RootPlaces DEF Good, Image
  <2> QED BY <1>2, <2>1, <2>2, RootPlaces
<1>9. Good(w) /\ Older(d, w) BY <1>2, <1>3, <1>6, <1>7, <1>8, Keep
<1> QED BY <1>4, <1>9 DEF w

-----------------------------------------------------------------------------
(* alloc_block(): the block is taken in the cache and on the disk, and     *)
(* nothing points to it.                                                   *)

Fresh(m, d, b) ==
    /\ b \in 3..NBLOCKS - 1 /\ m[BitAt(b)] = 0 /\ d[BitAt(b)] = 0
    /\ \A a \in Pointers(m) : m[a] # b

LEMMA FreshApart ==
    ASSUME NEW m, Good(m), NEW d, NEW b, Fresh(m, d, b)
    PROVE  /\ b \notin {0, 1, 2} \cup DirBlks(m) \cup Indirects(m) /\ b \in Blocks
           /\ \A a \in AllSlots(m) : blockno(a) # b
           /\ \A f \in Structs(m) : blockno(f) # b
<1>0. Tree(m) BY GoodTree
<1>1. b \notin {0, 1, 2} /\ b \in Blocks BY DataBlocks DEF Fresh
<1>2. b \notin DirBlks(m)
  <2> SUFFICES ASSUME NEW a \in DataSlots(m, Root), m[a] = b PROVE FALSE BY DEF DirBlks
  <2> QED BY <1>1, SlotsIn, RootOwns DEF Fresh, Pointers
<1>3. b \notin Indirects(m) BY <1>1, SlotsIn DEF Fresh, Pointers, Indirects
<1>4. \A a \in AllSlots(m) : blockno(a) # b BY <1>0, <1>1, <1>2, <1>3, AllSlotsIn
<1>5. \A f \in Structs(m) : blockno(f) # b BY <1>0, <1>2, StructsApart
<1> QED BY <1>1, <1>2, <1>3, <1>4, <1>5

LEMMA Taken ==
    ASSUME NEW m, Good(m), NEW d, Older(d, m), NEW b \in Blocks, m[BitAt(b)] = 1,
           NEW w, w = [m EXCEPT ![BitAt(b)] = 0], NEW e, e = MixAt(w, d, 2)
    PROVE  /\ Good(w) /\ Older(d, w) /\ Older(e, w) /\ (Visible(d, m) => Visible(e, w))
           /\ Fresh(w, e, b) /\ Structs(w) = Structs(m) /\ AllSlots(w) = AllSlots(m)
           /\ \A a \in Addr : blockno(a) # 2 => w[a] = m[a] /\ e[a] = d[a]
           /\ \A f \in Owners(m) : DataSlots(w, f) = DataSlots(m, f)
<1>0. Tree(m) /\ m \in Image /\ d \in Image BY GoodTree DEF Tree, Older
<1>1. BitAt(b) \in Addr /\ blockno(BitAt(b)) = 2 BY BitIn
<1>2. w \in Image /\ w[BitAt(b)] = 0 /\ \A a \in Addr \ {BitAt(b)} : w[a] = m[a]
  BY <1>0, <1>1 DEF Image
<1>3. \A a \in Addr : blockno(a) # 2 => w[a] = m[a] BY <1>1, <1>2
<1>4. \A a \in AllSlots(m) : w[a] = m[a] BY <1>0, <1>3, AllSlotsIn
<1>5. /\ Tree(w) /\ Structs(w) = Structs(m) /\ AllSlots(w) = AllSlots(m)
      /\ Pointers(w) = Pointers(m)
      /\ \A f \in Owners(m) : DataSlots(w, f) = DataSlots(m, f)
  BY <1>0, <1>2, <1>4, Same
<1>6. \A a \in Pointers(m) : w[a] = m[a] /\ m[a] \in Blocks /\ m[a] \in 3..NBLOCKS - 1
  BY <1>4, DataBlocks DEF Pointers, Good, PointToData
<1>7. \A f \in Structs(m) : w[f] = m[f]
  BY <1>0, <1>3, StructsApart, OwnersIn, DataBlocks
<1>8. Good(w)
  <2>1. InUse(w)
    <3> SUFFICES ASSUME NEW a \in Pointers(m) PROVE w[BitAt(w[a])] = 0 BY <1>5 DEF InUse
    <3>1. BitAt(m[a]) \in Addr /\ m[BitAt(m[a])] = 0 BY <1>6, BitIn DEF Good, InUse
    <3> QED BY <1>2, <1>6, <3>1
  <2>2. Reserved(w)
    <3> SUFFICES ASSUME NEW c \in 0..2 PROVE w[BitAt(c)] # 1 BY DEF Reserved
    <3>1. BitAt(c) \in Addr BY BitIn, Sizes DEF Blocks
    <3> QED BY <1>2, <3>1 DEF Good, Reserved
  <2>3. InSize(w)
    <3>1. \A a \in SlotsOf(m, Root) : w[a] = m[a] BY <1>4, SlotsIn, RootOwns
    <3>2. w[SizeAt(Root)] = m[SizeAt(Root)] BY <1>3, RootPlaces
    <3> QED BY <1>0, <1>2, <3>1, <3>2, SameRoot DEF Good
  <2>4. NamedOnce(w) BY <1>5, <1>7 DEF Good, NamedOnce
  <2>5. ZeroBlock(w)
    <3> SUFFICES ASSUME NEW a \in WordsOf(0) PROVE w[a] = 0 BY DEF ZeroBlock
    <3> QED BY <1>3, WordsIn, DataBlocks DEF Good, ZeroBlock
  <2> QED BY <1>5, <2>1, <2>2, <2>3, <2>4, <2>5 DEF Good, Tree
<1>9. Older(d, w) BY <1>4, <1>5, <1>6, <1>7 DEF Older
<1>10. RootFirst(d, {2})
  <2>1. d[IndirectAt(Root)] \in {0, m[IndirectAt(Root)]} BY SlotsIn, RootOwns DEF Older
  <2>2. m[IndirectAt(Root)] # 2 BY <1>0, OwnersIn, DataBlocks, RootOwns DEF Indirects
  <2> QED BY <2>1, <2>2 DEF RootFirst
<1>11. Older(e, w) /\ (Visible(d, w) => Visible(e, w)) BY <1>8, <1>9, <1>10, Mixed DEF MixAt
<1>12. Visible(d, m) => Visible(d, w) BY <1>5, <1>7 DEF Visible
<1>13. e \in Image /\ \A a \in Addr : e[a] = IF blockno(a) = 2 THEN w[a] ELSE d[a]
  <2>1. MixAt(w, d, 2) \in Image
        /\ \A a \in Addr : MixAt(w, d, 2)[a] = IF blockno(a) = 2 THEN w[a] ELSE d[a]
    <3>1. w \in Image /\ d \in Image /\ 2 \in Nat \ {0} BY <1>0, <1>2
    <3> QED BY ONLY <3>1, MixOne
  <2> QED BY <2>1
<1>14. Fresh(w, e, b)
  <2>1. b \notin 0..2 BY DEF Good, Reserved
  <2>2. b \in 3..NBLOCKS - 1 BY <2>1, Sizes DEF Blocks
  <2>3. \A a \in Pointers(w) : w[a] # b BY <1>5, <1>6 DEF Good, InUse
  <2> QED BY <1>1, <1>2, <1>13, <2>2, <2>3 DEF Fresh
<1> QED BY <1>3, <1>5, <1>8, <1>9, <1>11, <1>12, <1>13, <1>14

(* A new block is linked in, and written.  One that holds pointers from    *)
(* now on is clear.                                                        *)
NewBlock(m, d, b, f, s, w, e) ==
    /\ Good(m) /\ Older(d, m) /\ Fresh(m, d, b) /\ f \in Owners(m)
    /\ s \in SlotsOf(m, f) /\ m[s] = 0
    /\ w \in Image /\ w[s] = b /\ \A a \in Addr \ {s} : w[a] = m[a]
    /\ e \in Image /\ \A a \in Addr : e[a] = IF blockno(a) = b THEN w[a] ELSE d[a]
    /\ s = IndirectAt(f) \/ f = Root => IsClear(w, b)
    /\ f = Root => \A i \in Index : HasSlot(m, Root, i) /\ SlotAt(m, Root, i) = s
                                    => i < m[SizeAt(Root)]

LEMMA Linked ==
    ASSUME NEW m, NEW d, NEW b, NEW f, NEW s, NEW w, NEW e, NewBlock(m, d, b, f, s, w, e)
    PROVE  /\ Good(w) /\ Older(e, w) /\ (Visible(d, m) => Visible(e, w))
           /\ Structs(m) \subseteq Structs(w) /\ s \in SlotsOf(w, f)
           /\ AllSlots(m) \subseteq AllSlots(w)
           /\ \A g \in Structs(w) \ Structs(m) : w[g] = 0
           /\ \A g \in Structs(m) : w[g] = m[g]
<1> USE DEF NewBlock
<1>0. Tree(m) /\ m \in Image /\ d \in Image BY GoodTree DEF Tree, Older
<1>1. b \notin {0, 1, 2} /\ b \in Blocks /\ b \in 3..NBLOCKS - 1 /\ b \in Nat
      /\ b \notin {0, 1, 2} \cup DirBlks(m) \cup Indirects(m)
      /\ (\A a \in AllSlots(m) : blockno(a) # b) /\ \A g \in Structs(m) : blockno(g) # b
  BY FreshApart, Sizes DEF Fresh, Blocks
<1>2. s \in AllSlots(m) /\ s \in Addr /\ blockno(s) # 0 /\ blockno(s) # 2 /\ blockno(s) # b
  BY <1>0, <1>1, SlotsIn, AllSlotsIn
<1>3. w \in Image /\ w[s] = b /\ \A a \in Addr \ {s} : w[a] = m[a]
  OBVIOUS
<1>4. \A a \in AllSlots(m) \ {s} : w[a] = m[a] BY <1>0, <1>3, AllSlotsIn
<1>5. \A g \in Owners(m) : IndirectAt(g) # s => w[IndirectAt(g)] = m[IndirectAt(g)]
  BY <1>4, SlotsIn
<1>6. \A g \in Owners(m) : g # f => IndirectAt(g) # s BY <1>0, SlotsAre, SlotsDiffer
<1>7. \A a \in WordsOf(b) : a \notin AllSlots(m) /\ a # s BY <1>1, <1>2, WordsIn
<1>8. \A g \in Owners(m) \ {f} : DataSlots(w, g) = DataSlots(m, g)
  BY <1>5, <1>6 DEF DataSlots, IndirectWords
<1>9. ASSUME s # IndirectAt(f) PROVE DataSlots(w, f) = DataSlots(m, f)
  BY <1>5, <1>9 DEF DataSlots, IndirectWords
<1>10. ASSUME s = IndirectAt(f)
       PROVE  DataSlots(w, f) = DataSlots(m, f) \cup WordsOf(b) /\ IndirectWords(m, f) = {}
  <2>1. IndirectWords(m, f) = {} BY <1>10 DEF IndirectWords
  <2>2. IndirectWords(w, f) = WordsOf(b) BY <1>1, <1>3, <1>10 DEF IndirectWords
  <2> QED BY <2>1, <2>2 DEF DataSlots
(* The blocks of the directory. *)
<1>11. ASSUME f = Root => s = IndirectAt(f)
       PROVE  DirBlks(w) = DirBlks(m) /\ Structs(w) = Structs(m)
  <2>1. DirBlks(w) = DirBlks(m)
    <3>1. CASE f # Root
      <4>1. DataSlots(w, Root) = DataSlots(m, Root) BY <1>8, <3>1, RootOwns
      <4>2. s \notin DataSlots(m, Root) BY <1>0, <3>1, RootOwns, SlotsAre, SlotsDiffer
      <4>3. \A a \in DataSlots(m, Root) : w[a] = m[a] BY <1>4, <4>2, RootOwns, SlotsIn
      <4> QED BY <4>1, <4>3 DEF DirBlks
    <3>2. CASE f = Root
      <4>1. DataSlots(w, Root) = DataSlots(m, Root) \cup WordsOf(b) BY <1>10, <1>11, <3>2
      <4>2. \A a \in WordsOf(b) : w[a] = 0 BY <1>11, <3>2 DEF IsClear
      <4>3. s \notin DataSlots(m, Root) BY <1>0, <1>11, <3>2, RootOwns, IndirectSlot
      <4>4. \A a \in DataSlots(m, Root) : w[a] = m[a] BY <1>4, <4>3, RootOwns, SlotsIn
      <4> QED BY <4>1, <4>2, <4>4 DEF DirBlks
    <3> QED BY <3>1, <3>2
  <2> QED BY <2>1 DEF Structs
<1>12. ASSUME f = Root, s # IndirectAt(f)
       PROVE  DirBlks(w) = DirBlks(m) \cup {b} /\ Structs(w) = Structs(m) \cup FilesIn(b)
  <2>1. DataSlots(w, Root) = DataSlots(m, Root) /\ s \in DataSlots(m, Root)
    BY <1>9, <1>12, SlotsAre
  <2>2. \A a \in DataSlots(m, Root) \ {s} : w[a] = m[a] BY <1>4, RootOwns, SlotsIn
  <2>3. DirBlks(w) = DirBlks(m) \cup {b} BY <2>1, <2>2, <1>1, <1>3 DEF DirBlks
  <2> QED BY <2>3 DEF Structs
(* The new block's words are no pointers yet. *)
<1>13. ASSUME NEW g \in Structs(w), g \notin Structs(m)
       PROVE  g \in FilesIn(b) /\ IsClear(w, b) /\ w[g] = 0 /\ SlotsOf(w, g) \subseteq WordsOf(b)
  <2>1. f = Root /\ s # IndirectAt(f) BY <1>11, <1>13
  <2>2. g \in FilesIn(b) /\ IsClear(w, b) BY <1>12, <1>13, <2>1
  <2>3. /\ g \in WordsOf(b) /\ IndirectAt(g) \in WordsOf(b)
        /\ \A i \in 0..NDIRECT - 1 : DirectAt(g, i) \in WordsOf(b)
    BY <1>1, <2>2, Places
  <2>4. w[IndirectAt(g)] = 0 /\ w[g] = 0 BY <2>2, <2>3 DEF IsClear
  <2>5. IndirectWords(w, g) = {} BY <2>4 DEF IndirectWords
  <2> QED BY <2>2, <2>3, <2>4, <2>5, SlotsAre DEF DataSlots
<1>14. Structs(m) \subseteq Structs(w) BY <1>11, <1>12
<1>15. ASSUME NEW g \in Owners(m)
       PROVE  SlotsOf(m, g) \subseteq SlotsOf(w, g)
              /\ \A a \in SlotsOf(w, g) \ SlotsOf(m, g) : a \in WordsOf(b) /\ IsClear(w, b)
  <2>1. CASE g # f BY <1>8, <2>1, SlotsAre
  <2>2. CASE g = f /\ s # IndirectAt(f) BY <1>9, <2>2, SlotsAre
  <2>3. CASE g = f /\ s = IndirectAt(f) BY <1>10, <2>3, SlotsAre
  <2> QED BY <2>1, <2>2, <2>3
<1>16. ASSUME NEW a \in AllSlots(w), a \notin AllSlots(m)
       PROVE  a \in WordsOf(b) /\ w[a] = 0
  <2>1. PICK g \in Owners(w) : a \in SlotsOf(w, g) BY DEF AllSlots, Owners
  <2>2. CASE g \in Owners(m)
    <3> a \notin SlotsOf(m, g) BY <1>16, <2>2, SlotsIn
    <3> QED BY <1>15, <2>1, <2>2 DEF IsClear
  <2>3. CASE g \notin Owners(m)
    <3> g \in Structs(w) /\ g \notin Structs(m) BY <2>1, <2>3 DEF Owners
    <3> QED BY <1>13, <2>1 DEF IsClear
  <2> QED BY <2>2, <2>3
<1>17. ASSUME NEW a \in Pointers(w)
       PROVE  a = s \/ (a \in Pointers(m) /\ w[a] = m[a] /\ m[a] # b)
  <2>1. a \in AllSlots(m) BY <1>16 DEF Pointers
  <2> QED BY <1>4, <2>1 DEF Pointers, Fresh
<1>18. ASSUME NEW g \in Structs(m) PROVE w[g] = m[g] /\ g \in Addr
  <2> g \in Addr /\ g # s BY <1>0, <1>2, StructsApart, NoSlot
  <2> QED BY <1>3
<1>19. ASSUME NEW c \in Blocks PROVE w[BitAt(c)] = m[BitAt(c)] /\ BitAt(c) \in Addr /\ blockno(BitAt(c)) = 2
  <2> BitAt(c) \in Addr /\ BitAt(c) # s /\ blockno(BitAt(c)) = 2 BY <1>2, BitIn
  <2> QED BY <1>3
<1>20. Tree(w)
  <2>1. PointToData(w) BY <1>1, <1>3, <1>17 DEF PointToData, Good
  <2>2. Injective(w)
    <3> SUFFICES ASSUME NEW a \in Pointers(w), NEW c \in Pointers(w), w[a] = w[c] PROVE a = c
      BY DEF Injective
    <3>1. CASE a = s \/ c = s BY <1>3, <1>17, <3>1
    <3>2. CASE a # s /\ c # s BY <1>17, <3>2 DEF Good, Injective
    <3> QED BY <3>1, <3>2
  <2> QED BY <1>3, <2>1, <2>2 DEF Tree
<1>21. Good(w)
  <2>1. InUse(w)
    <3> SUFFICES ASSUME NEW a \in Pointers(w) PROVE w[BitAt(w[a])] = 0 BY DEF InUse
    <3>1. CASE a = s BY <1>1, <1>3, <1>19, <3>1 DEF Fresh
    <3>2. CASE a # s
      <4>1. a \in Pointers(m) /\ w[a] = m[a] BY <1>17, <3>2
      <4>2. m[a] \in Blocks /\ m[BitAt(m[a])] = 0 BY <4>1, DataBlocks DEF Good, PointToData, InUse
      <4> QED BY <1>19, <4>1, <4>2
    <3> QED BY <3>1, <3>2
  <2>2. Reserved(w)
    <3> SUFFICES ASSUME NEW c \in 0..2 PROVE w[BitAt(c)] # 1 BY DEF Reserved
    <3> c \in Blocks BY Sizes DEF Blocks
    <3> QED BY <1>19 DEF Good, Reserved
  <2>3. InSize(w)
    <3> SUFFICES ASSUME NEW i \in Index, Pointer(w, Root, i) # 0 PROVE i < w[SizeAt(Root)]
      BY DEF InSize, Index
    <3>1. i \in Nat BY Sizes DEF Index
    <3>2. SizeAt(Root) # s BY <1>0, <1>2, NoSlot, RootOwns
    <3>3. w[SizeAt(Root)] = m[SizeAt(Root)] BY <1>3, <3>2, RootPlaces
    <3> DEFINE x == SlotAt(w, Root, i)
    <3>4. HasSlot(w, Root, i) /\ x \in DataSlots(w, Root) /\ x \in Pointers(w)
      BY <1>20, <3>1, RootOwns, PointerIn
    <3>5. HasSlot(m, Root, i) /\ SlotAt(m, Root, i) = x
      <4>1. CASE i < NDIRECT BY <4>1 DEF HasSlot, SlotAt
      <4>2. CASE ~(i < NDIRECT)
        <5>1. IndirectAt(Root) # s
          <6> SUFFICES ASSUME IndirectAt(Root) = s PROVE FALSE OBVIOUS
          <6>1. f = Root BY <1>6, RootOwns
          <6>2. x \notin {DirectAt(Root, j) : j \in 0..NDIRECT - 1}
            <7> SUFFICES ASSUME NEW j \in 0..NDIRECT - 1, x = DirectAt(Root, j) PROVE FALSE
              OBVIOUS
            <7>1. j \in Nat /\ j < NDIRECT BY Sizes
            <7>2. HasSlot(w, Root, j) /\ SlotAt(w, Root, j) = x BY <7>1 DEF HasSlot, SlotAt
            <7>3. i = j BY <1>20, <3>1, <3>4, <7>1, <7>2, RootOwns, SlotAtOnce
            <7> QED BY <4>2, <7>1, <7>3
          <6>3. x \in IndirectWords(w, Root) BY <3>4, <6>2 DEF DataSlots
          <6>4. x \in WordsOf(b) BY <1>3, <6>1, <6>3 DEF IndirectWords
          <6>5. w[x] = 0 BY <6>1, <6>4 DEF IsClear
          <6> QED BY <3>4, <6>5 DEF Pointers
        <5>2. w[IndirectAt(Root)] = m[IndirectAt(Root)] BY <1>5, <5>1, RootOwns
        <5> QED BY <3>4, <5>2 DEF HasSlot, SlotAt
      <4> QED BY <4>1, <4>2
    <3>6. CASE x = s
      <4>1. s \in SlotsOf(m, Root) BY <1>0, <3>1, <3>5, <3>6, RootOwns, SlotAtIn, SlotsAre
      <4>2. f = Root BY <1>0, <4>1, RootOwns, SlotsDiffer
      <4> QED BY <3>3, <3>5, <3>6, <4>2
    <3>7. CASE x # s
      <4>1. x \in Pointers(m) BY <1>17, <3>4, <3>7
      <4>2. Pointer(m, Root, i) # 0 BY <3>5, <4>1 DEF Pointer, Pointers
      <4> QED BY <3>3, <4>2 DEF Good, InSize, Index
    <3> QED BY <3>6, <3>7
  <2>4. NamedOnce(w)
    <3> SUFFICES ASSUME NEW g \in Structs(w), NEW h \in Structs(w), w[g] = w[h], w[g] # 0
                 PROVE  g = h
      BY DEF NamedOnce
    <3>1. g \in Structs(m) /\ h \in Structs(m) BY <1>13
    <3> QED BY <1>18, <3>1 DEF Good, NamedOnce
  <2>5. ZeroBlock(w)
    <3> SUFFICES ASSUME NEW a \in WordsOf(0) PROVE w[a] = 0 BY DEF ZeroBlock
    <3> a \in Addr /\ a # s BY <1>2, WordsIn, DataBlocks
    <3> QED BY <1>3 DEF Good, ZeroBlock
  <2> QED BY <1>20, <2>1, <2>2, <2>3, <2>4, <2>5 DEF Good, Tree
(* The disk: the new block is all that changes. *)
<1>22. e \in Image /\ \A a \in Addr : e[a] = IF blockno(a) = b THEN w[a] ELSE d[a]
  OBVIOUS
<1>23. \A a \in AllSlots(m) : d[a] \in {0, m[a]} /\ e[a] = d[a]
  BY <1>0, <1>1, <1>22, AllSlotsIn DEF Older
<1>24. /\ Tree(d) /\ AllSlots(d) \subseteq AllSlots(m) BY <1>0, <1>23, Sub
<1>25. InSize(e) /\ Structs(e) = Structs(d)
  <2>1. \A a \in SlotsOf(d, Root) : e[a] = d[a] BY <1>23, <1>24, RootOwns, SlotsIn
  <2>2. e[SizeAt(Root)] = d[SizeAt(Root)] BY <1>1, <1>22, RootPlaces
  <2> QED BY <1>22, <1>24, <2>1, <2>2, SameRoot DEF Older
<1>26. \A a \in AllSlots(w) : e[a] \in {0, w[a]}
  <2> SUFFICES ASSUME NEW a \in AllSlots(w) PROVE e[a] \in {0, w[a]} OBVIOUS
  <2>1. CASE a \notin AllSlots(m)
    <3>1. a \in WordsOf(b) BY <1>16, <2>1
    <3>2. a \in Addr /\ blockno(a) = b BY <1>1, <3>1, WordsIn
    <3> QED BY <1>22, <3>2
  <2>2. CASE a \in AllSlots(m) /\ a # s BY <1>4, <1>23, <2>2
  <2>3. CASE a = s BY <1>2, <1>23, <2>3
  <2> QED BY <2>1, <2>2, <2>3
<1>27. \A g \in Structs(m) : e[g] = d[g] BY <1>1, <1>18, <1>22
<1>28. \A g \in Structs(w) : e[g] \in {0, w[g]}
  <2> SUFFICES ASSUME NEW g \in Structs(w) PROVE e[g] \in {0, w[g]} OBVIOUS
  <2>1. CASE g \in Structs(m) BY <1>18, <1>27, <2>1 DEF Older
  <2>2. CASE g \notin Structs(m)
    <3>1. g \in FilesIn(b) BY <1>13, <2>2
    <3>2. g \in Addr /\ blockno(g) = b BY <1>1, <3>1, Places, WordsIn
    <3> QED BY <1>22, <3>2
  <2> QED BY <2>1, <2>2
<1>29. \A a \in Pointers(w) : e[BitAt(w[a])] = 0
  <2> SUFFICES ASSUME NEW a \in Pointers(w) PROVE e[BitAt(w[a])] = 0 OBVIOUS
  <2>1. \A c \in Blocks : e[BitAt(c)] = d[BitAt(c)] BY <1>1, <1>19, <1>22
  <2>2. CASE a = s BY <1>1, <1>3, <2>1, <2>2 DEF Fresh
  <2>3. CASE a # s
    <3>1. a \in Pointers(m) /\ w[a] = m[a] BY <1>17, <2>3
    <3>2. m[a] \in Blocks BY <3>1, DataBlocks DEF Good, PointToData
    <3> QED BY <2>1, <3>1, <3>2 DEF Older
  <2> QED BY <2>2, <2>3
<1>30. Reserved(e)
  <2> SUFFICES ASSUME NEW c \in 0..2 PROVE e[BitAt(c)] # 1 BY DEF Reserved
  <2> c \in Blocks BY Sizes DEF Blocks
  <2> QED BY <1>1, <1>19, <1>22 DEF Older, Reserved
<1>31. ZeroBlock(e)
  <2> SUFFICES ASSUME NEW a \in WordsOf(0) PROVE e[a] = 0 BY DEF ZeroBlock
  <2> a \in Addr /\ blockno(a) # b BY <1>1, WordsIn, DataBlocks
  <2> QED BY <1>22 DEF Older, ZeroBlock
<1>32. Older(e, w) BY <1>22, <1>25, <1>26, <1>28, <1>29, <1>30, <1>31 DEF Older
<1>33. Visible(d, m) => Visible(e, w)
  <2> SUFFICES ASSUME Visible(d, m), NEW g \in Structs(w), w[g] # 0
               PROVE  g \in Structs(e) /\ e[g] = w[g]
    BY DEF Visible
  <2>1. g \in Structs(m) BY <1>13
  <2> QED BY <1>18, <1>25, <1>27, <2>1 DEF Visible
<1>34. s \in SlotsOf(w, f) BY <1>15
<1>35. AllSlots(m) \subseteq AllSlots(w)
  <2> SUFFICES ASSUME NEW g \in Owners(m) PROVE SlotsOf(m, g) \subseteq AllSlots(w)
    BY DEF AllSlots, Owners
  <2>1. g \in Owners(w) BY <1>14 DEF Owners
  <2> QED BY <1>15, <2>1, SlotsIn
<1> QED BY <1>35, <1>2, <1>3, <1>13, <1>14, <1>18, <1>21, <1>32, <1>33, <1>34

(* file_truncate_blocks() and file_set_size(): a file loses the pointers S,*)
(* and with its indirect block all that are in it or none of them.         *)
Dropped(m, d, f, n, S, w, e) ==
    /\ Good(m) /\ Older(d, m) /\ f \in Structs(m) /\ n \in Nat
    /\ S \subseteq SlotsOf(m, f)
    /\ IndirectAt(f) \in S \/ S \cap IndirectWords(m, f) = {}
    /\ w \in Image
    /\ \A a \in Addr : w[a] = IF a = SizeAt(f) THEN n
                              ELSE IF a \in S THEN 0
                              ELSE IF \E c \in S : m[c] # 0 /\ a = BitAt(m[c]) THEN 1
                              ELSE m[a]
    /\ e \in Image /\ \A a \in Addr : e[a] = IF blockno(a) = blockno(f) THEN w[a] ELSE d[a]

LEMMA Cut ==
    ASSUME NEW m, NEW d, NEW f, NEW n, NEW S, NEW w, NEW e, Dropped(m, d, f, n, S, w, e)
    PROVE  /\ Good(w) /\ Older(e, w) /\ (Visible(d, m) => Visible(e, w))
           /\ Structs(w) = Structs(m) /\ \A g \in Structs(m) : w[g] = m[g]
<1> USE DEF Dropped
<1>0. Tree(m) /\ m \in Image /\ d \in Image BY GoodTree DEF Tree, Older
<1>1. /\ f \in Owners(m) /\ f # Root /\ blockno(f) \in DirBlks(m) /\ SizeAt(f) \in Addr
      /\ blockno(SizeAt(f)) = blockno(f) /\ blockno(f) \notin {0, 1, 2}
  BY <1>0, StructsApart, OwnersIn, DataBlocks
<1>2. S \subseteq AllSlots(m) BY <1>1, SlotsIn
<1>3. \A c \in S : m[c] # 0 => c \in Pointers(m) /\ m[c] \in Blocks /\ m[c] \in 3..NBLOCKS - 1
  BY <1>2, DataBlocks DEF Good, PointToData, Pointers
<1>4. ASSUME NEW a \in Addr, blockno(a) # 2, a # SizeAt(f), a \notin S PROVE w[a] = m[a]
  <2> \A c \in S : m[c] # 0 => a # BitAt(m[c]) BY <1>3, <1>4, BitIn
  <2> QED BY <1>4
<1>5. \A a \in AllSlots(m) : w[a] = IF a \in S THEN 0 ELSE m[a]
  <2> SUFFICES ASSUME NEW a \in AllSlots(m) PROVE w[a] = IF a \in S THEN 0 ELSE m[a] OBVIOUS
  <2>1. a \in Addr /\ blockno(a) # 2 /\ a # SizeAt(f) BY <1>0, <1>1, AllSlotsIn, NoSlot
  <2> QED BY <1>4, <2>1
<1>6. \A g \in Structs(m) : w[g] = m[g] /\ g \in Addr /\ blockno(g) # 2
  <2> SUFFICES ASSUME NEW g \in Structs(m) PROVE w[g] = m[g] /\ g \in Addr /\ blockno(g) # 2
    OBVIOUS
  <2>1. g \in Addr /\ blockno(g) # 2 /\ g \in Owners(m)
    BY <1>0, StructsApart, OwnersIn, DataBlocks
  <2>2. g # SizeAt(f) /\ g \notin S BY <1>0, <1>1, <1>2, <2>1, NamesDiffer, NoSlot
  <2> QED BY <1>4, <2>1, <2>2
<1>7. \A a \in AllSlots(m) : w[a] \in {0, m[a]} BY <1>5
<1>8. /\ Tree(w) /\ AllSlots(w) \subseteq AllSlots(m) /\ Pointers(w) \subseteq Pointers(m)
      /\ \A a \in Pointers(w) : w[a] = m[a] /\ a \notin S
      /\ \A g \in Owners(m) : SlotsOf(w, g) \subseteq SlotsOf(m, g)
  <2>1. /\ Tree(w) /\ AllSlots(w) \subseteq AllSlots(m) /\ Pointers(w) \subseteq Pointers(m)
        /\ \A a \in Pointers(w) : w[a] = m[a]
        /\ \A g \in Owners(m) : SlotsOf(w, g) \subseteq SlotsOf(m, g)
    BY <1>0, <1>7, Sub
  <2>2. \A a \in Pointers(w) : a \notin S BY <1>5, <2>1 DEF Pointers
  <2> QED BY <2>1, <2>2
<1>9. \A a \in SlotsOf(m, Root) : w[a] = m[a]
  BY <1>0, <1>1, <1>5, RootOwns, SlotsIn, SlotsDiffer
<1>10. w[SizeAt(Root)] = m[SizeAt(Root)]
  <2>1. SizeAt(Root) # SizeAt(f) /\ SizeAt(Root) \notin S
    BY <1>0, <1>1, <1>2, RootOwns, NamesDiffer, NoSlot
  <2> QED BY <1>4, <2>1, RootPlaces
<1>11. Structs(w) = Structs(m) /\ InSize(w) BY <1>0, <1>9, <1>10, SameRoot DEF Good
<1>12. \A c \in Blocks : BitAt(c) \in Addr /\ blockno(BitAt(c)) = 2 /\ BitAt(c) # SizeAt(f)
                         /\ BitAt(c) \notin S
  BY <1>0, <1>1, <1>2, BitIn, AllSlotsIn
<1>13. Good(w)
  <2>1. InUse(w)
    <3> SUFFICES ASSUME NEW a \in Pointers(w) PROVE w[BitAt(w[a])] = 0 BY DEF InUse
    <3>1. a \in Pointers(m) /\ w[a] = m[a] /\ a \notin S BY <1>8
    <3>2. m[a] \in Blocks /\ m[BitAt(m[a])] = 0
      BY <3>1, DataBlocks DEF Good, PointToData, InUse
    <3>3. ASSUME NEW c \in S, m[c] # 0, BitAt(m[a]) = BitAt(m[c]) PROVE FALSE
      <4>1. m[a] = m[c] BY <1>3, <3>2, <3>3, BitsDiffer
      <4>2. a = c BY <1>3, <3>1, <3>3, <4>1 DEF Good, Injective
      <4> QED BY <3>1, <4>2
    <3> QED BY <1>12, <3>1, <3>2, <3>3
  <2>2. Reserved(w)
    <3> SUFFICES ASSUME NEW c \in 0..2 PROVE w[BitAt(c)] # 1 BY DEF Reserved
    <3>1. c \in Blocks /\ c \notin 3..NBLOCKS - 1 BY Sizes DEF Blocks
    <3>2. \A a \in S : m[a] # 0 => BitAt(c) # BitAt(m[a]) BY <1>3, <3>1, BitsDiffer
    <3>3. w[BitAt(c)] = m[BitAt(c)] BY <1>12, <3>1, <3>2
    <3> QED BY <3>3 DEF Good, Reserved
  <2>3. NamedOnce(w) BY <1>6, <1>11 DEF Good, NamedOnce
  <2>4. ZeroBlock(w)
    <3> SUFFICES ASSUME NEW a \in WordsOf(0) PROVE w[a] = 0 BY DEF ZeroBlock
    <3>1. a \in Addr /\ blockno(a) = 0 BY WordsIn, DataBlocks
    <3>2. a # SizeAt(f) /\ a \notin S BY <1>0, <1>1, <1>2, <3>1, AllSlotsIn
    <3>3. w[a] = m[a] BY <1>4, <3>1, <3>2
    <3> QED BY <3>3 DEF Good, ZeroBlock
  <2> QED BY <1>8, <1>11, <2>1, <2>2, <2>3, <2>4 DEF Good, Tree
(* The disk: the block of the File structure is all that changes. *)
<1>14. e \in Image /\ \A a \in Addr : e[a] = IF blockno(a) = blockno(f) THEN w[a] ELSE d[a]
  OBVIOUS
<1>15. \A a \in AllSlots(m) : d[a] \in {0, m[a]} BY DEF Older
<1>16. Tree(d) /\ SlotsOf(d, Root) \subseteq SlotsOf(m, Root) BY <1>0, <1>15, RootOwns, Sub
<1>17. InSize(e) /\ Structs(e) = Structs(d)
  <2>1. ASSUME NEW a \in SlotsOf(m, Root) PROVE a \in Addr /\ blockno(a) # blockno(f)
    <3>1. CASE a \in IndirectWords(m, Root)
      <4> a \in Addr /\ blockno(a) \in Indirects(m) BY <1>0, <3>1, RootOwns, IndirectIn
      <4> QED BY <1>0, <1>1, Apart
    <3>2. CASE a \notin IndirectWords(m, Root) BY <1>1, <3>2, RootPlaces, SlotsAre DEF DataSlots
    <3> QED BY <3>1, <3>2
  <2>2. \A a \in SlotsOf(d, Root) : e[a] = d[a] BY <1>14, <1>16, <2>1
  <2>3. e[SizeAt(Root)] = d[SizeAt(Root)] BY <1>1, <1>14, RootPlaces
  <2> QED BY <1>14, <1>16, <2>2, <2>3, SameRoot DEF Older
<1>18. \A a \in AllSlots(w) : e[a] \in {0, w[a]}
  <2> SUFFICES ASSUME NEW a \in AllSlots(w) PROVE e[a] \in {0, w[a]} OBVIOUS
  <2>1. a \in AllSlots(m) /\ a \in Addr BY <1>0, <1>8, AllSlotsIn
  <2>2. CASE blockno(a) = blockno(f) BY <1>14, <2>1, <2>2
  <2>3. CASE a \notin S BY <1>5, <1>14, <1>15, <2>1, <2>3
  <2>4. CASE a \in S /\ blockno(a) # blockno(f)
    <3>1. a \in IndirectWords(m, f)
      <4>1. a = IndirectAt(f) \/ (\E i \in 0..NDIRECT - 1 : a = DirectAt(f, i))
            \/ a \in IndirectWords(m, f)
        BY <2>4, SlotsAre DEF DataSlots
      <4> QED BY <1>0, <2>4, <4>1, StructsApart
    <3>2. IndirectAt(f) \in S BY <2>4, <3>1
    <3>3. w[IndirectAt(f)] = 0 BY <1>2, <1>5, <3>2
    <3>4. IndirectWords(w, f) = {} BY <3>3 DEF IndirectWords
    <3>5. PICK g \in Owners(w) : a \in SlotsOf(w, g) BY DEF AllSlots, Owners
    <3>6. g \in Owners(m) BY <1>11, <3>5 DEF Owners
    <3>7. a \in SlotsOf(m, g) BY <1>8, <3>5, <3>6
    <3>8. g = f BY <1>0, <1>1, <2>4, <3>6, <3>7, SlotsDiffer
    <3>9. a = IndirectAt(f) \/ \E i \in 0..NDIRECT - 1 : a = DirectAt(f, i)
      BY <3>4, <3>5, <3>8, SlotsAre DEF DataSlots
    <3> QED BY <1>0, <2>4, <3>9, StructsApart
  <2> QED BY <2>2, <2>3, <2>4
<1>19. \A g \in Structs(m) : e[g] \in {w[g], d[g]} /\ d[g] \in {0, m[g]}
  BY <1>6, <1>14 DEF Older
<1>20. \A c \in Blocks : e[BitAt(c)] = d[BitAt(c)] BY <1>1, <1>12, <1>14
<1>21. \A a \in Pointers(w) : e[BitAt(w[a])] = 0
  <2> SUFFICES ASSUME NEW a \in Pointers(w) PROVE e[BitAt(w[a])] = 0 OBVIOUS
  <2>1. a \in Pointers(m) /\ w[a] = m[a] BY <1>8
  <2>2. m[a] \in Blocks BY <2>1, DataBlocks DEF Good, PointToData
  <2> QED BY <1>20, <2>1, <2>2 DEF Older
<1>22. Reserved(e)
  <2> SUFFICES ASSUME NEW c \in 0..2 PROVE e[BitAt(c)] # 1 BY DEF Reserved
  <2> c \in Blocks BY Sizes DEF Blocks
  <2> QED BY <1>20 DEF Older, Reserved
<1>23. ZeroBlock(e)
  <2> SUFFICES ASSUME NEW a \in WordsOf(0) PROVE e[a] = 0 BY DEF ZeroBlock
  <2> a \in Addr /\ blockno(a) # blockno(f) BY <1>1, WordsIn, DataBlocks
  <2> QED BY <1>14 DEF Older, ZeroBlock
<1>24. Older(e, w) BY <1>6, <1>11, <1>14, <1>17, <1>18, <1>19, <1>21, <1>22, <1>23 DEF Older
<1>25. Visible(d, m) => Visible(e, w) BY <1>6, <1>11, <1>17, <1>19 DEF Visible
<1> QED BY <1>6, <1>11, <1>13, <1>24, <1>25

-----------------------------------------------------------------------------
(* Requests in progress.  No function of fs.c takes back what is unsafe.   *)

IsState(s) ==
    /\ s = [mem |-> s.mem, disk |-> s.disk, seen |-> s.seen, err |-> s.err,
             at |-> s.at, unsafe |-> s.unsafe]
    /\ s.mem \in Image
Grows(s, r) == IsState(r) /\ s.unsafe \subseteq r.unsafe

LEMMA NowIs == mem \in Image => IsState(Now)
BY DEF Now, IsState

LEMMA FailIs ==
    ASSUME NEW s, IsState(s), NEW e
    PROVE  /\ Grows(s, Fail(s, e)) /\ Fail(s, e).err = e
           /\ Fail(s, e).mem = s.mem /\ Fail(s, e).disk = s.disk /\ Fail(s, e).seen = s.seen
           /\ Fail(s, e).at = s.at /\ Fail(s, e).unsafe = s.unsafe
BY DEF Fail, Grows, IsState

LEMMA AtIs ==
    ASSUME NEW s, IsState(s), NEW x
    PROVE  /\ Grows(s, [s EXCEPT !.at = x]) /\ [s EXCEPT !.at = x].at = x
           /\ [s EXCEPT !.at = x].mem = s.mem /\ [s EXCEPT !.at = x].disk = s.disk
           /\ [s EXCEPT !.at = x].seen = s.seen /\ [s EXCEPT !.at = x].err = s.err
           /\ [s EXCEPT !.at = x].unsafe = s.unsafe
BY DEF Grows, IsState

LEMMA MemIs ==
    ASSUME NEW s, IsState(s), NEW x \in Image
    PROVE  /\ Grows(s, [s EXCEPT !.mem = x]) /\ [s EXCEPT !.mem = x].mem = x
           /\ [s EXCEPT !.mem = x].at = s.at /\ [s EXCEPT !.mem = x].disk = s.disk
           /\ [s EXCEPT !.mem = x].seen = s.seen /\ [s EXCEPT !.mem = x].err = s.err
           /\ [s EXCEPT !.mem = x].unsafe = s.unsafe
BY DEF Grows, IsState

LEMMA PutIs ==
    ASSUME NEW s, IsState(s), NEW a, NEW v \in Nat
    PROVE  /\ Grows(s, Put(s, a, v)) /\ Put(s, a, v).mem = [s.mem EXCEPT ![a] = v]
           /\ Put(s, a, v).disk = s.disk /\ Put(s, a, v).seen = s.seen
           /\ Put(s, a, v).err = s.err /\ Put(s, a, v).at = s.at
           /\ Put(s, a, v).unsafe = s.unsafe
<1>1. [s.mem EXCEPT ![a] = v] \in Image BY DEF IsState, Image
<1> QED BY <1>1 DEF Put, Grows, IsState

LEMMA MarkIs ==
    ASSUME NEW s, IsState(s), NEW kind, NEW cond \in BOOLEAN
    PROVE  /\ Grows(s, Mark(s, kind, cond))
           /\ Mark(s, kind, cond).mem = s.mem /\ Mark(s, kind, cond).disk = s.disk
           /\ Mark(s, kind, cond).seen = s.seen /\ Mark(s, kind, cond).err = s.err
           /\ Mark(s, kind, cond).at = s.at
           /\ cond => kind \in Mark(s, kind, cond).unsafe
BY DEF Mark, Grows, IsState

Upto(blocks, i) == {blocks[k] : k \in 1..i}

LEMMA FlushAllIs ==
    ASSUME NEW s, IsState(s), NEW n \in Nat, NEW blocks, Len(blocks) = n
    PROVE  /\ Grows(s, FlushAll(s, blocks)) /\ FlushAll(s, blocks).mem = s.mem
           /\ FlushAll(s, blocks).disk = Mix(s.mem, s.disk, Upto(blocks, n))
           /\ FlushAll(s, blocks).seen =
                s.seen \cup {Mix(s.mem, s.disk, Upto(blocks, i)) : i \in 1..n}
           /\ FlushAll(s, blocks).err = s.err /\ FlushAll(s, blocks).at = s.at
           /\ FlushAll(s, blocks).unsafe = s.unsafe
<1>1. \A X : Written(s, X) = Mix(s.mem, s.disk, X) BY DEF Written, Mix
<1> DEFINE W(i) == Written(s, {blocks[k] : k \in 1..i})
           D == W(n)
           E == {W(i) : i \in 1..n}
<1>2. FlushAll(s, blocks) = [s EXCEPT !.disk = D, !.seen = @ \cup E] BY DEF FlushAll
<1>3. D = Mix(s.mem, s.disk, Upto(blocks, n))
      /\ E = {Mix(s.mem, s.disk, Upto(blocks, i)) : i \in 1..n}
  BY <1>1 DEF Upto
<1> HIDE DEF D, E
<1> QED BY <1>2, <1>3 DEF Grows, IsState

LEMMA FlushIs ==
    ASSUME NEW s, IsState(s), NEW b
    PROVE  /\ Grows(s, Flush(s, b)) /\ Flush(s, b).mem = s.mem
           /\ Flush(s, b).disk = MixAt(s.mem, s.disk, b)
           /\ Flush(s, b).seen = s.seen \cup {MixAt(s.mem, s.disk, b)}
           /\ Flush(s, b).err = s.err /\ Flush(s, b).at = s.at
           /\ Flush(s, b).unsafe = s.unsafe
<1> DEFINE B == <<b>>
<1>1. Len(B) = 1 /\ Upto(B, 1) = {b} BY DEF Upto
<1>2. {Mix(s.mem, s.disk, Upto(B, i)) : i \in 1..1} = {Mix(s.mem, s.disk, {b})}
  BY <1>1
<1>3. Flush(s, b) = FlushAll(s, B) BY DEF Flush
<1> HIDE DEF B
<1>4. /\ Grows(s, FlushAll(s, B)) /\ FlushAll(s, B).mem = s.mem
      /\ FlushAll(s, B).disk = Mix(s.mem, s.disk, Upto(B, 1))
      /\ FlushAll(s, B).seen = s.seen \cup {Mix(s.mem, s.disk, Upto(B, i)) : i \in 1..1}
      /\ FlushAll(s, B).err = s.err /\ FlushAll(s, B).at = s.at
      /\ FlushAll(s, B).unsafe = s.unsafe
  BY <1>1, FlushAllIs, 1 \in Nat
<1> QED BY <1>1, <1>2, <1>3, <1>4 DEF MixAt

LEMMA GrowsOn ==
    ASSUME NEW s, NEW t, NEW r, Grows(s, t), Grows(t, r)
    PROVE  Grows(s, r)
BY DEF Grows

LEMMA GrowsNot == ASSUME NEW s, IsState(s) PROVE Grows(s, s)
BY DEF Grows

LEMMA AllocGrows ==
    ASSUME NEW s, IsState(s)
    PROVE  /\ Grows(s, AllocBlock(s))
           /\ AllocBlock(s).err = "ok" => AllocBlock(s).at \in Nat
           /\ \/ AllocBlock(s).err # "ok" /\ AllocBlock(s) = Fail(s, "NO_DISK")
              \/ \E b \in Blocks :
                   /\ s.mem[BitAt(b)] = 1
                   /\ AllocBlock(s).mem = [s.mem EXCEPT ![BitAt(b)] = 0]
                   /\ AllocBlock(s).disk = MixAt(AllocBlock(s).mem, s.disk, 2)
                   /\ AllocBlock(s).seen = s.seen \cup {AllocBlock(s).disk}
                   /\ AllocBlock(s).err = s.err /\ AllocBlock(s).at = b
                   /\ AllocBlock(s).unsafe = s.unsafe
<1> DEFINE avail == {b \in Blocks : s.mem[BitAt(b)] = 1}
           b == Min(avail)
           p == Put(s, BitAt(b), 0)
           q == Flush(p, 2)
<1>1. CASE avail = {}
  <2> AllocBlock(s) = Fail(s, "NO_DISK") BY <1>1 DEF AllocBlock
  <2> QED BY FailIs
<1>2. CASE avail # {}
  <2>1. AllocBlock(s) = [q EXCEPT !.at = b] BY <1>2 DEF AllocBlock
  <2>2. b \in avail
    <3>1. avail \subseteq Nat BY Sizes DEF Blocks
    <3> HIDE DEF avail
    <3> QED BY <1>2, <3>1, MinIn
  <2>3. b \in Blocks /\ s.mem[BitAt(b)] = 1 BY <2>2
  <2> HIDE DEF b
  <2>4. /\ Grows(s, p) /\ p.mem = [s.mem EXCEPT ![BitAt(b)] = 0] /\ p.disk = s.disk
        /\ p.seen = s.seen /\ p.err = s.err /\ p.unsafe = s.unsafe
    <3>1. PICK x, z : x = BitAt(b) /\ z = 0 /\ z \in Nat OBVIOUS
    <3>2. p = Put(s, x, z) BY <3>1
    <3> HIDE DEF p
    <3> QED BY <3>1, <3>2, PutIs
  <2> HIDE DEF p
  <2>8. IsState(p) BY <2>4 DEF Grows
  <2>9. q.seen = p.seen \cup {MixAt(p.mem, p.disk, 2)} BY <2>8, FlushIs
  <2>10. q.disk = MixAt(p.mem, p.disk, 2) BY <2>8, FlushIs
  <2>12. Grows(p, q) BY <2>8, FlushIs
  <2>13. q.mem = p.mem BY <2>8, FlushIs
  <2>11. q.err = p.err /\ q.unsafe = p.unsafe BY <2>8, FlushIs
  <2> HIDE DEF q
  <2>6. /\ Grows(q, AllocBlock(s)) /\ AllocBlock(s).at = b
        /\ AllocBlock(s).mem = q.mem /\ AllocBlock(s).disk = q.disk
        /\ AllocBlock(s).seen = q.seen /\ AllocBlock(s).err = q.err
        /\ AllocBlock(s).unsafe = q.unsafe
    BY <2>1, <2>9, <2>10, <2>11, <2>12, <2>13, AtIs DEF Grows
  <2>7. Grows(s, AllocBlock(s)) BY <2>4, <2>9, <2>10, <2>11, <2>12, <2>13, <2>6, GrowsOn
  <2>14. b \in Nat BY <2>3, Sizes DEF Blocks
  <2> QED BY <2>3, <2>4, <2>9, <2>10, <2>11, <2>12, <2>13, <2>14, <2>6, <2>7
<1> QED BY <1>1, <1>2

LEMMA LinkIs ==
    ASSUME NEW s, IsState(s), NEW a
    PROVE  /\ Grows(s, Link(s, a))
           /\ \/ AllocBlock(s).err # "ok" /\ Link(s, a) = AllocBlock(s)
              \/ /\ AllocBlock(s).err = "ok"
                 /\ Link(s, a).mem = [AllocBlock(s).mem EXCEPT ![a] = AllocBlock(s).at]
                 /\ Link(s, a).disk = MixAt(Link(s, a).mem, AllocBlock(s).disk, AllocBlock(s).at)
                 /\ Link(s, a).seen = AllocBlock(s).seen \cup {Link(s, a).disk}
                 /\ Link(s, a).err = "ok" /\ Link(s, a).at = AllocBlock(s).at
<1>0. PICK n : n = AllocBlock(s) OBVIOUS
<1>1. Grows(s, n) BY <1>0, AllocGrows
<1>4. IsState(n) BY <1>1 DEF Grows
<1>2. CASE n.err # "ok"
  <2> Link(s, a) = n BY <1>0, <1>2 DEF Link, Then
  <2> QED BY <1>0, <1>1, <1>2
<1>3. CASE n.err = "ok"
  <2>1. PICK p : p = Put(n, a, n.at) OBVIOUS
  <2>2. Link(s, a) = Flush(p, n.at) BY <1>0, <1>3, <2>1 DEF Link, Then
  <2>3. /\ Grows(n, p) /\ p.mem = [n.mem EXCEPT ![a] = n.at] /\ p.disk = n.disk
        /\ p.seen = n.seen /\ p.err = n.err /\ p.at = n.at
    <3>1. n.at \in Nat BY <1>0, <1>3, AllocGrows
    <3>2. PICK v \in Nat : v = n.at BY <3>1
    <3>3. /\ Grows(n, Put(n, a, v)) /\ Put(n, a, v).mem = [n.mem EXCEPT ![a] = v]
          /\ Put(n, a, v).disk = n.disk /\ Put(n, a, v).seen = n.seen
          /\ Put(n, a, v).err = n.err /\ Put(n, a, v).at = n.at
      BY <1>4, PutIs
    <3>4. p = Put(n, a, v) BY <2>1, <3>2
    <3> QED BY <3>2, <3>3, <3>4
  <2>8. IsState(p) BY <2>3 DEF Grows
  <2>4. PICK q : q = Flush(p, n.at) OBVIOUS
  <2>9. q.seen = p.seen \cup {MixAt(p.mem, p.disk, n.at)} BY <2>8, <2>4, FlushIs
  <2>10. q.disk = MixAt(p.mem, p.disk, n.at) BY <2>8, <2>4, FlushIs
  <2>12. Grows(p, q) BY <2>8, <2>4, FlushIs
  <2>13. q.mem = p.mem BY <2>8, <2>4, FlushIs
  <2>11. q.err = p.err /\ q.at = p.at BY <2>8, <2>4, FlushIs
  <2>6. Grows(s, q) BY <1>1, <2>3, <2>12, GrowsOn
  <2>7. q = Link(s, a) BY <2>2, <2>4
  <2> QED BY <1>0, <1>3, <2>3, <2>9, <2>10, <2>11, <2>12, <2>13, <2>6, <2>7
<1> QED BY <1>2, <1>3

-----------------------------------------------------------------------------
(* What a request in progress keeps.                                       *)

Ok(s) == IsState(s) /\ Good(s.mem) /\ Older(s.disk, s.mem) /\ \A d \in s.seen : Good(d)

(* What the functions that look for a block or make one leave as it was.   *)
Carry(s, r) ==
    /\ Ok(r) /\ (Visible(s.disk, s.mem) => Visible(r.disk, r.mem))
    /\ Structs(s.mem) \subseteq Structs(r.mem) /\ AllSlots(s.mem) \subseteq AllSlots(r.mem)
    /\ \A a \in Pointers(s.mem) : r.mem[a] = s.mem[a]
    /\ \A f \in Structs(s.mem) : r.mem[f] = s.mem[f]
    /\ \A f \in Structs(r.mem) \ Structs(s.mem) : r.mem[f] = 0
    /\ r.mem[SizeAt(Root)] = s.mem[SizeAt(Root)]

LEMMA CarryNot == ASSUME NEW s, Ok(s) PROVE Carry(s, s)
BY DEF Carry, Pointers

LEMMA CarryOn ==
    ASSUME NEW s, NEW t, NEW r, Carry(s, t), Carry(t, r)
    PROVE  Carry(s, r)
<1>1. \A a \in Pointers(s.mem) : a \in Pointers(t.mem) BY DEF Carry, Pointers
<1>2. \A a \in Pointers(s.mem) : r.mem[a] = s.mem[a] BY <1>1 DEF Carry
<1>3. \A f \in Structs(s.mem) : r.mem[f] = s.mem[f] BY DEF Carry
<1>4. \A f \in Structs(r.mem) \ Structs(s.mem) : r.mem[f] = 0
  <2> SUFFICES ASSUME NEW f \in Structs(r.mem), f \notin Structs(s.mem) PROVE r.mem[f] = 0
    OBVIOUS
  <2>1. CASE f \in Structs(t.mem) BY <2>1 DEF Carry
  <2>2. CASE f \notin Structs(t.mem) BY <2>2 DEF Carry
  <2> QED BY <2>1, <2>2
<1> QED BY <1>2, <1>3, <1>4 DEF Carry

(* The same images, with another answer. *)
LEMMA CarrySame ==
    ASSUME NEW s, NEW t, Carry(s, t), NEW r, IsState(r),
           r.mem = t.mem, r.disk = t.disk, r.seen = t.seen
    PROVE  Carry(s, r)
BY DEF Carry, Ok

LEMMA CarryPointer ==
    ASSUME NEW s, Ok(s), NEW r, Carry(s, r), NEW f \in Owners(s.mem), NEW i \in Nat,
           Pointer(s.mem, f, i) # 0
    PROVE  Pointer(r.mem, f, i) = Pointer(s.mem, f, i)
<1>1. Tree(s.mem) BY GoodTree DEF Ok
<1>2. HasSlot(s.mem, f, i) /\ SlotAt(s.mem, f, i) \in Pointers(s.mem)
      /\ Pointer(s.mem, f, i) = s.mem[SlotAt(s.mem, f, i)]
  BY <1>1, PointerIn
<1>3. CASE i < NDIRECT
  <2>1. HasSlot(r.mem, f, i) /\ SlotAt(r.mem, f, i) = SlotAt(s.mem, f, i)
    BY <1>3 DEF HasSlot, SlotAt
  <2> QED BY <1>2, <2>1 DEF Pointer, Carry
<1>4. CASE ~(i < NDIRECT)
  <2>1. s.mem[IndirectAt(f)] # 0 BY <1>2, <1>4 DEF HasSlot
  <2>2. r.mem[IndirectAt(f)] = s.mem[IndirectAt(f)] BY <2>1, SlotsIn DEF Carry, Pointers
  <2>3. HasSlot(r.mem, f, i) /\ SlotAt(r.mem, f, i) = SlotAt(s.mem, f, i)
    BY <1>2, <2>2 DEF HasSlot, SlotAt
  <2> QED BY <1>2, <2>3 DEF Pointer, Carry
<1> QED BY <1>3, <1>4

LEMMA AllocOk ==
    ASSUME NEW s, Ok(s), s.err = "ok", NEW r, r = AllocBlock(s)
    PROVE  /\ Carry(s, r)
           /\ r.err = "ok" =>
                /\ Fresh(r.mem, r.disk, r.at)
                /\ Structs(r.mem) = Structs(s.mem) /\ AllSlots(r.mem) = AllSlots(s.mem)
                /\ \A a \in Addr : blockno(a) # 2 => r.mem[a] = s.mem[a]
                /\ \A f \in Owners(s.mem) : DataSlots(r.mem, f) = DataSlots(s.mem, f)
<1>0. IsState(s) /\ Grows(s, r) /\ IsState(r) BY AllocGrows DEF Ok, Grows
<1>1. CASE r.err # "ok"
  <2>1. r = Fail(s, "NO_DISK") BY <1>0, <1>1, AllocGrows
  <2>2. r.mem = s.mem /\ r.disk = s.disk /\ r.seen = s.seen BY <1>0, <2>1, FailIs
  <2> QED BY <1>0, <1>1, <2>2, CarryNot, CarrySame
<1>2. CASE r.err = "ok"
  <2>1. PICK b \in Blocks :
          /\ s.mem[BitAt(b)] = 1
          /\ r.mem = [s.mem EXCEPT ![BitAt(b)] = 0]
          /\ r.disk = MixAt(r.mem, s.disk, 2)
          /\ r.seen = s.seen \cup {r.disk}
          /\ r.at = b
    BY <1>0, <1>2, AllocGrows
  <2>2. Good(s.mem) /\ Older(s.disk, s.mem) /\ Tree(s.mem) BY GoodTree DEF Ok
  <2>3. /\ Good(r.mem) /\ Older(r.disk, r.mem)
        /\ (Visible(s.disk, s.mem) => Visible(r.disk, r.mem))
        /\ Fresh(r.mem, r.disk, b)
        /\ Structs(r.mem) = Structs(s.mem) /\ AllSlots(r.mem) = AllSlots(s.mem)
        /\ \A a \in Addr : blockno(a) # 2 => r.mem[a] = s.mem[a]
        /\ \A f \in Owners(s.mem) : DataSlots(r.mem, f) = DataSlots(s.mem, f)
    BY <2>1, <2>2, Taken
  <2>4. \A a \in Pointers(s.mem) : r.mem[a] = s.mem[a]
    BY <2>2, <2>3, AllSlotsIn DEF Pointers
  <2>5. \A f \in Structs(s.mem) : r.mem[f] = s.mem[f]
    BY <2>2, <2>3, StructsApart, OwnersIn, DataBlocks
  <2>6. r.mem[SizeAt(Root)] = s.mem[SizeAt(Root)] BY <2>3, RootPlaces
  <2>7. Good(r.disk) BY <2>3, OlderIsGood
  <2>8. Ok(r) BY <1>0, <2>1, <2>3, <2>7 DEF Ok
  <2>9. Carry(s, r) BY <2>3, <2>4, <2>5, <2>6, <2>8 DEF Carry
  <2> QED BY <2>1, <2>3, <2>9
<1> QED BY <1>1, <1>2

CanLink(s, f, a, r) ==
    /\ Ok(s) /\ s.err = "ok" /\ f \in Owners(s.mem) /\ a \in SlotsOf(s.mem, f)
    /\ s.mem[a] = 0 /\ r = Link(s, a)
    /\ r.err = "ok" /\ (a = IndirectAt(f) \/ f = Root) => IsClear(r.mem, r.at)
    /\ f = Root => \A i \in Index : HasSlot(s.mem, Root, i) /\ SlotAt(s.mem, Root, i) = a
                                    => i < s.mem[SizeAt(Root)]

LEMMA LinkOk ==
    ASSUME NEW s, NEW f, NEW a, NEW r, CanLink(s, f, a, r)
    PROVE  /\ Carry(s, r)
           /\ r.err = "ok" =>
                /\ r.mem[a] = r.at /\ a \in SlotsOf(r.mem, f) /\ r.at # 0
                /\ a # IndirectAt(f) => r.mem[IndirectAt(f)] = s.mem[IndirectAt(f)]
<1> USE DEF CanLink
<1>0. IsState(s) /\ Grows(s, r) /\ IsState(r) BY LinkIs DEF Ok, Grows
<1> DEFINE n == AllocBlock(s)
<1>1. /\ Carry(s, n)
      /\ n.err = "ok" =>
           /\ Fresh(n.mem, n.disk, n.at)
           /\ Structs(n.mem) = Structs(s.mem) /\ AllSlots(n.mem) = AllSlots(s.mem)
           /\ \A x \in Addr : blockno(x) # 2 => n.mem[x] = s.mem[x]
           /\ \A g \in Owners(s.mem) : DataSlots(n.mem, g) = DataSlots(s.mem, g)
  BY AllocOk
<1>2. \/ n.err # "ok" /\ r = n
      \/ /\ n.err = "ok"
         /\ r.mem = [n.mem EXCEPT ![a] = n.at]
         /\ r.disk = MixAt(r.mem, n.disk, n.at)
         /\ r.seen = n.seen \cup {r.disk}
         /\ r.err = "ok" /\ r.at = n.at
  BY <1>0, LinkIs
<1> HIDE DEF n
<1>3. CASE n.err # "ok" BY <1>1, <1>2, <1>3
<1>4. CASE n.err = "ok"
  <2>1. /\ r.mem = [n.mem EXCEPT ![a] = n.at]
        /\ r.disk = MixAt(r.mem, n.disk, n.at)
        /\ r.seen = n.seen \cup {r.disk}
        /\ r.err = "ok" /\ r.at = n.at
    BY <1>2, <1>4
  <2>2. Good(n.mem) /\ Older(n.disk, n.mem) /\ (\A d \in n.seen : Good(d))
        /\ Good(s.mem) /\ Tree(s.mem) /\ Tree(n.mem)
    BY <1>1, GoodTree DEF Carry, Ok
  <2>3. f \in Owners(n.mem) /\ a \in SlotsOf(n.mem, f)
    BY <1>1, <1>4, SlotsAre DEF Owners
  <2>4. a \in AllSlots(s.mem) BY SlotsIn
  <2>5. \A x \in AllSlots(s.mem) : x \in Addr /\ blockno(x) # 2 /\ n.mem[x] = s.mem[x]
    BY <1>1, <1>4, <2>2, AllSlotsIn
  <2>6. n.mem[a] = 0 BY <2>4, <2>5
  <2>7. a = IndirectAt(f) \/ f = Root => IsClear(r.mem, n.at) BY <2>1
  <2>8. f = Root => \A i \in Index : HasSlot(n.mem, Root, i) /\ SlotAt(n.mem, Root, i) = a
                                       => i < n.mem[SizeAt(Root)]
    <3>1. n.mem[IndirectAt(Root)] = s.mem[IndirectAt(Root)] BY <2>5, RootOwns, SlotsIn
    <3>2. n.mem[SizeAt(Root)] = s.mem[SizeAt(Root)] BY <1>1 DEF Carry
    <3> QED BY <3>1, <3>2 DEF HasSlot, SlotAt
  <2>9. /\ Good(r.mem) /\ Older(r.disk, r.mem)
        /\ (Visible(n.disk, n.mem) => Visible(r.disk, r.mem))
        /\ r.mem[a] = n.at /\ a \in Addr /\ \A x \in Addr \ {a} : r.mem[x] = n.mem[x]
        /\ Structs(n.mem) \subseteq Structs(r.mem) /\ a \in SlotsOf(r.mem, f)
        /\ AllSlots(n.mem) \subseteq AllSlots(r.mem)
        /\ \A g \in Structs(r.mem) \ Structs(n.mem) : r.mem[g] = 0
        /\ \A g \in Structs(n.mem) : r.mem[g] = n.mem[g]
    <3>1. PICK m, d, b, w, e : m = n.mem /\ d = n.disk /\ b = n.at /\ w = r.mem /\ e = r.disk
      OBVIOUS
    <3>2. m \in Image /\ d \in Image /\ b \in Nat \ {0} /\ a \in Addr
      BY <1>1, <1>4, <2>2, <2>4, <2>5, <3>1, FreshApart DEF Good, Older, Blocks
    <3>4. w \in Image /\ w[a] = b /\ \A x \in Addr \ {a} : w[x] = m[x]
      BY <2>1, <3>1, <3>2 DEF Image
    <3>5. e \in Image /\ \A x \in Addr : e[x] = IF blockno(x) = b THEN w[x] ELSE d[x]
      <4>1. MixAt(w, d, b) \in Image
            /\ \A x \in Addr : MixAt(w, d, b)[x] = IF blockno(x) = b THEN w[x] ELSE d[x]
        BY <3>2, <3>4, MixOne
      <4>2. e = MixAt(w, d, b) BY <2>1, <3>1
      <4> QED BY <4>1, <4>2
    <3>6. NewBlock(m, d, b, f, a, w, e)
      BY <1>1, <1>4, <2>2, <2>3, <2>6, <2>7, <2>8, <3>1, <3>4, <3>5 DEF NewBlock
    <3>3. /\ Good(w) /\ Older(e, w) /\ (Visible(d, m) => Visible(e, w))
          /\ Structs(m) \subseteq Structs(w) /\ a \in SlotsOf(w, f)
          /\ AllSlots(m) \subseteq AllSlots(w)
          /\ \A g \in Structs(w) \ Structs(m) : w[g] = 0
          /\ \A g \in Structs(m) : w[g] = m[g]
      BY <3>6, Linked
    <3> QED BY <3>1, <3>2, <3>3, <3>4
  <2>10. \A x \in Pointers(n.mem) : r.mem[x] = n.mem[x]
    BY <2>2, <2>6, <2>9, AllSlotsIn DEF Pointers
  <2>11. r.mem[SizeAt(Root)] = n.mem[SizeAt(Root)]
    <3> SizeAt(Root) # a BY <2>2, <2>4, NoSlot, RootOwns
    <3> QED BY <2>9, RootPlaces
  <2>12. Ok(r) BY <1>0, <2>1, <2>2, <2>9, OlderIsGood DEF Ok
  <2>13. Carry(n, r) BY <2>9, <2>10, <2>11, <2>12 DEF Carry
  <2>14. Carry(s, r) BY <1>1, <2>13, CarryOn
  <2>15. n.at # 0 BY <1>1, <1>4, DataBlocks DEF Fresh
  <2>16. a # IndirectAt(f) => r.mem[IndirectAt(f)] = s.mem[IndirectAt(f)]
    <3>1. IndirectAt(f) \in AllSlots(s.mem) BY SlotsIn
    <3>2. IndirectAt(f) \in Addr BY <2>5, <3>1
    <3> QED BY <2>5, <2>9, <3>1, <3>2
  <2> QED BY <2>1, <2>9, <2>14, <2>15, <2>16
<1> QED BY <1>3, <1>4

-----------------------------------------------------------------------------
(* file_block_walk() and file_get_block(). *)

LEMMA WalkIs ==
    ASSUME NEW s, IsState(s), NEW f, NEW n, NEW r, r = FileBlockWalk(s, f, n)
    PROVE  /\ Grows(s, r)
           /\ \/ n >= NDIRECT + NINDIRECT /\ r = Fail(s, "INVAL")
              \/ ~(n >= NDIRECT + NINDIRECT) /\ HasSlot(s.mem, f, n)
                 /\ r = [s EXCEPT !.at = SlotAt(s.mem, f, n)]
              \/ /\ ~(n >= NDIRECT + NINDIRECT) /\ ~HasSlot(s.mem, f, n)
                 /\ \E l : /\ l = Link(s, IndirectAt(f)) /\ Grows(l, r)
                           /\ r.mem = l.mem /\ r.disk = l.disk /\ r.seen = l.seen /\ r.err = l.err
                           /\ l.err = "ok" => /\ r.at = SlotAt(l.mem, f, n)
                                              /\ IsClear(l.mem, l.at) \/ "dirty_meta" \in r.unsafe
<1>1. CASE n >= NDIRECT + NINDIRECT BY <1>1, FailIs DEF FileBlockWalk
<1>2. CASE ~(n >= NDIRECT + NINDIRECT) /\ HasSlot(s.mem, f, n)
  BY <1>2, AtIs DEF FileBlockWalk
<1>3. CASE ~(n >= NDIRECT + NINDIRECT) /\ ~HasSlot(s.mem, f, n)
  <2>1. PICK l : l = Link(s, IndirectAt(f)) OBVIOUS
  <2>2. Grows(s, l) /\ IsState(l) BY <2>1, LinkIs DEF Grows
  <2>3. CASE l.err # "ok"
    <3>1. r = l BY <1>3, <2>1, <2>3 DEF FileBlockWalk, Then
    <3> QED BY <1>3, <2>1, <2>2, <2>3, <3>1, GrowsNot
  <2>4. CASE l.err = "ok"
    <3> DEFINE c == ~IsClear(l.mem, l.at)
    <3>1. PICK t : t = [l EXCEPT !.at = SlotAt(l.mem, f, n)] OBVIOUS
    <3>2. r = Mark(t, "dirty_meta", c) BY <1>3, <2>1, <2>4, <3>1 DEF FileBlockWalk, Then
    <3>3. c \in BOOLEAN BY DEF IsClear
    <3>4. /\ Grows(l, t) /\ t.at = SlotAt(l.mem, f, n) /\ t.mem = l.mem /\ t.disk = l.disk
          /\ t.seen = l.seen /\ t.err = l.err /\ IsState(t)
      BY <2>2, <3>1, AtIs DEF Grows
    <3>5. c <=> ~IsClear(l.mem, l.at) OBVIOUS
    <3> HIDE DEF c
    <3>6. /\ Grows(t, r) /\ r.mem = t.mem /\ r.disk = t.disk /\ r.seen = t.seen
          /\ r.err = t.err /\ r.at = t.at /\ (c => "dirty_meta" \in r.unsafe)
      BY <3>2, <3>3, <3>4, MarkIs
    <3>7. Grows(l, r) /\ Grows(s, r) BY <2>2, <3>4, <3>6, GrowsOn
    <3> QED BY <1>3, <2>1, <3>4, <3>5, <3>6, <3>7
  <2> QED BY <2>3, <2>4
<1> QED BY <1>1, <1>2, <1>3

LEMMA WalkOk ==
    ASSUME Careful, NEW s, Ok(s), s.err = "ok", NEW f \in Owners(s.mem), NEW n \in Nat,
           f = Root => n < s.mem[SizeAt(Root)],
           NEW r, r = FileBlockWalk(s, f, n), r.unsafe \subseteq Misuse
    PROVE  /\ Carry(s, r)
           /\ r.err = "ok" => HasSlot(r.mem, f, n) /\ r.at = SlotAt(r.mem, f, n)
<1>0. IsState(s) /\ Grows(s, r) /\ IsState(r) /\ Carry(s, s) /\ Tree(s.mem)
  BY WalkIs, CarryNot, GoodTree DEF Ok, Grows
<1>1. CASE r = Fail(s, "INVAL")
  <2>1. r.mem = s.mem /\ r.disk = s.disk /\ r.seen = s.seen /\ r.err = "INVAL"
    BY <1>0, <1>1, FailIs
  <2> QED BY <1>0, <2>1, CarrySame
<1>2. CASE HasSlot(s.mem, f, n) /\ r = [s EXCEPT !.at = SlotAt(s.mem, f, n)]
  <2>1. r.mem = s.mem /\ r.disk = s.disk /\ r.seen = s.seen /\ r.at = SlotAt(s.mem, f, n)
    BY <1>0, <1>2, AtIs
  <2> QED BY <1>0, <1>2, <2>1, CarrySame
<1>3. CASE /\ ~(n >= NDIRECT + NINDIRECT) /\ ~HasSlot(s.mem, f, n)
           /\ \E l : /\ l = Link(s, IndirectAt(f)) /\ Grows(l, r)
                     /\ r.mem = l.mem /\ r.disk = l.disk /\ r.seen = l.seen /\ r.err = l.err
                     /\ l.err = "ok" => /\ r.at = SlotAt(l.mem, f, n)
                                        /\ IsClear(l.mem, l.at) \/ "dirty_meta" \in r.unsafe
  <2>1. PICK l : /\ l = Link(s, IndirectAt(f)) /\ Grows(l, r)
                 /\ r.mem = l.mem /\ r.disk = l.disk /\ r.seen = l.seen /\ r.err = l.err
                 /\ l.err = "ok" => /\ r.at = SlotAt(l.mem, f, n)
                                    /\ IsClear(l.mem, l.at) \/ "dirty_meta" \in r.unsafe
    BY <1>3
  <2>2. ~(n < NDIRECT) /\ n < NDIRECT + NINDIRECT /\ s.mem[IndirectAt(f)] = 0
    BY <1>3, Sizes DEF HasSlot
  <2>3. l.err = "ok" => IsClear(l.mem, l.at) BY <2>1 DEF Careful
  <2>4. f = Root => \A i \in Index : HasSlot(s.mem, Root, i) /\ SlotAt(s.mem, Root, i) = IndirectAt(f)
                                      => i < s.mem[SizeAt(Root)]
    BY <1>0, SlotAtIn, IndirectSlot, RootOwns, Sizes DEF Index
  <2>5. IndirectAt(f) \in SlotsOf(s.mem, f) BY SlotsAre
  <2>6. /\ Carry(s, l)
        /\ l.err = "ok" => l.mem[IndirectAt(f)] = l.at /\ l.at # 0
    <3>1. CanLink(s, f, IndirectAt(f), l) BY <2>1, <2>2, <2>3, <2>4, <2>5 DEF CanLink
    <3> QED BY <3>1, LinkOk
  <2>7. l.err = "ok" => HasSlot(l.mem, f, n) BY <2>2, <2>6 DEF HasSlot
  <2>8. Carry(s, r) BY <1>0, <2>1, <2>6, CarrySame
  <2> QED BY <2>1, <2>7, <2>8
<1> QED BY <1>0, <1>1, <1>2, <1>3, WalkIs

LEMMA GetIs ==
    ASSUME NEW s, IsState(s), NEW f, NEW n, NEW r, r = FileGetBlock(s, f, n)
    PROVE  /\ Grows(s, r)
           /\ s.err = "ok" =>
              \E w : /\ w = FileBlockWalk(s, f, n) /\ Grows(s, w) /\ Grows(w, r)
                     /\ \/ w.err # "ok" /\ r = w
                        \/ w.err = "ok" /\ w.mem[w.at] # 0 /\ r = [w EXCEPT !.at = w.mem[w.at]]
                        \/ /\ w.err = "ok" /\ w.mem[w.at] = 0
                           /\ \E l : /\ l = Link(w, w.at) /\ Grows(l, r) /\ r.mem = l.mem
                                     /\ r.disk = l.disk /\ r.seen = l.seen /\ r.err = l.err
                                     /\ r.at = l.at
                                     /\ l.err = "ok" /\ f = Root =>
                                          IsClear(l.mem, l.at) \/ "dirty_meta" \in r.unsafe
<1>1. PICK w : w = FileBlockWalk(s, f, n) OBVIOUS
<1>2. Grows(s, w) /\ IsState(w) BY <1>1, WalkIs DEF Grows
<1>3. CASE w.err # "ok"
  <2>1. r = w BY <1>1, <1>3 DEF FileGetBlock, Then
  <2> QED BY <1>1, <1>2, <1>3, <2>1, GrowsNot
<1>4. CASE w.err = "ok" /\ w.mem[w.at] # 0
  <2>1. r = [w EXCEPT !.at = w.mem[w.at]] BY <1>1, <1>4 DEF FileGetBlock, Then
  <2>2. Grows(w, r) /\ Grows(s, r) BY <1>2, <2>1, AtIs, GrowsOn
  <2> QED BY <1>1, <1>2, <1>4, <2>1, <2>2
<1>5. CASE w.err = "ok" /\ w.mem[w.at] = 0
  <2>1. PICK l : l = Link(w, w.at) OBVIOUS
  <2>2. Grows(w, l) /\ IsState(l) BY <1>2, <2>1, LinkIs DEF Grows
  <2>3. CASE l.err # "ok"
    <3>1. r = l BY <1>1, <1>5, <2>1, <2>3 DEF FileGetBlock, Then
    <3>2. Grows(s, r) /\ Grows(w, r) /\ Grows(l, r) BY <1>2, <2>2, <3>1, GrowsOn, GrowsNot
    <3> QED BY <1>1, <1>2, <1>5, <2>1, <2>3, <3>1, <3>2
  <2>4. CASE l.err = "ok"
    <3> DEFINE c == f = Root /\ ~IsClear(l.mem, l.at)
    <3>1. r = Mark(l, "dirty_meta", c)
      BY <1>1, <1>5, <2>1, <2>4 DEF FileGetBlock, Then
    <3>2. c \in BOOLEAN /\ (c <=> f = Root /\ ~IsClear(l.mem, l.at)) OBVIOUS
    <3> HIDE DEF c
    <3>3. /\ Grows(l, r) /\ r.mem = l.mem /\ r.disk = l.disk /\ r.seen = l.seen
          /\ r.err = l.err /\ r.at = l.at /\ (c => "dirty_meta" \in r.unsafe)
      BY <2>2, <3>1, <3>2, MarkIs
    <3>4. Grows(s, r) /\ Grows(w, r) BY <1>2, <2>2, <3>3, GrowsOn
    <3> QED BY <1>1, <1>2, <1>5, <2>1, <3>2, <3>3, <3>4
  <2> QED BY <2>3, <2>4
<1> QED BY <1>3, <1>4, <1>5

LEMMA GetOk ==
    ASSUME Careful, NEW s, Ok(s), s.err = "ok", NEW f \in Owners(s.mem), NEW n \in Nat,
           f = Root => n < s.mem[SizeAt(Root)],
           NEW r, r = FileGetBlock(s, f, n), r.unsafe \subseteq Misuse
    PROVE  /\ Carry(s, r)
           /\ r.err = "ok" => r.at = Pointer(r.mem, f, n) /\ r.at # 0 /\ f \in Owners(r.mem)
<1>0. IsState(s) /\ Grows(s, r) /\ IsState(r) BY GetIs DEF Ok, Grows
<1>1. PICK w : /\ w = FileBlockWalk(s, f, n) /\ Grows(s, w) /\ Grows(w, r)
               /\ \/ w.err # "ok" /\ r = w
                  \/ w.err = "ok" /\ w.mem[w.at] # 0 /\ r = [w EXCEPT !.at = w.mem[w.at]]
                  \/ /\ w.err = "ok" /\ w.mem[w.at] = 0
                     /\ \E l : /\ l = Link(w, w.at) /\ Grows(l, r) /\ r.mem = l.mem
                               /\ r.disk = l.disk /\ r.seen = l.seen /\ r.err = l.err
                               /\ r.at = l.at
                               /\ l.err = "ok" /\ f = Root =>
                                    IsClear(l.mem, l.at) \/ "dirty_meta" \in r.unsafe
  BY <1>0, GetIs
<1>2. w.unsafe \subseteq Misuse BY <1>1 DEF Grows
<1>3. /\ Carry(s, w)
      /\ w.err = "ok" => HasSlot(w.mem, f, n) /\ w.at = SlotAt(w.mem, f, n)
  BY <1>1, <1>2, WalkOk
<1>4. Ok(w) /\ IsState(w) /\ Tree(w.mem) /\ f \in Owners(w.mem)
  BY <1>3, GoodTree DEF Carry, Ok, Owners
<1>5. CASE w.err # "ok" /\ r = w BY <1>3, <1>5
<1>6. CASE w.err = "ok" /\ w.mem[w.at] # 0 /\ r = [w EXCEPT !.at = w.mem[w.at]]
  <2>1. r.mem = w.mem /\ r.disk = w.disk /\ r.seen = w.seen /\ r.at = w.mem[w.at]
    BY <1>4, <1>6, AtIs
  <2>2. Carry(s, r) BY <1>0, <1>3, <2>1, CarrySame
  <2>3. r.at = Pointer(r.mem, f, n) BY <1>3, <1>6, <2>1 DEF Pointer
  <2> QED BY <1>4, <1>6, <2>1, <2>2, <2>3
<1>7. ASSUME w.err = "ok", w.mem[w.at] = 0,
             NEW l, l = Link(w, w.at), Grows(l, r), r.mem = l.mem, r.disk = l.disk,
             r.seen = l.seen, r.err = l.err, r.at = l.at,
             l.err = "ok" /\ f = Root => IsClear(l.mem, l.at) \/ "dirty_meta" \in r.unsafe
      PROVE  Carry(s, r) /\ (r.err = "ok" => /\ r.at = Pointer(r.mem, f, n) /\ r.at # 0
                                             /\ f \in Owners(r.mem))
  <2>1. HasSlot(w.mem, f, n) /\ w.at = SlotAt(w.mem, f, n) BY <1>3, <1>7
  <2>2. w.at \in DataSlots(w.mem, f) /\ n \in Index BY <1>4, <2>1, SlotAtIn
  <2>3. w.at \in SlotsOf(w.mem, f) /\ w.at # IndirectAt(f) BY <1>4, <2>2, SlotsAre, IndirectSlot
  <2>4. f = Root => \A i \in Index : HasSlot(w.mem, Root, i) /\ SlotAt(w.mem, Root, i) = w.at
                                      => i < w.mem[SizeAt(Root)]
    <3> SUFFICES ASSUME f = Root, NEW i \in Index, HasSlot(w.mem, Root, i),
                        SlotAt(w.mem, Root, i) = w.at
                 PROVE  i < w.mem[SizeAt(Root)]
      OBVIOUS
    <3>1. i \in Nat BY Sizes DEF Index
    <3>2. i = n BY <1>4, <2>1, <3>1, SlotAtOnce
    <3> QED BY <1>3, <3>2 DEF Carry
  <2>5. l.err = "ok" /\ (w.at = IndirectAt(f) \/ f = Root) => IsClear(l.mem, l.at)
    BY <1>7, <2>3 DEF Careful
  <2>6. /\ Carry(w, l)
        /\ l.err = "ok" => l.mem[w.at] = l.at /\ l.at # 0
                           /\ l.mem[IndirectAt(f)] = w.mem[IndirectAt(f)]
    <3>1. CanLink(w, f, w.at, l) BY <1>4, <1>7, <2>3, <2>4, <2>5 DEF CanLink
    <3> QED BY <2>3, <3>1, LinkOk
  <2>7. Carry(s, r) BY <1>0, <1>3, <1>7, <2>6, CarryOn, CarrySame
  <2>8. r.err = "ok" => HasSlot(r.mem, f, n) /\ SlotAt(r.mem, f, n) = w.at
    BY <1>7, <2>1, <2>6 DEF HasSlot, SlotAt
  <2>9. r.err = "ok" => r.at = Pointer(r.mem, f, n) BY <1>7, <2>6, <2>8 DEF Pointer
  <2>10. f \in Owners(r.mem) BY <2>7 DEF Carry, Owners
  <2> QED BY <1>7, <2>6, <2>7, <2>9, <2>10
<1> QED BY <1>1, <1>5, <1>6, <1>7

(* What goes wrong is never that there is no such file. *)
Errors == {"ok", "INVAL", "NO_DISK"}

LEMMA LinkErr ==
    ASSUME NEW s, IsState(s), s.err = "ok", NEW a
    PROVE  Link(s, a).err \in Errors
<1>1. CASE AllocBlock(s).err # "ok" /\ Link(s, a) = AllocBlock(s)
  <2>1. AllocBlock(s) = Fail(s, "NO_DISK") BY <1>1, AllocGrows
  <2>2. AllocBlock(s).err = "NO_DISK" BY <2>1, FailIs
  <2> QED BY <1>1, <2>2 DEF Errors
<1>2. CASE Link(s, a).err = "ok" BY <1>2 DEF Errors
<1> QED BY <1>1, <1>2, LinkIs

LEMMA GetErr ==
    ASSUME NEW s, IsState(s), s.err = "ok", NEW f, NEW n
    PROVE  FileGetBlock(s, f, n).err \in Errors
<1>1. PICK w, r : w = FileBlockWalk(s, f, n) /\ r = FileGetBlock(s, f, n) OBVIOUS
<1>2. w.err \in Errors /\ IsState(w)
  <2>1. Grows(s, w) /\ IsState(w) BY <1>1, WalkIs DEF Grows
  <2>2. CASE w = Fail(s, "INVAL")
    <3>1. w.err = "INVAL" BY <2>2, FailIs
    <3> QED BY <2>1, <3>1 DEF Errors
  <2>3. CASE w = [s EXCEPT !.at = SlotAt(s.mem, f, n)]
    <3>1. w.err = "ok" BY <2>3, AtIs
    <3> QED BY <2>1, <3>1 DEF Errors
  <2>4. CASE w.err = Link(s, IndirectAt(f)).err BY <2>1, <2>4, LinkErr
  <2> QED BY <1>1, <2>2, <2>3, <2>4, WalkIs
<1>3. CASE r = w BY <1>1, <1>2, <1>3
<1>4. CASE r = [w EXCEPT !.at = w.mem[w.at]]
  <2>1. r.err = w.err BY <1>2, <1>4, AtIs
  <2> QED BY <1>1, <1>2, <2>1
<1>5. CASE w.err = "ok" /\ r.err = Link(w, w.at).err BY <1>1, <1>2, <1>5, LinkErr
<1> QED BY <1>1, <1>3, <1>4, <1>5, GetIs

-----------------------------------------------------------------------------
(* The loop over the blocks of the directory.                              *)

LookStep(t, i, name) == Then(t, LAMBDA u : DirLook(u, i, name))
Scanning(scan, s, n, name) ==
    scan = [i \in 0..n |-> IF i = 0 THEN [s EXCEPT !.at = 0, !.err = "ok"]
                           ELSE LookStep(scan[i - 1], i - 1, name)]

LEMMA ScanExists ==
    ASSUME NEW s, NEW name, NEW n \in Nat
    PROVE  \E scan : Scanning(scan, s, n, name)
<1> DEFINE start == [s EXCEPT !.at = 0, !.err = "ok"]
           S == {k \in Nat : \E scan : Scanning(scan, s, k, name)}
<1>1. 0 \in S
  <2> DEFINE h == [i \in 0..0 |-> start]
  <2>1. h = [i \in 0..0 |-> IF i = 0 THEN start ELSE LookStep(h[i - 1], i - 1, name)] OBVIOUS
  <2>2. Scanning(h, s, 0, name) BY <2>1 DEF Scanning
  <2> QED BY <2>2
<1>2. ASSUME NEW k \in Nat, k \in S PROVE k + 1 \in S
  <2>1. PICK g : Scanning(g, s, k, name) BY <1>2
  <2> DEFINE F(i) == IF i = k + 1 THEN LookStep(g[k], k, name) ELSE g[i]
             h == [i \in 0..k + 1 |-> F(i)]
             G(i) == IF i = 0 THEN start ELSE LookStep(h[i - 1], i - 1, name)
  <2>2. ASSUME NEW i \in 0..k + 1 PROVE F(i) = G(i)
    <3>1. CASE i = 0
      <4>1. F(i) = g[i] /\ i \in 0..k BY <3>1
      <4>2. g[i] = start BY <2>1, <3>1, <4>1 DEF Scanning
      <4> QED BY <3>1, <4>1, <4>2
    <3>2. CASE i # 0 /\ i # k + 1
      <4>1. i \in 0..k /\ i - 1 \in 0..k + 1 /\ i - 1 # k + 1 BY <3>2
      <4>2. F(i) = g[i] /\ h[i - 1] = g[i - 1] BY <3>2, <4>1
      <4>3. g[i] = LookStep(g[i - 1], i - 1, name) BY <2>1, <3>2, <4>1 DEF Scanning
      <4> QED BY <3>2, <4>2, <4>3
    <3>3. CASE i = k + 1
      <4>1. i - 1 = k /\ k \in 0..k + 1 /\ k # k + 1 /\ i # 0 BY <3>3
      <4>2. F(i) = LookStep(g[k], k, name) /\ h[k] = g[k] BY <3>3, <4>1
      <4> QED BY <4>1, <4>2
    <3> QED BY <3>1, <3>2, <3>3
  <2>3. h = [i \in 0..k + 1 |-> G(i)] BY <2>2
  <2>4. Scanning(h, s, k + 1, name) BY <2>3 DEF Scanning
  <2> QED BY <2>4
<1>3. Nat \subseteq S
  <2> HIDE DEF S
  <2> QED BY <1>1, <1>2, Induction
<1> QED BY <1>3

LEMMA ScanIs ==
    ASSUME NEW s, IsState(s), NEW name
    PROVE  \E n, scan : /\ n = s.mem[SizeAt(Root)] /\ n \in Nat
                        /\ Scanning(scan, s, n, name) /\ DirScan(s, name) = scan[n]
<1>1. PICK n : n = s.mem[SizeAt(Root)] OBVIOUS
<1>2. n \in Nat BY <1>1, RootPlaces DEF IsState, Image
<1>3. \E scan : Scanning(scan, s, n, name) BY <1>2, ScanExists
<1> DEFINE c == CHOOSE scan : Scanning(scan, s, n, name)
<1>4. Scanning(c, s, n, name) BY <1>3
<1>5. DirScan(s, name) = c[n] BY <1>1 DEF DirScan, Scanning, LookStep
<1> QED BY <1>1, <1>2, <1>4, <1>5

LEMMA LookIs ==
    ASSUME NEW s, IsState(s), NEW i, NEW name, NEW r, r = DirLook(s, i, name)
    PROVE  /\ Grows(s, r)
           /\ \/ s.at # 0 /\ r = s
              \/ /\ s.at = 0
                 /\ \E g : /\ g = FileGetBlock(s, Root, i) /\ Grows(s, g) /\ Grows(g, r)
                           /\ r.mem = g.mem /\ r.disk = g.disk /\ r.seen = g.seen /\ r.err = g.err
                           /\ g.err = "ok" =>
                                r.at = IF Found(g, name) = {} THEN 0 ELSE Min(Found(g, name))
<1>1. CASE s.at # 0
  <2>1. r = s BY <1>1 DEF DirLook
  <2> QED BY <1>1, <2>1, GrowsNot
<1>2. CASE s.at = 0
  <2>1. PICK g : g = FileGetBlock(s, Root, i) OBVIOUS
  <2>2. Grows(s, g) /\ IsState(g) BY <2>1, GetIs DEF Grows
  <2>3. CASE g.err # "ok"
    <3>1. r = g BY <1>2, <2>1, <2>3 DEF DirLook, Then
    <3> QED BY <1>2, <2>1, <2>2, <2>3, <3>1, GrowsNot
  <2>4. CASE g.err = "ok"
    <3>1. PICK x : x = IF Found(g, name) = {} THEN 0 ELSE Min(Found(g, name)) OBVIOUS
    <3>2. r = [g EXCEPT !.at = x] BY <1>2, <2>1, <2>4, <3>1 DEF DirLook, Then
    <3>3. /\ Grows(g, r) /\ r.at = x /\ r.mem = g.mem /\ r.disk = g.disk /\ r.seen = g.seen
          /\ r.err = g.err
      BY <2>2, <3>2, AtIs
    <3>4. Grows(s, r) BY <2>2, <3>3, GrowsOn
    <3> QED BY <1>2, <2>1, <2>2, <3>1, <3>3, <3>4
  <2> QED BY <2>3, <2>4
<1> QED BY <1>1, <1>2

LEMMA LookStepIs ==
    ASSUME NEW s, IsState(s), NEW i, NEW name
    PROVE  Grows(s, LookStep(s, i, name))
<1>1. CASE s.err = "ok"
  <2>1. LookStep(s, i, name) = DirLook(s, i, name) BY <1>1 DEF LookStep, Then
  <2> QED BY <2>1, LookIs
<1>2. CASE s.err # "ok"
  <2>1. LookStep(s, i, name) = s BY <1>2 DEF LookStep, Then
  <2> QED BY <2>1, GrowsNot
<1> QED BY <1>1, <1>2

LEMMA ScanGrows ==
    ASSUME NEW s, IsState(s), NEW name, NEW n \in Nat, NEW scan, Scanning(scan, s, n, name)
    PROVE  \A k \in 0..n : Grows(s, scan[k])
<1> DEFINE S == {k \in Nat : k <= n => Grows(s, scan[k])}
<1>1. 0 \in S
  <2>1. scan[0] = [s EXCEPT !.at = 0, !.err = "ok"] BY DEF Scanning
  <2> QED BY <2>1 DEF Grows, IsState
<1>2. ASSUME NEW k \in Nat, k \in S PROVE k + 1 \in S
  <2> SUFFICES ASSUME k + 1 <= n PROVE Grows(s, scan[k + 1]) OBVIOUS
  <2>1. Grows(s, scan[k]) /\ IsState(scan[k]) BY <1>2 DEF Grows
  <2>2. scan[k + 1] = LookStep(scan[k], k, name)
    <3>1. k + 1 \in 0..n /\ k + 1 # 0 /\ (k + 1) - 1 = k OBVIOUS
    <3> QED BY <3>1 DEF Scanning
  <2>3. Grows(scan[k], scan[k + 1]) BY <2>1, <2>2, LookStepIs
  <2> QED BY <2>1, <2>3, GrowsOn
<1>3. Nat \subseteq S
  <2> HIDE DEF S
  <2> QED BY <1>1, <1>2, Induction
<1> QED BY <1>3

LEMMA DirScanIs == ASSUME NEW s, IsState(s), NEW name PROVE Grows(s, DirScan(s, name))
<1>1. PICK n, scan : /\ n \in Nat /\ Scanning(scan, s, n, name) /\ DirScan(s, name) = scan[n]
  BY ScanIs
<1>2. n \in 0..n BY <1>1
<1> QED BY <1>1, <1>2, ScanGrows

(* After i blocks of the directory: the structure found has the name, or   *)
(* no structure in these blocks has.                                       *)
Scanned(s, t, i, name) ==
    /\ Carry(s, t) /\ t.err \in Errors
    /\ t.err = "ok" /\ t.at # 0 => t.at \in Structs(t.mem) /\ t.mem[t.at] = name
    /\ t.err = "ok" /\ t.at = 0 =>
         \A j \in 0..i - 1 : /\ Pointer(t.mem, Root, j) # 0
                             /\ \A f \in FilesIn(Pointer(t.mem, Root, j)) : t.mem[f] # name

LEMMA LookOk ==
    ASSUME Careful, NEW s, NEW t, NEW i \in Nat, NEW name, Scanned(s, t, i, name),
           i < s.mem[SizeAt(Root)], NEW r, r = LookStep(t, i, name), r.unsafe \subseteq Misuse
    PROVE  Scanned(s, r, i + 1, name)
<1>1. Carry(s, t) /\ Ok(t) /\ IsState(t) BY DEF Scanned, Carry, Ok
<1>2. CASE t.err # "ok"
  <2>1. r = t BY <1>2 DEF LookStep, Then
  <2> QED BY <1>2, <2>1 DEF Scanned
<1>3. CASE t.err = "ok" /\ t.at # 0
  <2>1. r = t BY <1>3 DEF LookStep, Then, DirLook
  <2> QED BY <1>3, <2>1 DEF Scanned
<1>4. CASE t.err = "ok" /\ t.at = 0
  <2>1. r = DirLook(t, i, name) BY <1>4 DEF LookStep, Then
  <2>2. PICK g : /\ g = FileGetBlock(t, Root, i) /\ Grows(t, g) /\ Grows(g, r)
                 /\ r.mem = g.mem /\ r.disk = g.disk /\ r.seen = g.seen /\ r.err = g.err
                 /\ g.err = "ok" =>
                      r.at = IF Found(g, name) = {} THEN 0 ELSE Min(Found(g, name))
    BY <1>1, <1>4, <2>1, LookIs
  <2>3. i < t.mem[SizeAt(Root)] /\ g.unsafe \subseteq Misuse /\ IsState(r)
    BY <1>1, <2>2 DEF Carry, Grows
  <2>4. Carry(t, g) /\ (g.err = "ok" => g.at = Pointer(g.mem, Root, i) /\ g.at # 0)
    BY <1>1, <1>4, <2>2, <2>3, RootOwns, GetOk
  <2>5. Carry(s, r)
    <3>1. Carry(s, g) BY <1>1, <2>4, CarryOn
    <3> QED BY <2>2, <2>3, <3>1, CarrySame
  <2>8. r.err \in Errors BY <1>1, <1>4, <2>2, GetErr
  <2>6. CASE g.err # "ok" BY <2>2, <2>5, <2>6, <2>8 DEF Scanned
  <2>7. CASE g.err = "ok"
    <3>1. Tree(g.mem) BY <2>4, GoodTree DEF Carry, Ok
    <3>2. g.at \in DirBlks(g.mem)
      <4>1. i \in Index BY <2>4, <2>7, <3>1, RootOwns, PointerIn
      <4> QED BY <2>4, <2>7, <3>1, <4>1, RootPointers
    <3>3. FilesIn(g.at) \subseteq Structs(g.mem) BY <3>2 DEF Structs
    <3>4. Found(g, name) \subseteq Nat /\ 0 \notin Found(g, name)
          /\ Found(g, name) \subseteq Structs(g.mem)
      <4>1. \A f \in Structs(g.mem) : f \in Addr /\ f # 0 BY <3>1, StructsApart
      <4>2. Addr \subseteq Nat BY DEF Addr
      <4> QED BY <3>3, <4>1, <4>2 DEF Found
    <3>5. CASE Found(g, name) = {}
      <4>1. r.at = 0 BY <2>2, <2>7, <3>5
      <4>2. ASSUME NEW j \in 0..i
            PROVE  /\ Pointer(r.mem, Root, j) # 0
                   /\ \A f \in FilesIn(Pointer(r.mem, Root, j)) : r.mem[f] # name
        <5>1. CASE j = i
          <6>1. Pointer(g.mem, Root, j) = g.at /\ g.at # 0 BY <2>4, <2>7, <5>1
          <6>2. \A f \in FilesIn(g.at) : g.mem[f] # name BY <3>5 DEF Found
          <6> QED BY <2>2, <6>1, <6>2
        <5>2. CASE j # i
          <6>1. j \in 0..i - 1 /\ j \in Nat BY <5>2
          <6>2. Pointer(t.mem, Root, j) # 0
                /\ \A f \in FilesIn(Pointer(t.mem, Root, j)) : t.mem[f] # name
            BY <1>4, <6>1 DEF Scanned
          <6>3. Pointer(g.mem, Root, j) = Pointer(t.mem, Root, j)
            BY <1>1, <2>4, <6>1, <6>2, RootOwns, CarryPointer
          <6>4. Pointer(t.mem, Root, j) \in DirBlks(t.mem)
            <7>1. Tree(t.mem) BY <1>1, GoodTree DEF Ok
            <7>2. j \in Index BY <6>1, <6>2, <7>1, RootOwns, PointerIn
            <7> QED BY <6>2, <7>1, <7>2, RootPointers
          <6>5. FilesIn(Pointer(t.mem, Root, j)) \subseteq Structs(t.mem) BY <6>4 DEF Structs
          <6>6. \A f \in FilesIn(Pointer(t.mem, Root, j)) : g.mem[f] # name
            BY <2>4, <6>2, <6>5 DEF Carry
          <6> QED BY <2>2, <6>2, <6>3, <6>6
        <5> QED BY <5>1, <5>2
      <4>3. (i + 1) - 1 = i OBVIOUS
      <4> QED BY <2>5, <2>8, <4>1, <4>2, <4>3 DEF Scanned
    <3>6. CASE Found(g, name) # {}
      <4>1. r.at = Min(Found(g, name)) BY <2>2, <2>7, <3>6
      <4>2. Min(Found(g, name)) \in Found(g, name) BY <3>4, <3>6, MinIn
      <4>3. r.at \in Found(g, name) BY <4>1, <4>2
      <4>4. r.at # 0 /\ r.at \in Structs(r.mem) BY <2>2, <3>4, <4>3
      <4>5. r.mem[r.at] = name BY <2>2, <4>3 DEF Found
      <4> QED BY <2>5, <2>8, <4>4, <4>5 DEF Scanned
    <3> QED BY <3>5, <3>6
  <2> QED BY <2>6, <2>7
<1> QED BY <1>2, <1>3, <1>4

LEMMA ScanOk ==
    ASSUME Careful, NEW s, Ok(s), NEW name, NEW r, r = DirScan(s, name),
           r.unsafe \subseteq Misuse
    PROVE  /\ Carry(s, r) /\ r.err \in Errors
           /\ r.err = "ok" /\ r.at # 0 => r.at \in Structs(r.mem) /\ r.mem[r.at] = name
           /\ r.err = "ok" /\ r.at = 0 => \A f \in Structs(r.mem) : r.mem[f] # name
<1>0. IsState(s) BY DEF Ok
<1>1. PICK n, scan : /\ n = s.mem[SizeAt(Root)] /\ n \in Nat
                     /\ Scanning(scan, s, n, name) /\ DirScan(s, name) = scan[n]
  BY <1>0, ScanIs
<1>2. \A k \in 0..n : Grows(s, scan[k]) BY <1>0, <1>1, ScanGrows
<1> DEFINE S == {k \in Nat : k <= n /\ scan[k].unsafe \subseteq Misuse
                               => Scanned(s, scan[k], k, name)}
<1>3. 0 \in S
  <2>1. PICK t : t = scan[0] OBVIOUS
  <2>2. t = [s EXCEPT !.at = 0, !.err = "ok"] BY <1>1, <2>1 DEF Scanning
  <2>3. t.mem = s.mem /\ t.disk = s.disk /\ t.seen = s.seen /\ t.at = 0 /\ IsState(t) /\ t.err = "ok"
    BY <1>0, <2>2 DEF IsState
  <2>4. Carry(s, t) BY <2>3, CarryNot, CarrySame
  <2>5. Scanned(s, t, 0, name) BY <2>3, <2>4 DEF Scanned, Errors
  <2> QED BY <2>1, <2>5
<1>4. ASSUME NEW k \in Nat, k \in S PROVE k + 1 \in S
  <2> SUFFICES ASSUME k + 1 <= n, scan[k + 1].unsafe \subseteq Misuse
               PROVE  Scanned(s, scan[k + 1], k + 1, name)
    OBVIOUS
  <2>1. scan[k + 1] = LookStep(scan[k], k, name)
    <3>1. k + 1 \in 0..n /\ k + 1 # 0 /\ (k + 1) - 1 = k BY <1>1
    <3> QED BY <1>1, <3>1 DEF Scanning
  <2>2. k \in 0..n /\ k < s.mem[SizeAt(Root)] BY <1>1
  <2>3. IsState(scan[k]) BY <1>2, <2>2 DEF Grows
  <2>4. scan[k].unsafe \subseteq Misuse BY <2>1, <2>3, LookStepIs DEF Grows
  <2>5. Scanned(s, scan[k], k, name) BY <1>4, <2>2, <2>4
  <2> QED BY <2>1, <2>2, <2>5, LookOk
<1>5. Nat \subseteq S
  <2> HIDE DEF S
  <2> QED BY <1>3, <1>4, Induction
<1>6. Scanned(s, r, n, name)
  <2>1. n <= n /\ n \in S BY <1>1, <1>5
  <2> QED BY <1>1, <2>1
<1>7. ASSUME r.err = "ok", r.at = 0, NEW f \in Structs(r.mem) PROVE r.mem[f] # name
  <2>1. Carry(s, r) /\ Good(r.mem) /\ Tree(r.mem) BY <1>6, GoodTree DEF Scanned, Carry, Ok
  <2>2. PICK b \in DirBlks(r.mem) : f \in FilesIn(b) BY DEF Structs
  <2>3. PICK j \in Index : b = Pointer(r.mem, Root, j) /\ b # 0 BY <2>1, RootPointers
  <2>4. j < r.mem[SizeAt(Root)] BY <2>1, <2>3 DEF Good, InSize, Index
  <2>5. r.mem[SizeAt(Root)] = n BY <1>1, <2>1 DEF Carry
  <2>6. j \in 0..n - 1
    <3>1. j \in Nat BY Sizes DEF Index
    <3> QED BY <1>1, <2>4, <2>5, <3>1
  <2> QED BY <1>6, <1>7, <2>2, <2>3, <2>6 DEF Scanned
<1> QED BY <1>6, <1>7 DEF Scanned

-----------------------------------------------------------------------------
(* dir_lookup() and dir_alloc_file(). *)

LEMMA DirLookupIs ==
    ASSUME NEW s, IsState(s), NEW name, NEW r, r = DirLookup(s, name)
    PROVE  /\ Grows(s, r)
           /\ \E d : /\ d = DirScan(s, name) /\ Grows(d, r)
                     /\ r.mem = d.mem /\ r.disk = d.disk /\ r.seen = d.seen /\ r.at = d.at
                     /\ \/ d.err # "ok" /\ r = d
                        \/ d.err = "ok" /\ d.at # 0 /\ r = d
                        \/ d.err = "ok" /\ d.at = 0 /\ r.err = "NOT_FOUND"
<1>1. PICK d : d = DirScan(s, name) OBVIOUS
<1>2. Grows(s, d) /\ IsState(d) BY <1>1, DirScanIs DEF Grows
<1>3. CASE d.err = "ok" /\ d.at = 0
  <2>1. r = Fail(d, "NOT_FOUND") BY <1>1, <1>3 DEF DirLookup, Then
  <2>2. /\ Grows(d, r) /\ r.err = "NOT_FOUND" /\ r.mem = d.mem /\ r.disk = d.disk
        /\ r.seen = d.seen /\ r.at = d.at
    BY <1>2, <2>1, FailIs
  <2>3. Grows(s, r) BY <1>2, <2>2, GrowsOn
  <2> QED BY <1>1, <1>3, <2>2, <2>3
<1>4. CASE ~(d.err = "ok" /\ d.at = 0)
  <2>1. r = d BY <1>1, <1>4 DEF DirLookup, Then
  <2>2. Grows(d, r) BY <1>2, <2>1, GrowsNot
  <2> QED BY <1>1, <1>2, <1>4, <2>1, <2>2
<1> QED BY <1>3, <1>4

LEMMA DirLookupOk ==
    ASSUME Careful, NEW s, Ok(s), NEW name, NEW r, r = DirLookup(s, name),
           r.unsafe \subseteq Misuse
    PROVE  /\ Carry(s, r)
           /\ r.err = "ok" => r.at \in Structs(r.mem) /\ r.mem[r.at] = name
           /\ r.err = "NOT_FOUND" => \A f \in Structs(r.mem) : r.mem[f] # name
<1>1. IsState(s) BY DEF Ok
<1>2. PICK d : /\ d = DirScan(s, name) /\ Grows(d, r)
               /\ r.mem = d.mem /\ r.disk = d.disk /\ r.seen = d.seen /\ r.at = d.at
               /\ \/ d.err # "ok" /\ r = d
                  \/ d.err = "ok" /\ d.at # 0 /\ r = d
                  \/ d.err = "ok" /\ d.at = 0 /\ r.err = "NOT_FOUND"
  BY <1>1, DirLookupIs
<1>3. d.unsafe \subseteq Misuse /\ IsState(r) BY <1>2 DEF Grows
<1>4. /\ Carry(s, d) /\ d.err \in Errors
      /\ d.err = "ok" /\ d.at # 0 => d.at \in Structs(d.mem) /\ d.mem[d.at] = name
      /\ d.err = "ok" /\ d.at = 0 => \A f \in Structs(d.mem) : d.mem[f] # name
  BY <1>2, <1>3, ScanOk
<1>5. Carry(s, r) BY <1>2, <1>3, <1>4, CarrySame
<1> QED BY <1>2, <1>4, <1>5 DEF Errors

(* What requests do to the directory, its size apart. *)
Names(s, r) ==
    /\ Ok(r) /\ (Visible(s.disk, s.mem) => Visible(r.disk, r.mem))
    /\ Structs(s.mem) \subseteq Structs(r.mem)
    /\ \A f \in Structs(s.mem) : r.mem[f] = s.mem[f]
    /\ \A f \in Structs(r.mem) \ Structs(s.mem) : r.mem[f] = 0

LEMMA CarryNames == ASSUME NEW s, NEW r, Carry(s, r) PROVE Names(s, r)
BY DEF Carry, Names

LEMMA NamesOn ==
    ASSUME NEW s, NEW t, NEW r, Names(s, t), Names(t, r)
    PROVE  Names(s, r)
<1>1. \A f \in Structs(s.mem) : r.mem[f] = s.mem[f] BY DEF Names
<1>2. \A f \in Structs(r.mem) \ Structs(s.mem) : r.mem[f] = 0
  <2> SUFFICES ASSUME NEW f \in Structs(r.mem), f \notin Structs(s.mem) PROVE r.mem[f] = 0
    OBVIOUS
  <2>1. CASE f \in Structs(t.mem) BY <2>1 DEF Names
  <2>2. CASE f \notin Structs(t.mem) BY <2>2 DEF Names
  <2> QED BY <2>1, <2>2
<1> QED BY <1>1, <1>2 DEF Names

LEMMA NamesSame ==
    ASSUME NEW s, NEW t, Names(s, t), NEW r, IsState(r),
           r.mem = t.mem, r.disk = t.disk, r.seen = t.seen
    PROVE  Names(s, r)
BY DEF Names, Ok

(* A longer directory. *)
LEMMA LongerRoot ==
    ASSUME NEW s, Ok(s), NEW n \in Nat, n >= s.mem[SizeAt(Root)],
           NEW r, r = Put(s, SizeAt(Root), n)
    PROVE  /\ Names(s, r) /\ r.mem[SizeAt(Root)] = n /\ Structs(r.mem) = Structs(s.mem)
           /\ r.err = s.err
           /\ \A i \in Nat : Pointer(r.mem, Root, i) = Pointer(s.mem, Root, i)
<1>1. /\ IsState(s) /\ Good(s.mem) /\ Older(s.disk, s.mem) /\ Tree(s.mem) /\ s.mem \in Image
  BY GoodTree DEF Ok, IsState
<1>2. Grows(s, r) BY <1>1, PutIs
<1>3. r.mem = [s.mem EXCEPT ![SizeAt(Root)] = n] BY <1>1, PutIs
<1>4. r.disk = s.disk /\ r.seen = s.seen /\ r.err = s.err
  <2> IsState(s) BY <1>1
  <2> QED BY DEF Put, IsState
<1>5. PICK m, d, w : m = s.mem /\ d = s.disk /\ w = r.mem OBVIOUS
<1>6. PICK x : x = SizeAt(Root) OBVIOUS
<1>7. x \in Addr /\ blockno(x) = 1 BY <1>6, RootPlaces
<1>8. w \in Image /\ w[x] = n /\ \A a \in Addr \ {x} : w[a] = m[a]
  BY <1>1, <1>3, <1>5, <1>6, <1>7 DEF Image
<1>9. ASSUME NEW a \in AllSlots(m) \cup Structs(m) \cup WordsOf(0) \cup WordsOf(2)
      PROVE  w[a] = m[a]
  <2>1. a \in Addr
    BY <1>1, <1>5, AllSlotsIn, StructsApart, WordsIn, DataBlocks
  <2>2. a # x
    <3>1. CASE a \in AllSlots(m) BY <1>1, <1>5, <1>6, <3>1, NoSlot, RootOwns
    <3>2. CASE a \in Structs(m)
      <4> a \in Owners(m) BY <3>2 DEF Owners
      <4> QED BY <1>1, <1>5, <1>6, NamesDiffer, RootOwns
    <3>3. CASE a \in WordsOf(0) \cup WordsOf(2)
      <4> blockno(a) \in {0, 2} BY <3>3, WordsIn, DataBlocks
      <4> QED BY <1>7
    <3> QED BY <3>1, <3>2, <3>3
  <2> QED BY <1>8, <2>1, <2>2
<1>10. w[SizeAt(Root)] >= m[SizeAt(Root)] BY <1>5, <1>6, <1>8
<1>11. /\ Good(w) /\ Older(d, w) /\ (Visible(d, m) => Visible(d, w))
       /\ Structs(w) = Structs(m)
  BY <1>1, <1>5, <1>8, <1>9, <1>10, Touch
<1>12. \A a \in SlotsOf(m, Root) : w[a] = m[a] BY <1>9, RootOwns, SlotsIn
<1>13. \A i \in Nat : Pointer(w, Root, i) = Pointer(m, Root, i)
  BY <1>1, <1>5, <1>8, <1>12, SameRoot
<1>14. \A f \in Structs(m) : w[f] = m[f] BY <1>9
<1>15. Ok(r) BY <1>2, <1>4, <1>5, <1>11, <1>1 DEF Ok, Grows
<1> QED BY <1>4, <1>5, <1>6, <1>8, <1>11, <1>13, <1>14, <1>15 DEF Names

LEMMA DirAllocIs ==
    ASSUME NEW s, IsState(s), NEW r, r = DirAllocFile(s)
    PROVE  /\ Grows(s, r)
           /\ \E d : /\ d = DirScan(s, 0) /\ Grows(s, d) /\ Grows(d, r)
                     /\ \/ d.err # "ok" /\ r = d
                        \/ d.err = "ok" /\ d.at # 0 /\ r = d
                        \/ /\ d.err = "ok" /\ d.at = 0
                           /\ \E n, p, g : /\ n = d.mem[SizeAt(Root)] /\ n \in Nat
                                           /\ p = Put(d, SizeAt(Root), n + 1)
                                           /\ g = FileGetBlock(p, Root, n) /\ Grows(g, r)
                                           /\ r.mem = g.mem /\ r.disk = g.disk /\ r.seen = g.seen
                                           /\ r.err = g.err
                                           /\ g.err = "ok" => r.at = diskaddr(g.at)
<1>1. PICK d : d = DirScan(s, 0) OBVIOUS
<1>2. Grows(s, d) /\ IsState(d) BY <1>1, DirScanIs DEF Grows
<1>3. CASE d.err # "ok" \/ d.at # 0
  <2>1. r = d BY <1>1, <1>3 DEF DirAllocFile, Then
  <2>2. Grows(d, r) BY <1>2, <2>1, GrowsNot
  <2> QED BY <1>1, <1>2, <1>3, <2>1, <2>2
<1>4. CASE d.err = "ok" /\ d.at = 0
  <2>1. PICK n : n = d.mem[SizeAt(Root)] OBVIOUS
  <2>2. n \in Nat /\ n + 1 \in Nat BY <1>2, <2>1, RootPlaces DEF IsState, Image
  <2>3. PICK p : p = Put(d, SizeAt(Root), n + 1) OBVIOUS
  <2>4. PICK g : g = FileGetBlock(p, Root, n) OBVIOUS
  <2>5. Grows(d, p) /\ IsState(p)
    <3>1. PICK x : x = SizeAt(Root) OBVIOUS
    <3>3. PICK v \in Nat : v = n + 1 BY <2>2
    <3>2. p = Put(d, x, v) BY <2>3, <3>1, <3>3
    <3> QED BY <1>2, <3>2, PutIs DEF Grows
  <2>6. Grows(p, g) /\ IsState(g) BY <2>4, <2>5, GetIs DEF Grows
  <2>7. /\ Grows(g, r) /\ r.mem = g.mem /\ r.disk = g.disk /\ r.seen = g.seen /\ r.err = g.err
        /\ g.err = "ok" => r.at = diskaddr(g.at)
    <3>1. CASE g.err # "ok"
      <4>1. r = g BY <1>1, <1>4, <2>1, <2>3, <2>4, <3>1 DEF DirAllocFile, Then
      <4> QED BY <2>6, <3>1, <4>1, GrowsNot
    <3>2. CASE g.err = "ok"
      <4>1. PICK x : x = diskaddr(g.at) OBVIOUS
      <4>2. r = [g EXCEPT !.at = x]
        BY <1>1, <1>4, <2>1, <2>3, <2>4, <3>2, <4>1 DEF DirAllocFile, Then
      <4> QED BY <2>6, <4>1, <4>2, AtIs
    <3> QED BY <3>1, <3>2
  <2>8. Grows(d, r) BY <2>5, <2>6, <2>7, GrowsOn
  <2>9. Grows(s, r) BY <1>2, <2>8, GrowsOn
  <2> QED BY <1>1, <1>2, <1>4, <2>1, <2>2, <2>3, <2>4, <2>7, <2>8, <2>9, SMTT(30)
<1> QED BY <1>3, <1>4

(* A structure without a name, in a new block of the directory if need be. *)
LEMMA DirAllocOk ==
    ASSUME Careful, NEW s, Ok(s), NEW r, r = DirAllocFile(s), r.unsafe \subseteq Misuse
    PROVE  /\ Names(s, r)
           /\ r.err = "ok" => r.at \in Structs(r.mem) /\ r.mem[r.at] = 0
<1>0. IsState(s) BY DEF Ok
<1>1. PICK d : /\ d = DirScan(s, 0) /\ Grows(s, d) /\ Grows(d, r)
               /\ \/ d.err # "ok" /\ r = d
                  \/ d.err = "ok" /\ d.at # 0 /\ r = d
                  \/ /\ d.err = "ok" /\ d.at = 0
                     /\ \E n, p, g : /\ n = d.mem[SizeAt(Root)] /\ n \in Nat
                                     /\ p = Put(d, SizeAt(Root), n + 1)
                                     /\ g = FileGetBlock(p, Root, n) /\ Grows(g, r)
                                     /\ r.mem = g.mem /\ r.disk = g.disk /\ r.seen = g.seen
                                     /\ r.err = g.err
                                     /\ g.err = "ok" => r.at = diskaddr(g.at)
  BY <1>0, DirAllocIs
<1>2. d.unsafe \subseteq Misuse /\ IsState(r) BY <1>1 DEF Grows
<1>3. /\ Carry(s, d)
      /\ d.err = "ok" /\ d.at # 0 => d.at \in Structs(d.mem) /\ d.mem[d.at] = 0
      /\ d.err = "ok" /\ d.at = 0 => \A f \in Structs(d.mem) : d.mem[f] # 0
  BY <1>1, <1>2, ScanOk
<1>4. Names(s, d) /\ Ok(d) BY <1>3, CarryNames DEF Carry
<1>5. CASE r = d /\ (d.err # "ok" \/ d.at # 0) BY <1>3, <1>4, <1>5
<1>6. ASSUME d.err = "ok", d.at = 0, NEW n, n = d.mem[SizeAt(Root)], n \in Nat,
             NEW p, p = Put(d, SizeAt(Root), n + 1), NEW g, g = FileGetBlock(p, Root, n),
             Grows(g, r), r.mem = g.mem, r.disk = g.disk, r.seen = g.seen, r.err = g.err,
             g.err = "ok" => r.at = diskaddr(g.at)
      PROVE  /\ Names(s, r)
             /\ r.err = "ok" => r.at \in Structs(r.mem) /\ r.mem[r.at] = 0
  <2>1. /\ Names(d, p) /\ p.mem[SizeAt(Root)] = n + 1 /\ Structs(p.mem) = Structs(d.mem)
        /\ p.err = d.err
        /\ \A i \in Nat : Pointer(p.mem, Root, i) = Pointer(d.mem, Root, i)
    <3>1. PICK k \in Nat : k = n + 1 BY <1>6
    <3>2. p = Put(d, SizeAt(Root), k) /\ k >= d.mem[SizeAt(Root)] BY <1>6, <3>1
    <3> QED BY <1>4, <3>1, <3>2, LongerRoot
  <2>2. Ok(p) /\ p.err = "ok" /\ n < p.mem[SizeAt(Root)] /\ g.unsafe \subseteq Misuse
    BY <1>6, <2>1, SMTT(30) DEF Names, Grows
  <2>3. Carry(p, g) /\ (g.err = "ok" => g.at = Pointer(g.mem, Root, n) /\ g.at # 0)
    BY <1>6, <2>2, RootOwns, GetOk
  <2>4. Names(s, r)
    <3>1. Names(p, g) BY <2>3, CarryNames
    <3>2. Names(s, g) BY <1>4, <2>1, <3>1, NamesOn
    <3> QED BY <1>2, <1>6, <3>2, NamesSame
  <2>5. ASSUME r.err = "ok" PROVE r.at \in Structs(r.mem) /\ r.mem[r.at] = 0
    <3>1. g.at = Pointer(g.mem, Root, n) /\ g.at # 0 /\ r.at = diskaddr(g.at)
      BY <1>6, <2>3, <2>5
    <3>2. Ok(g) /\ Tree(g.mem) /\ Good(g.mem) /\ Tree(p.mem) /\ Good(d.mem) /\ Tree(d.mem)
      BY <1>4, <2>2, <2>3, GoodTree DEF Carry, Ok
    <3>3. n \in Index /\ HasSlot(g.mem, Root, n) /\ SlotAt(g.mem, Root, n) \in Pointers(g.mem)
          /\ Pointer(g.mem, Root, n) = g.mem[SlotAt(g.mem, Root, n)]
      BY <1>6, <3>1, <3>2, RootOwns, PointerIn, SMTT(30)
    <3>4. g.at \in DirBlks(g.mem) BY <3>1, <3>2, <3>3, RootPointers
    <3>5. g.at \in Blocks BY <3>2, <3>4, OwnersIn, DataBlocks
    <3>6. r.at \in FilesIn(g.at)
      <4>1. 0 \in 0..BLKFILES - 1 /\ 0 * FileWords = 0 BY Sizes
      <4>2. diskaddr(g.at) \in Nat
        <5> 0 \in 0..NINDIRECT - 1 BY Sizes
        <5> QED BY <3>5, WordIn
      <4>3. diskaddr(g.at) = diskaddr(g.at) + 0 * FileWords BY <4>1, <4>2
      <4> QED BY <3>1, <4>1, <4>3 DEF FilesIn
    <3>7. r.at \in Structs(g.mem) BY <3>4, <3>6 DEF Structs
    <3>8. blockno(r.at) = g.at BY <3>5, <3>6, Places, WordsIn
    <3>9. r.at \notin Structs(p.mem)
      <4> SUFFICES ASSUME r.at \in Structs(p.mem) PROVE FALSE OBVIOUS
      <4>1. g.at \in DirBlks(p.mem) BY <3>2, <3>8, StructsApart
      <4>2. PICK i \in Index : g.at = Pointer(p.mem, Root, i) BY <3>2, <4>1, RootPointers
      <4>3. i \in Nat BY Sizes DEF Index
      <4>4. Pointer(d.mem, Root, i) # 0 BY <2>1, <3>1, <4>2, <4>3
      <4>5. i < n BY <1>6, <3>2, <4>4 DEF Good, InSize, Index
      <4>6. Pointer(g.mem, Root, i) = g.at
        BY <2>2, <2>3, <3>1, <4>2, <4>3, RootOwns, CarryPointer
      <4>7. HasSlot(g.mem, Root, i) /\ SlotAt(g.mem, Root, i) \in Pointers(g.mem)
            /\ Pointer(g.mem, Root, i) = g.mem[SlotAt(g.mem, Root, i)]
        BY <3>1, <3>2, <4>3, <4>6, RootOwns, PointerIn
      <4>8. SlotAt(g.mem, Root, i) = SlotAt(g.mem, Root, n)
        BY <3>1, <3>2, <3>3, <4>6, <4>7 DEF Good, Injective, Tree
      <4>9. i = n BY <1>6, <3>2, <3>3, <4>3, <4>7, <4>8, RootOwns, SlotAtOnce
      <4> QED BY <1>6, <4>3, <4>5, <4>9
    <3>10. g.mem[r.at] = 0 BY <2>3, <3>7, <3>9 DEF Carry
    <3> QED BY <1>6, <3>7, <3>10
  <2> QED BY <2>4, <2>5
<1> QED BY <1>1, <1>5, <1>6

-----------------------------------------------------------------------------
(* file_flush() and fs_sync(). *)

FlushSet(m, f) ==
    {Pointer(m, f, i) : i \in 0..m[SizeAt(f)] - 1} \cup {blockno(f), m[IndirectAt(f)]}

LEMMA FlushUpto ==
    ASSUME NEW s, IsState(s), NEW n \in Nat, NEW blocks, Len(blocks) = n,
           NEW r, r = FlushAll(s, blocks)
    PROVE  /\ Grows(s, r) /\ r.mem = s.mem /\ r.err = s.err /\ r.at = s.at
           /\ r.disk = Mix(s.mem, s.disk, Upto(blocks, n))
           /\ \A d \in r.seen : d \in s.seen \/ \E i \in 1..n : d = Mix(s.mem, s.disk, Upto(blocks, i))
<1>1. Grows(s, r) /\ r.mem = s.mem /\ r.err = s.err /\ r.at = s.at BY FlushAllIs
<1>2. r.disk = Mix(s.mem, s.disk, Upto(blocks, n)) BY FlushAllIs
<1>3. r.seen = s.seen \cup {Mix(s.mem, s.disk, Upto(blocks, i)) : i \in 1..n} BY FlushAllIs
<1> QED BY <1>1, <1>2, <1>3

LEMMA FlushFileIs ==
    ASSUME NEW s, IsState(s), NEW f, s.mem[SizeAt(f)] \in Nat, NEW r, r = FileFlush(s, f)
    PROVE  /\ Grows(s, r) /\ r.mem = s.mem /\ r.err = s.err /\ r.at = s.at
           /\ r.disk = Mix(s.mem, s.disk, FlushSet(s.mem, f))
           /\ \A d \in r.seen : \/ d \in s.seen
                                \/ \E X : /\ d = Mix(s.mem, s.disk, X) /\ X \subseteq FlushSet(s.mem, f)
                                          /\ s.mem[IndirectAt(f)] \in X =>
                                               \/ blockno(f) \in X
                                               \/ \E i \in 0..s.mem[SizeAt(f)] - 1 :
                                                    s.mem[IndirectAt(f)] = Pointer(s.mem, f, i)
<1>1. PICK n \in Nat : n = s.mem[SizeAt(f)] OBVIOUS
<1>2. PICK x, y : x = blockno(f) /\ y = s.mem[IndirectAt(f)] OBVIOUS
<1> DEFINE P(i) == Pointer(s.mem, f, i - 1)
           ptrs == [i \in 1..n |-> P(i)]
           B == Append(Append(ptrs, x), y)
<1>3. r = FlushAll(s, B) BY <1>1, <1>2 DEF FileFlush
<1>4. Len(B) = n + 2 /\ n + 2 \in Nat /\ B[n + 1] = x /\ B[n + 2] = y
      /\ \A k \in 1..n : B[k] = P(k)
  <2> HIDE DEF P
  <2>1. \E T : ptrs \in Seq(T)
    <3>1. ptrs \in Seq({P(i) : i \in 1..n}) OBVIOUS
    <3> QED BY <3>1
  <2>2. Len(ptrs) = n OBVIOUS
  <2> QED BY <2>1, <2>2
<1> HIDE DEF P, ptrs, B
<1>5. \A k \in 1..n : B[k] = Pointer(s.mem, f, k - 1) BY <1>4 DEF P
<1>6. PICK N \in Nat : N = n + 2 BY <1>4
<1>7. Len(B) = N BY <1>4, <1>6
<1>8. Grows(s, r) /\ r.mem = s.mem /\ r.err = s.err /\ r.at = s.at
  BY <1>3, <1>7, FlushUpto
<1>9. r.disk = Mix(s.mem, s.disk, Upto(B, N)) BY <1>3, <1>7, FlushUpto
<1>10. \A d \in r.seen : d \in s.seen \/ \E i \in 1..N : d = Mix(s.mem, s.disk, Upto(B, i))
  BY <1>3, <1>7, FlushUpto
<1>11. \A k \in 1..N : k \in 1..n \/ k = n + 1 \/ k = n + 2 BY <1>6
<1>12. \A k \in 1..N : B[k] \in FlushSet(s.mem, f)
  <2> SUFFICES ASSUME NEW k \in 1..N PROVE B[k] \in FlushSet(s.mem, f) OBVIOUS
  <2>1. CASE k \in 1..n
    <3>1. k - 1 \in 0..s.mem[SizeAt(f)] - 1 BY <1>1, <2>1
    <3> QED BY <1>5, <2>1, <3>1 DEF FlushSet
  <2>2. CASE k = n + 1 \/ k = n + 2 BY <1>2, <1>4, <2>2 DEF FlushSet
  <2> QED BY <1>11, <2>1, <2>2
<1>13. Upto(B, N) = FlushSet(s.mem, f)
  <2>1. ASSUME NEW b \in FlushSet(s.mem, f) PROVE \E k \in 1..N : b = B[k]
    <3>1. CASE b = x \/ b = y
      <4>1. n + 1 \in 1..N /\ n + 2 \in 1..N BY <1>6
      <4> QED BY <1>4, <3>1, <4>1
    <3>2. ASSUME NEW i \in 0..s.mem[SizeAt(f)] - 1, b = Pointer(s.mem, f, i)
          PROVE  \E k \in 1..N : b = B[k]
      <4>1. i + 1 \in 1..n /\ i + 1 \in 1..N /\ (i + 1) - 1 = i BY <1>1, <1>6
      <4>2. B[i + 1] = Pointer(s.mem, f, i) BY <1>5, <4>1
      <4> QED BY <3>2, <4>1, <4>2
    <3> QED BY <1>2, <2>1, <3>1, <3>2 DEF FlushSet
  <2> QED BY <1>12, <2>1 DEF Upto
<1>14. ASSUME NEW i \in 1..N, NEW X, X = Upto(B, i)
       PROVE  /\ X \subseteq FlushSet(s.mem, f)
              /\ y \in X => x \in X \/ \E j \in 0..s.mem[SizeAt(f)] - 1 : y = Pointer(s.mem, f, j)
  <2>1. X \subseteq FlushSet(s.mem, f) BY <1>12, <1>14 DEF Upto
  <2>2. ASSUME NEW k \in 1..i, y = B[k]
        PROVE  x \in X \/ \E j \in 0..s.mem[SizeAt(f)] - 1 : y = Pointer(s.mem, f, j)
    <3>1. CASE k \in 1..n
      <4>1. k - 1 \in 0..s.mem[SizeAt(f)] - 1 BY <1>1, <3>1
      <4> QED BY <1>5, <2>2, <3>1, <4>1
    <3>2. CASE k = n + 1 \/ k = n + 2
      <4>1. n + 1 \in 1..i BY <3>2
      <4> QED BY <1>4, <1>14, <4>1 DEF Upto
    <3> QED BY <1>11, <3>1, <3>2
  <2> QED BY <1>14, <2>1, <2>2 DEF Upto
<1>15. r.disk = Mix(s.mem, s.disk, FlushSet(s.mem, f)) BY <1>9, <1>13
<1>16. ASSUME NEW d \in r.seen, d \notin s.seen
       PROVE  \E X : /\ d = Mix(s.mem, s.disk, X) /\ X \subseteq FlushSet(s.mem, f)
                     /\ y \in X => x \in X \/ \E j \in 0..s.mem[SizeAt(f)] - 1 :
                                                y = Pointer(s.mem, f, j)
  <2>1. PICK i \in 1..N : d = Mix(s.mem, s.disk, Upto(B, i)) BY <1>10, <1>16
  <2>2. PICK X : X = Upto(B, i) OBVIOUS
  <2> QED BY <1>14, <2>1, <2>2
<1> QED BY <1>2, <1>8, <1>15, <1>16

LEMMA SizeIn ==
    ASSUME NEW m, Tree(m), NEW f \in Owners(m)
    PROVE  SizeAt(f) \in Addr /\ m[SizeAt(f)] \in Nat
<1>1. SizeAt(f) \in Addr BY StructsApart, RootPlaces DEF Owners
<1> QED BY <1>1 DEF Tree, Image

(* No write of a file brings the root's indirect block before the root.    *)
LEMMA FlushOrder ==
    ASSUME NEW m, Good(m), NEW d, Older(d, m), NEW f \in Owners(m),
           NEW X, X \subseteq FlushSet(m, f),
           m[IndirectAt(f)] \in X =>
             blockno(f) \in X \/ \E i \in 0..m[SizeAt(f)] - 1 : m[IndirectAt(f)] = Pointer(m, f, i)
    PROVE  RootFirst(d, X)
<1>0. Tree(m) BY GoodTree
<1> SUFFICES ASSUME d[IndirectAt(Root)] \in X, d[IndirectAt(Root)] # 0 PROVE 1 \in X
  BY DEF RootFirst
<1>1. PICK y : y = m[IndirectAt(Root)] OBVIOUS
<1>2. y \in X /\ y # 0 BY <1>1, SlotsIn, RootOwns DEF Older
<1>3. IndirectAt(Root) \in Pointers(m) BY <1>1, <1>2, SlotsIn, RootOwns DEF Pointers
<1>4. ASSUME NEW i \in 0..m[SizeAt(f)] - 1, y = Pointer(m, f, i) PROVE FALSE
  <2>1. i \in Nat BY <1>0, SizeIn
  <2>2. /\ SlotAt(m, f, i) \in DataSlots(m, f) /\ SlotAt(m, f, i) \in Pointers(m)
        /\ Pointer(m, f, i) = m[SlotAt(m, f, i)]
    BY <1>0, <1>2, <1>4, <2>1, PointerIn
  <2>3. SlotAt(m, f, i) = IndirectAt(Root)
    BY <1>0, <1>1, <1>3, <1>4, <2>2 DEF Tree, Injective
  <2> QED BY <1>0, <2>2, <2>3, RootOwns, IndirectSlot
<1>5. CASE f = Root
  <2>1. blockno(f) = 1 BY <1>5, RootPlaces
  <2>2. y = m[IndirectAt(f)] BY <1>1, <1>5
  <2> QED BY <1>2, <1>4, <2>1, <2>2
<1>6. CASE f # Root
  <2>1. y \in Indirects(m) BY <1>1, <1>2, RootOwns DEF Indirects
  <2>2. f \in Structs(m) BY <1>6 DEF Owners
  <2>3. y # blockno(f) BY <1>0, <2>1, <2>2, StructsApart, Apart
  <2>4. y # m[IndirectAt(f)] BY <1>0, <1>1, <1>2, <1>6, RootOwns, Apart
  <2> QED BY <1>2, <1>4, <2>3, <2>4 DEF FlushSet
<1> QED BY <1>5, <1>6

LEMMA FlushFileOk ==
    ASSUME NEW s, Ok(s), NEW f \in Owners(s.mem), NEW r, r = FileFlush(s, f)
    PROVE  /\ Carry(s, r) /\ r.mem = s.mem /\ r.err = s.err /\ r.at = s.at
           /\ r.disk = Mix(s.mem, s.disk, FlushSet(s.mem, f))
<1>0. IsState(s) /\ Good(s.mem) /\ Older(s.disk, s.mem) /\ Tree(s.mem) BY GoodTree DEF Ok
<1>1. s.mem[SizeAt(f)] \in Nat BY <1>0, SizeIn
<1>2. /\ Grows(s, r) /\ r.mem = s.mem /\ r.err = s.err /\ r.at = s.at
      /\ r.disk = Mix(s.mem, s.disk, FlushSet(s.mem, f))
      /\ \A d \in r.seen : \/ d \in s.seen
                           \/ \E X : /\ d = Mix(s.mem, s.disk, X) /\ X \subseteq FlushSet(s.mem, f)
                                     /\ s.mem[IndirectAt(f)] \in X =>
                                          \/ blockno(f) \in X
                                          \/ \E i \in 0..s.mem[SizeAt(f)] - 1 :
                                               s.mem[IndirectAt(f)] = Pointer(s.mem, f, i)
  BY <1>0, <1>1, FlushFileIs
<1>3. ASSUME NEW X, X \subseteq FlushSet(s.mem, f),
             s.mem[IndirectAt(f)] \in X =>
               \/ blockno(f) \in X
               \/ \E i \in 0..s.mem[SizeAt(f)] - 1 : s.mem[IndirectAt(f)] = Pointer(s.mem, f, i)
      PROVE  /\ Older(Mix(s.mem, s.disk, X), s.mem)
             /\ Visible(s.disk, s.mem) => Visible(Mix(s.mem, s.disk, X), s.mem)
  <2>1. RootFirst(s.disk, X) BY <1>0, <1>3, FlushOrder
  <2> QED BY <1>0, <2>1, Mixed
<1>4. blockno(f) \in FlushSet(s.mem, f) BY DEF FlushSet
<1>5. Older(r.disk, r.mem) /\ (Visible(s.disk, s.mem) => Visible(r.disk, r.mem))
  BY <1>2, <1>3, <1>4
<1>6. ASSUME NEW d \in r.seen PROVE Good(d)
  <2>1. CASE d \in s.seen BY <2>1 DEF Ok
  <2>2. CASE d \notin s.seen
    <3>1. Older(d, s.mem) BY <1>2, <1>3, <2>2
    <3> QED BY <1>0, <3>1, OlderIsGood
  <2> QED BY <2>1, <2>2
<1>7. Ok(r) BY <1>0, <1>2, <1>5, <1>6 DEF Ok, Grows
<1> QED BY <1>2, <1>5, <1>7 DEF Carry, Pointers

(* The root's blocks hold all the names. *)
LEMMA RootFlushed ==
    ASSUME NEW m, Good(m), NEW d, Older(d, m), NEW e, e = Mix(m, d, FlushSet(m, Root))
    PROVE  Visible(e, m)
<1>0. Tree(m) /\ m \in Image /\ d \in Image BY GoodTree DEF Tree, Older
<1>1. PICK X : X = FlushSet(m, Root) OBVIOUS
<1>2. \A a \in Addr : e[a] = IF blockno(a) \in X \ {0} THEN m[a] ELSE d[a]
  BY <1>0, <1>1, MixIn
<1>3. 1 \in X /\ m[IndirectAt(Root)] \in X BY <1>1, RootPlaces DEF FlushSet
<1>4. e[IndirectAt(Root)] = m[IndirectAt(Root)] BY <1>2, <1>3, RootPlaces
<1>5. IndirectWords(e, Root) = IndirectWords(m, Root) BY <1>4 DEF IndirectWords
<1>6. ASSUME NEW a \in DataSlots(m, Root) PROVE a \in DataSlots(e, Root) /\ e[a] = m[a]
  <2>1. CASE a \in IndirectWords(m, Root)
    <3>1. a \in Addr /\ blockno(a) = m[IndirectAt(Root)] /\ m[IndirectAt(Root)] \in Indirects(m)
      BY <1>0, <2>1, RootOwns, IndirectIn
    <3>2. m[IndirectAt(Root)] # 0 BY <3>1 DEF Indirects
    <3> QED BY <1>2, <1>3, <1>5, <2>1, <3>1, <3>2 DEF DataSlots
  <2>2. CASE a \notin IndirectWords(m, Root)
    <3>1. PICK i \in 0..NDIRECT - 1 : a = DirectAt(Root, i) BY <2>2 DEF DataSlots
    <3>2. a \in Addr /\ blockno(a) = 1 BY <3>1, RootPlaces
    <3> QED BY <1>2, <1>3, <3>1, <3>2 DEF DataSlots
  <2> QED BY <2>1, <2>2
<1> SUFFICES ASSUME NEW f \in Structs(m), m[f] # 0 PROVE f \in Structs(e) /\ e[f] = m[f]
  BY DEF Visible
<1>7. PICK b \in DirBlks(m) : f \in FilesIn(b) BY DEF Structs
<1>8. PICK a \in DataSlots(m, Root) : b = m[a] /\ b # 0 BY <1>7 DEF DirBlks
<1>9. b \in DirBlks(e) BY <1>6, <1>8 DEF DirBlks
<1>10. f \in Structs(e) BY <1>7, <1>9 DEF Structs
<1>11. b \in X
  <2>1. PICK i \in Index : b = Pointer(m, Root, i) BY <1>0, <1>7, RootPointers
  <2>2. i < m[SizeAt(Root)] /\ i \in Nat /\ m[SizeAt(Root)] \in Nat
    BY <1>0, <1>8, <2>1, SizeIn, RootOwns, Sizes DEF Good, InSize, Index
  <2>3. i \in 0..m[SizeAt(Root)] - 1 BY <2>2
  <2> QED BY <1>1, <2>1, <2>3 DEF FlushSet
<1>12. f \in Addr /\ blockno(f) = b
  <2> b \in Blocks BY <1>0, <1>7, OwnersIn, DataBlocks
  <2> QED BY <1>7, Places, WordsIn
<1> QED BY <1>2, <1>8, <1>10, <1>11, <1>12

LEMMA SyncOk ==
    ASSUME NEW s, Ok(s), NEW r, r = FsSync(s)
    PROVE  Carry(s, r) /\ r.mem = s.mem /\ r.disk = s.mem
<1>0. IsState(s) /\ Good(s.mem) /\ Older(s.disk, s.mem) /\ Tree(s.mem)
      /\ s.mem \in Image /\ s.disk \in Image
  BY GoodTree DEF Ok, Older, IsState
<1>1. PICK n \in Nat : n = NBLOCKS - 1 BY Sizes
<1> DEFINE B == [i \in 1..n |-> i]
<1>2. Len(B) = n /\ \A k \in 1..n : B[k] = k OBVIOUS
<1>3. r = FlushAll(s, B) BY <1>1 DEF FsSync
<1> HIDE DEF B
<1>4. /\ Grows(s, r) /\ r.mem = s.mem /\ r.disk = Mix(s.mem, s.disk, Upto(B, n))
      /\ \A d \in r.seen : d \in s.seen \/ \E i \in 1..n : d = Mix(s.mem, s.disk, Upto(B, i))
  BY <1>0, <1>2, <1>3, FlushUpto
<1>5. ASSUME NEW i \in 1..n
      PROVE  /\ Older(Mix(s.mem, s.disk, Upto(B, i)), s.mem)
             /\ Visible(s.disk, s.mem) => Visible(Mix(s.mem, s.disk, Upto(B, i)), s.mem)
  <2>1. PICK X : X = Upto(B, i) OBVIOUS
  <2>2. X = 1..i BY <1>2, <2>1 DEF Upto
  <2>3. RootFirst(s.disk, X) BY <2>2 DEF RootFirst
  <2> QED BY <1>0, <2>1, <2>3, Mixed
<1>6. n \in 1..n BY <1>1, Sizes
<1>7. Older(r.disk, r.mem) /\ (Visible(s.disk, s.mem) => Visible(r.disk, r.mem))
  BY <1>4, <1>5, <1>6
<1>8. ASSUME NEW d \in r.seen PROVE Good(d)
  <2>1. CASE d \in s.seen BY <2>1 DEF Ok
  <2>2. CASE d \notin s.seen
    <3>1. Older(d, s.mem) BY <1>4, <1>5, <2>2
    <3> QED BY <1>0, <3>1, OlderIsGood
  <2> QED BY <2>1, <2>2
<1>9. Ok(r) BY <1>0, <1>4, <1>7, <1>8 DEF Ok, Grows
<1>10. r.disk = s.mem
  <2>1. PICK X : X = Upto(B, n) OBVIOUS
  <2>2. X = 1..n BY <1>2, <2>1 DEF Upto
  <2>3. r.disk \in Image /\ \A a \in Addr : r.disk[a] = IF blockno(a) \in X \ {0} THEN s.mem[a] ELSE s.disk[a]
    BY <1>0, <1>4, <2>1, MixIn
  <2>4. ASSUME NEW a \in Addr PROVE r.disk[a] = s.mem[a]
    <3>1. blockno(a) \in Blocks /\ a \in WordsOf(blockno(a)) BY BlockOf
    <3>2. CASE blockno(a) = 0
      <4>1. s.mem[a] = 0 /\ s.disk[a] = 0 BY <1>0, <3>1, <3>2 DEF Good, Older, ZeroBlock
      <4> QED BY <2>3, <4>1
    <3>3. CASE blockno(a) # 0
      <4>1. blockno(a) \in X BY <1>1, <2>2, <3>1, <3>3, Sizes DEF Blocks
      <4> QED BY <2>3, <3>3, <4>1
    <3> QED BY <3>2, <3>3
  <2> QED BY <1>0, <2>3, <2>4 DEF Image
<1> QED BY <1>4, <1>7, <1>9, <1>10 DEF Carry, Pointers

-----------------------------------------------------------------------------
(* walk_path(). *)

LEMMA PathsIn == Path \subseteq Nat
BY Layout DEF Path

LEMMA PathIs ==
    ASSUME NEW s, IsState(s), NEW path, NEW r, r = WalkPath(s, path)
    PROVE  Grows(s, r) /\ IsState(r)
<1>1. CASE path = 0
  <2>1. r = [s EXCEPT !.at = Root, !.err = "ok"] BY <1>1 DEF WalkPath
  <2> QED BY <2>1 DEF Grows, IsState
<1>2. CASE path # 0
  <2>1. r = DirLookup(s, path) BY <1>2 DEF WalkPath
  <2> QED BY <2>1, DirLookupIs DEF Grows
<1> QED BY <1>1, <1>2

LEMMA PathOk ==
    ASSUME Careful, NEW s, Ok(s), NEW path, NEW r, r = WalkPath(s, path),
           r.unsafe \subseteq Misuse
    PROVE  /\ Carry(s, r)
           /\ r.err = "ok" => r.at \in Owners(r.mem)
           /\ r.err = "NOT_FOUND" => path # 0 /\ \A f \in Structs(r.mem) : r.mem[f] # path
<1>1. CASE path = 0
  <2>1. r = [s EXCEPT !.at = Root, !.err = "ok"] BY <1>1 DEF WalkPath
  <2>2. r.mem = s.mem /\ r.disk = s.disk /\ r.seen = s.seen /\ r.at = Root /\ r.err = "ok"
        /\ IsState(r)
    BY <2>1 DEF Ok, IsState
  <2> QED BY <2>2, CarryNot, CarrySame, RootOwns
<1>2. CASE path # 0
  <2>1. r = DirLookup(s, path) BY <1>2 DEF WalkPath
  <2>2. /\ Carry(s, r)
        /\ r.err = "ok" => r.at \in Structs(r.mem)
        /\ r.err = "NOT_FOUND" => \A f \in Structs(r.mem) : r.mem[f] # path
    BY <2>1, DirLookupOk
  <2> QED BY <1>2, <2>2 DEF Owners
<1> QED BY <1>1, <1>2

-----------------------------------------------------------------------------
(* file_create(). *)

LEMMA FileCreateIs ==
    ASSUME NEW s, IsState(s), NEW name \in Nat, NEW r, r = FileCreate(s, name)
    PROVE  /\ Grows(s, r)
           /\ \E d : /\ d = WalkPath(s, name) /\ Grows(d, r)
                     /\ \/ d.err = "ok" /\ r.err = "EXISTS" /\ r.mem = d.mem /\ r.disk = d.disk
                           /\ r.seen = d.seen
                        \/ d.err # "ok" /\ d.err # "NOT_FOUND" /\ r = d
                        \/ /\ d.err = "NOT_FOUND"
                           /\ \E a, p : /\ a = DirAllocFile(d) /\ Grows(a, r)
                                        /\ \/ a.err # "ok" /\ r = a
                                           \/ /\ a.err = "ok" /\ p = Put(a, a.at, name)
                                              /\ Grows(a, p) /\ r = FileFlush(p, Root)
<1>1. PICK d : d = WalkPath(s, name) OBVIOUS
<1>2. Grows(s, d) /\ IsState(d) BY <1>1, PathIs
<1>3. CASE d.err = "ok"
  <2>1. r = Fail(d, "EXISTS") BY <1>1, <1>3 DEF FileCreate
  <2>2. /\ Grows(d, r) /\ r.err = "EXISTS" /\ r.mem = d.mem /\ r.disk = d.disk /\ r.seen = d.seen
    BY <1>2, <2>1, FailIs
  <2>3. Grows(s, r) BY <1>2, <2>2, GrowsOn
  <2> QED BY <1>1, <1>3, <2>2, <2>3
<1>4. CASE d.err # "ok" /\ d.err # "NOT_FOUND"
  <2>1. r = d BY <1>1, <1>4 DEF FileCreate
  <2>2. Grows(d, r) BY <1>2, <2>1, GrowsNot
  <2> QED BY <1>1, <1>2, <1>4, <2>1, <2>2
<1>5. CASE d.err = "NOT_FOUND"
  <2>1. PICK a : a = DirAllocFile(d) OBVIOUS
  <2>2. Grows(d, a) /\ IsState(a) BY <1>2, <2>1, DirAllocIs DEF Grows
  <2>3. CASE a.err # "ok"
    <3>1. r = a BY <1>1, <1>5, <2>1, <2>3 DEF FileCreate, Then
    <3>2. Grows(a, r) /\ Grows(d, r) /\ Grows(s, r) BY <1>2, <2>2, <3>1, GrowsNot, GrowsOn
    <3> QED BY <1>1, <1>5, <2>1, <2>3, <3>1, <3>2
  <2>4. CASE a.err = "ok"
    <3>1. PICK p : p = Put(a, a.at, name) OBVIOUS
    <3>2. r = FileFlush(p, Root) BY <1>1, <1>5, <2>1, <2>4, <3>1 DEF FileCreate, Then
    <3>3. Grows(a, p) /\ IsState(p) BY <2>2, <3>1, PutIs DEF Grows
    <3>4. p.mem[SizeAt(Root)] \in Nat BY <3>3, RootPlaces DEF IsState, Image
    <3>5. PICK q : q = FileFlush(p, Root) OBVIOUS
    <3>6. Grows(p, q) BY <3>3, <3>4, <3>5, FlushFileIs
    <3>7. r = q BY <3>2, <3>5
    <3>8. Grows(a, r) /\ Grows(d, r) /\ Grows(s, r) BY <1>2, <2>2, <3>3, <3>6, <3>7, GrowsOn
    <3> QED BY <1>1, <1>5, <2>1, <2>4, <3>1, <3>2, <3>3, <3>8
  <2> QED BY <2>3, <2>4
<1> QED BY <1>3, <1>4, <1>5

LEMMA FileCreateOk ==
    ASSUME Careful, NEW s, Ok(s), NEW name \in Path, NEW r, r = FileCreate(s, name),
           r.unsafe \subseteq Misuse
    PROVE  /\ Ok(r) /\ (Visible(s.disk, s.mem) => Visible(r.disk, r.mem))
           /\ r.err = "ok" => r.at \in Structs(r.mem)
<1>0. IsState(s) /\ name \in Nat BY PathsIn DEF Ok
<1>1. PICK d : /\ d = WalkPath(s, name) /\ Grows(d, r)
               /\ \/ d.err = "ok" /\ r.err = "EXISTS" /\ r.mem = d.mem /\ r.disk = d.disk
                     /\ r.seen = d.seen
                  \/ d.err # "ok" /\ d.err # "NOT_FOUND" /\ r = d
                  \/ /\ d.err = "NOT_FOUND"
                     /\ \E a, p : /\ a = DirAllocFile(d) /\ Grows(a, r)
                                  /\ \/ a.err # "ok" /\ r = a
                                     \/ /\ a.err = "ok" /\ p = Put(a, a.at, name)
                                        /\ Grows(a, p) /\ r = FileFlush(p, Root)
  BY <1>0, FileCreateIs
<1>2. d.unsafe \subseteq Misuse /\ IsState(r) BY <1>1 DEF Grows
<1>3. /\ Names(s, d) /\ Ok(d)
      /\ d.err = "NOT_FOUND" => name # 0 /\ \A f \in Structs(d.mem) : d.mem[f] # name
  BY <1>1, <1>2, PathOk, CarryNames DEF Carry
<1>4. CASE r.mem = d.mem /\ r.disk = d.disk /\ r.seen = d.seen /\ r.err # "ok"
  <2>1. Names(s, r) BY <1>2, <1>3, <1>4, NamesSame
  <2> QED BY <1>4, <2>1 DEF Names
<1>5. ASSUME d.err = "NOT_FOUND", NEW a, a = DirAllocFile(d), Grows(a, r)
      PROVE  /\ Names(s, a) /\ Ok(a) /\ \A f \in Structs(a.mem) : a.mem[f] # name
             /\ a.err = "ok" => a.at \in Structs(a.mem) /\ a.mem[a.at] = 0
  <2>1. a.unsafe \subseteq Misuse BY <1>5 DEF Grows
  <2>2. Names(d, a) /\ (a.err = "ok" => a.at \in Structs(a.mem) /\ a.mem[a.at] = 0)
    BY <1>3, <1>5, <2>1, DirAllocOk
  <2>3. Names(s, a) BY <1>3, <2>2, NamesOn
  <2>4. ASSUME NEW f \in Structs(a.mem) PROVE a.mem[f] # name
    <3>1. CASE f \in Structs(d.mem) BY <1>3, <1>5, <2>2, <3>1 DEF Names
    <3>2. CASE f \notin Structs(d.mem) BY <1>3, <1>5, <2>2, <3>2 DEF Names
    <3> QED BY <3>1, <3>2
  <2> QED BY <2>2, <2>3, <2>4 DEF Names
<1>6. ASSUME d.err = "NOT_FOUND", NEW a, a = DirAllocFile(d), Grows(a, r), a.err # "ok", r = a
      PROVE  Names(s, r) /\ r.err # "ok"
  BY <1>5, <1>6
<1>7. ASSUME d.err = "NOT_FOUND", NEW a, a = DirAllocFile(d), Grows(a, r), a.err = "ok",
             NEW p, p = Put(a, a.at, name), Grows(a, p), r = FileFlush(p, Root)
      PROVE  /\ Ok(r) /\ (Visible(s.disk, s.mem) => Visible(r.disk, r.mem))
             /\ r.at \in Structs(r.mem)
  <2>1. /\ Ok(a) /\ IsState(a) /\ Good(a.mem) /\ Older(a.disk, a.mem)
        /\ a.at \in Structs(a.mem) /\ a.mem[a.at] = 0
        /\ \A f \in Structs(a.mem) : a.mem[f] # name
    BY <1>5, <1>7 DEF Ok
  <2>2. PICK v \in Nat \ {0} : v = name BY <1>0, <1>3, <1>7
  <2>3. p.mem = [a.mem EXCEPT ![a.at] = v] /\ p.disk = a.disk /\ p.seen = a.seen /\ p.at = a.at
    BY <2>1, <1>7, <2>2 DEF Put, IsState
  <2>4. /\ Good(p.mem) /\ Older(a.disk, p.mem) /\ Structs(p.mem) = Structs(a.mem)
    BY <2>1, <2>2, <2>3, Named
  <2>5. Ok(p) BY <1>7, <2>1, <2>3, <2>4 DEF Ok, Grows
  <2>6. /\ Carry(p, r) /\ r.mem = p.mem /\ r.at = p.at
        /\ r.disk = Mix(p.mem, p.disk, FlushSet(p.mem, Root))
    <3>1. PICK q : q = FileFlush(p, Root) OBVIOUS
    <3>2. /\ Carry(p, q) /\ q.mem = p.mem /\ q.at = p.at
          /\ q.disk = Mix(p.mem, p.disk, FlushSet(p.mem, Root))
      BY <2>5, <3>1, RootOwns, FlushFileOk
    <3>3. r = q BY <1>7, <3>1
    <3> QED BY <3>2, <3>3
  <2>7. Visible(r.disk, r.mem) BY <2>3, <2>4, <2>6, RootFlushed
  <2> QED BY <2>1, <2>3, <2>4, <2>6, <2>7 DEF Carry
<1>8. CASE Names(s, r) /\ r.err # "ok" BY <1>8 DEF Names
<1> QED BY <1>1, <1>4, <1>6, <1>7, <1>8

-----------------------------------------------------------------------------
(* file_set_size(). *)

(* What goes when a file is cut to n blocks. *)
Dropping(m, f, n, S, unsafe) ==
    /\ \A c \in S : c = IndirectAt(f)
                    \/ \E i \in n..m[SizeAt(f)] - 1 : HasSlot(m, f, i) /\ c = SlotAt(m, f, i)
    /\ IndirectAt(f) \in S \/ S = {} \/ m[IndirectAt(f)] = 0 \/ "partial_truncate" \in unsafe
After(m, S) ==
    [a \in Addr |-> IF a \in S THEN 0
                    ELSE IF \E c \in S : m[c] # 0 /\ a = BitAt(m[c]) THEN 1
                    ELSE m[a]]

LEMMA AfterIn ==
    ASSUME NEW m \in Image, NEW S
    PROVE  /\ After(m, S) \in Image
           /\ \A a \in Addr : After(m, S)[a] = IF a \in S THEN 0
                                               ELSE IF \E c \in S : m[c] # 0 /\ a = BitAt(m[c]) THEN 1
                                               ELSE m[a]
BY DEF After, Image

LEMMA TruncateIs ==
    ASSUME NEW s, IsState(s), NEW f, NEW n, NEW r, r = TruncateBlocks(s, f, n)
    PROVE  /\ Grows(s, r) /\ r.disk = s.disk /\ r.seen = s.seen /\ r.err = s.err /\ r.at = s.at
           /\ \E S : r.mem = After(s.mem, S) /\ Dropping(s.mem, f, n, S, r.unsafe)
<1> DEFINE drop  == n <= NDIRECT /\ s.mem[IndirectAt(f)] # 0
           slots == {SlotAt(s.mem, f, i) : i \in {j \in n..s.mem[SizeAt(f)] - 1 : HasSlot(s.mem, f, j)}}
                      \cup (IF drop THEN {IndirectAt(f)} ELSE {})
           bits  == {BitAt(s.mem[a]) : a \in {b \in slots : s.mem[b] # 0}}
           w == [a \in Addr |-> IF a \in slots THEN 0 ELSE IF a \in bits THEN 1 ELSE s.mem[a]]
           c == s.mem[IndirectAt(f)] # 0 /\ ~drop
           t == [s EXCEPT !.mem = w]
<1>1. r = Mark(t, "partial_truncate", c) BY DEF TruncateBlocks
<1>2. c \in BOOLEAN /\ (drop => IndirectAt(f) \in slots)
      /\ (~drop => c \/ s.mem[IndirectAt(f)] = 0)
  OBVIOUS
<1>3. \A x \in slots : x = IndirectAt(f)
                       \/ \E i \in n..s.mem[SizeAt(f)] - 1 : HasSlot(s.mem, f, i) /\ x = SlotAt(s.mem, f, i)
  OBVIOUS
<1>4. \A a : a \in bits <=> \E x \in slots : s.mem[x] # 0 /\ a = BitAt(s.mem[x])
  <2> HIDE DEF slots
  <2> QED OBVIOUS
<1>5. w = After(s.mem, slots)
  <2> HIDE DEF slots, bits
  <2> QED BY <1>4 DEF After
<1> HIDE DEF drop, slots, bits, c
<1>6. w \in Image BY <1>5, AfterIn DEF IsState
<1> HIDE DEF w
<1>7. /\ Grows(s, t) /\ t.mem = w /\ t.disk = s.disk /\ t.seen = s.seen /\ t.err = s.err
      /\ t.at = s.at /\ IsState(t)
  BY <1>6, MemIs DEF Grows
<1> HIDE DEF t
<1>8. PICK q : q = Mark(t, "partial_truncate", c) OBVIOUS
<1>9. /\ Grows(t, q) /\ q.mem = t.mem /\ q.disk = t.disk /\ q.seen = t.seen /\ q.err = t.err
      /\ q.at = t.at /\ (c => "partial_truncate" \in q.unsafe)
  BY <1>2, <1>7, <1>8, MarkIs
<1>10. r = q BY <1>1, <1>8
<1>11. Grows(s, r) BY <1>7, <1>9, <1>10, GrowsOn
<1>12. Dropping(s.mem, f, n, slots, r.unsafe) BY <1>2, <1>3, <1>9, <1>10 DEF Dropping
<1> QED BY <1>5, <1>7, <1>9, <1>10, <1>11, <1>12

LEMMA SetSizeIs ==
    ASSUME NEW s, IsState(s), NEW f, NEW n \in Nat,
           NEW r, r = FileSetSize(s, f, n)
    PROVE  /\ Grows(s, r) /\ r.err = s.err /\ r.at = s.at
           /\ r.disk = MixAt(r.mem, s.disk, blockno(f)) /\ r.seen = s.seen \cup {r.disk}
           /\ r.mem \in Image
           /\ f = Root /\ n # s.mem[SizeAt(f)] => "write_root" \in r.unsafe
           /\ \E S : /\ Dropping(s.mem, f, n, S, r.unsafe)
                     /\ \A a \in Addr : r.mem[a] =
                          IF a = SizeAt(f) THEN n
                          ELSE IF a \in S THEN 0
                          ELSE IF \E c \in S : s.mem[c] # 0 /\ a = BitAt(s.mem[c]) THEN 1
                          ELSE s.mem[a]
<1>1. PICK t : t = IF s.mem[SizeAt(f)] > n THEN TruncateBlocks(s, f, n) ELSE s OBVIOUS
<1>2. s.mem \in Image BY DEF IsState
<1>3. PICK S : /\ Grows(s, t) /\ t.disk = s.disk /\ t.seen = s.seen /\ t.err = s.err /\ t.at = s.at
               /\ t.mem = After(s.mem, S) /\ Dropping(s.mem, f, n, S, t.unsafe)
  <2>1. CASE s.mem[SizeAt(f)] > n
    <3>1. t = TruncateBlocks(s, f, n) BY <1>1, <2>1
    <3> QED BY <3>1, TruncateIs
  <2>2. CASE ~(s.mem[SizeAt(f)] > n)
    <3>1. t = s BY <1>1, <2>2
    <3>2. After(s.mem, {}) = s.mem BY <1>2, AfterIn DEF Image
    <3>3. Dropping(s.mem, f, n, {}, t.unsafe) BY DEF Dropping
    <3> QED BY <3>1, <3>2, <3>3, GrowsNot
  <2> QED BY <2>1, <2>2
<1>4. IsState(t) BY <1>3 DEF Grows
<1>5. PICK odd : odd = (f = Root /\ n # s.mem[SizeAt(f)]) OBVIOUS
<1>5a. PICK u : u = Mark(t, "write_root", odd) OBVIOUS
<1>5b. /\ Grows(t, u) /\ u.mem = t.mem /\ u.disk = t.disk /\ u.seen = t.seen
       /\ u.err = t.err /\ u.at = t.at /\ IsState(u)
       /\ (odd => "write_root" \in u.unsafe)
  <2>1. odd \in BOOLEAN BY <1>5
  <2>2. PICK kind : kind = "write_root" OBVIOUS
  <2>3. u = Mark(t, kind, odd) BY <1>5a, <2>2
  <2>4. /\ Grows(t, u) /\ u.mem = t.mem /\ u.disk = t.disk /\ u.seen = t.seen
        /\ u.err = t.err /\ u.at = t.at /\ (odd => kind \in u.unsafe)
    BY <1>4, <2>1, <2>3, MarkIs
  <2>5. IsState(u) BY <2>4 DEF Grows
  <2> QED BY <2>2, <2>4, <2>5
<1>5c. PICK p : p = Put(u, SizeAt(f), n) OBVIOUS
<1>6. Grows(u, p) /\ p.mem = [t.mem EXCEPT ![SizeAt(f)] = n]
  <2>1. PICK x : x = SizeAt(f) OBVIOUS
  <2>2. p = Put(u, x, n) BY <1>5c, <2>1
  <2>3. Grows(u, p) BY <1>5b, <2>2, PutIs
  <2>4. p.mem = [u.mem EXCEPT ![x] = n] BY <1>5b, <2>2 DEF Put, IsState
  <2> QED BY <1>5b, <2>1, <2>3, <2>4
<1>7. p.disk = t.disk /\ p.seen = t.seen /\ p.err = t.err /\ p.at = t.at /\ IsState(p)
  BY <1>5b, <1>5c, <1>6 DEF Grows, Put, IsState
<1>8. PICK q : q = Flush(p, blockno(f)) OBVIOUS
<1>9. Grows(p, q) BY <1>7, <1>8, FlushIs
<1>10. q.mem = p.mem BY <1>7, <1>8, FlushIs
<1>11. q.disk = MixAt(p.mem, p.disk, blockno(f)) BY <1>7, <1>8, FlushIs
<1>12. q.seen = p.seen \cup {MixAt(p.mem, p.disk, blockno(f))} BY <1>7, <1>8, FlushIs
<1>13. q.err = p.err /\ q.at = p.at BY <1>7, <1>8, FlushIs
<1>14. r = q BY <1>1, <1>5, <1>5a, <1>5c, <1>8 DEF FileSetSize
<1>15. Grows(s, r) BY <1>3, <1>5b, <1>6, <1>9, <1>14, GrowsOn
<1>16. r.disk = MixAt(r.mem, s.disk, blockno(f)) /\ r.seen = s.seen \cup {r.disk}
       /\ r.err = s.err /\ r.at = s.at
  BY <1>3, <1>7, <1>10, <1>11, <1>12, <1>13, <1>14
<1>17. t.unsafe \subseteq r.unsafe /\ u.unsafe \subseteq r.unsafe
  BY <1>5b, <1>6, <1>9, <1>14 DEF Grows
<1>18. Dropping(s.mem, f, n, S, r.unsafe) BY <1>3, <1>17 DEF Dropping
<1>19. r.mem \in Image BY <1>15 DEF Grows, IsState
<1>20. r.mem = [t.mem EXCEPT ![SizeAt(f)] = n] BY <1>6, <1>10, <1>14
<1>21. t.mem \in Image
       /\ \A a \in Addr : t.mem[a] = IF a \in S THEN 0
                                     ELSE IF \E c \in S : s.mem[c] # 0 /\ a = BitAt(s.mem[c]) THEN 1
                                     ELSE s.mem[a]
  BY <1>2, <1>3, AfterIn
<1>22. \A a \in Addr : r.mem[a] = IF a = SizeAt(f) THEN n ELSE t.mem[a]
  BY <1>20, <1>21 DEF Image
<1>23. \A a \in Addr : r.mem[a] = IF a = SizeAt(f) THEN n
                                  ELSE IF a \in S THEN 0
                                  ELSE IF \E c \in S : s.mem[c] # 0 /\ a = BitAt(s.mem[c]) THEN 1
                                  ELSE s.mem[a]
  BY <1>21, <1>22
<1>24. f = Root /\ n # s.mem[SizeAt(f)] => "write_root" \in r.unsafe BY <1>5, <1>5b, <1>17
<1> QED BY <1>15, <1>16, <1>18, <1>19, <1>23, <1>24

LEMMA SetSizeOk ==
    ASSUME Careful, NEW s, Ok(s), NEW f \in Structs(s.mem), NEW n \in Nat,
           NEW r, r = FileSetSize(s, f, n), r.unsafe \subseteq Misuse
    PROVE  Names(s, r) /\ Structs(r.mem) = Structs(s.mem) /\ r.err = s.err /\ r.at = s.at
<1>0. IsState(s) /\ Good(s.mem) /\ Older(s.disk, s.mem) /\ Tree(s.mem) /\ s.disk \in Image
  BY GoodTree DEF Ok, Older
<1>1. f \in Owners(s.mem) /\ SizeAt(f) \in Addr /\ blockno(f) \in Nat \ {0}
  BY <1>0, StructsApart, OwnersIn, DataBlocks, Sizes DEF Blocks
<1>2. PICK S : /\ Grows(s, r) /\ r.err = s.err /\ r.at = s.at
               /\ r.disk = MixAt(r.mem, s.disk, blockno(f)) /\ r.seen = s.seen \cup {r.disk}
               /\ r.mem \in Image
               /\ Dropping(s.mem, f, n, S, r.unsafe)
               /\ \A a \in Addr : r.mem[a] =
                    IF a = SizeAt(f) THEN n
                    ELSE IF a \in S THEN 0
                    ELSE IF \E c \in S : s.mem[c] # 0 /\ a = BitAt(s.mem[c]) THEN 1
                    ELSE s.mem[a]
  BY <1>0, <1>1, SetSizeIs
<1>3. S \subseteq SlotsOf(s.mem, f)
  <2> SUFFICES ASSUME NEW c \in S PROVE c \in SlotsOf(s.mem, f) OBVIOUS
  <2>1. CASE c = IndirectAt(f) BY <2>1, SlotsAre
  <2>2. ASSUME NEW i \in n..s.mem[SizeAt(f)] - 1, HasSlot(s.mem, f, i), c = SlotAt(s.mem, f, i)
        PROVE  c \in SlotsOf(s.mem, f)
    <3>1. i \in Nat BY <1>0, <1>1, SizeIn
    <3> QED BY <1>0, <1>1, <2>2, <3>1, SlotAtIn, SlotsAre
  <2> QED BY <1>2, <2>1, <2>2 DEF Dropping
<1>4. IndirectAt(f) \in S \/ S \cap IndirectWords(s.mem, f) = {}
  <2>1. IndirectAt(f) \in S \/ S = {} \/ s.mem[IndirectAt(f)] = 0
    BY <1>2 DEF Dropping, Careful
  <2> QED BY <2>1 DEF IndirectWords
<1>5. PICK m, d, b, w, e : m = s.mem /\ d = s.disk /\ b = blockno(f) /\ w = r.mem /\ e = r.disk
  OBVIOUS
<1>6. e \in Image /\ \A a \in Addr : e[a] = IF blockno(a) = b THEN w[a] ELSE d[a]
  <2>1. w \in Image /\ d \in Image /\ b \in Nat \ {0} BY <1>0, <1>1, <1>2, <1>5
  <2>2. /\ MixAt(w, d, b) \in Image
        /\ \A a \in Addr : MixAt(w, d, b)[a] = IF blockno(a) = b THEN w[a] ELSE d[a]
    BY <2>1, MixOne
  <2>3. e = MixAt(w, d, b) BY <1>2, <1>5
  <2> QED BY <2>2, <2>3
<1>7. Dropped(m, d, f, n, S, w, e) BY <1>0, <1>2, <1>3, <1>4, <1>5, <1>6 DEF Dropped
<1>8. /\ Good(w) /\ Older(e, w) /\ (Visible(d, m) => Visible(e, w))
      /\ Structs(w) = Structs(m) /\ \A g \in Structs(m) : w[g] = m[g]
  BY <1>7, Cut
<1>9. Good(e) BY <1>8, OlderIsGood
<1>10. Ok(r) BY <1>0, <1>2, <1>5, <1>8, <1>9 DEF Ok, Grows
<1> QED BY <1>2, <1>5, <1>8, <1>10 DEF Names

(* The root keeps its size, and is written to the disk. *)
LEMMA SetSizeRoot ==
    ASSUME Careful, NEW s, Ok(s), NEW n \in Nat,
           NEW r, r = FileSetSize(s, Root, n), r.unsafe \subseteq Misuse
    PROVE  Names(s, r) /\ r.mem = s.mem /\ r.err = s.err /\ r.at = s.at
<1>0. IsState(s) /\ Good(s.mem) /\ Older(s.disk, s.mem) /\ s.mem \in Image
  BY DEF Ok, IsState
<1>1. /\ Grows(s, r) /\ r.err = s.err /\ r.at = s.at
      /\ r.disk = MixAt(r.mem, s.disk, blockno(Root)) /\ r.seen = s.seen \cup {r.disk}
      /\ n # s.mem[SizeAt(Root)] => "write_root" \in r.unsafe
  BY <1>0, SetSizeIs
<1>2. n = s.mem[SizeAt(Root)] BY <1>1 DEF Careful
<1>3. r.mem = s.mem
  <2>1. ~(s.mem[SizeAt(Root)] > n) BY <1>2
  <2>2. PICK u : u = Mark(s, "write_root", FALSE) OBVIOUS
  <2>3. u = s BY <2>2 DEF Mark
  <2>4. PICK p, x : p = Put(s, x, n) /\ x = SizeAt(Root) OBVIOUS
  <2>5b. Grows(s, p) BY <1>0, <2>4, PutIs
  <2>5a. p.mem = [s.mem EXCEPT ![x] = n] BY <1>0, <2>4 DEF Put, IsState
  <2>5. p.mem = [s.mem EXCEPT ![SizeAt(Root)] = n] /\ Grows(s, p) BY <2>4, <2>5a, <2>5b
  <2>6. p.mem = s.mem BY <1>0, <1>2, <2>5 DEF Image
  <2>7. PICK q : q = Flush(p, blockno(Root)) OBVIOUS
  <2>8. blockno(Root) \in Nat BY RootPlaces
  <2>9. q.mem = p.mem BY <2>5, <2>7, <2>8, FlushIs DEF Grows
  <2>10. (Root = Root /\ n # s.mem[SizeAt(Root)]) = FALSE BY <1>2
  <2>11. r = q BY <2>1, <2>2, <2>3, <2>4, <2>7, <2>10 DEF FileSetSize
  <2> QED BY <2>6, <2>9, <2>11
<1>4. PICK m, d, e : m = s.mem /\ d = s.disk /\ e = r.disk OBVIOUS
<1>5. Older(e, m) /\ (Visible(d, m) => Visible(e, m))
  <2>1. blockno(Root) = 1 BY RootPlaces
  <2>2. e = Mix(m, d, {1}) BY <1>1, <1>3, <1>4, <2>1 DEF MixAt
  <2>3. Good(m) /\ Older(d, m) BY <1>0, <1>4
  <2>4. RootFirst(d, {1}) BY DEF RootFirst
  <2> QED BY <2>2, <2>3, <2>4, Mixed
<1>6. Good(e) BY <1>0, <1>4, <1>5, OlderIsGood
<1>7. Ok(r) BY <1>0, <1>1, <1>3, <1>4, <1>5, <1>6 DEF Ok, Grows
<1> QED BY <1>1, <1>3, <1>4, <1>5, <1>7 DEF Names

-----------------------------------------------------------------------------
(* file_read() and file_write(). *)

LEMMA FileReadOk ==
    ASSUME Careful, NEW s, Ok(s), s.err = "ok", NEW f \in Owners(s.mem), NEW n \in Nat,
           NEW r, r = FileRead(s, f, n), r.unsafe \subseteq Misuse
    PROVE  Names(s, r)
<1>1. CASE r = s BY <1>1, CarryNot, CarryNames
<1>2. CASE n < s.mem[SizeAt(f)] /\ r = FileGetBlock(s, f, n)
  <2>1. Carry(s, r) BY <1>2, GetOk
  <2> QED BY <2>1, CarryNames
<1> QED BY <1>1, <1>2 DEF FileRead

LEMMA FileWriteOk ==
    ASSUME Careful, NEW s, Ok(s), s.err = "ok", NEW f \in Owners(s.mem), NEW n \in Nat,
           NEW v \in Nat, NEW r, r = FileWrite(s, f, n, v), r.unsafe \subseteq Misuse
    PROVE  Names(s, r)
<1>0. SizeAt(f) \in Addr /\ IsState(s)
  BY StructsApart, RootPlaces, GoodTree DEF Ok, Owners
<1>1. PICK t0 : t0 = IF n + 1 > s.mem[SizeAt(f)] THEN FileSetSize(s, f, n + 1) ELSE s OBVIOUS
<1>1a. PICK t : t = Mark(t0, "write_root", f = Root) OBVIOUS
<1>2. PICK g : g = FileGetBlock(t, f, n) OBVIOUS
<1>2a. Grows(s, t0) /\ IsState(t0)
  <2>1. PICK k \in Nat : k = n + 1 OBVIOUS
  <2>2. PICK q : q = FileSetSize(s, f, k) OBVIOUS
  <2>3. Grows(s, q) BY <1>0, <2>2, SetSizeIs
  <2>4. t0 = q \/ t0 = s BY <1>1, <2>1, <2>2
  <2> QED BY <1>0, <2>3, <2>4, GrowsNot DEF Grows
<1>3. Grows(s, t) /\ IsState(t) /\ (f = Root => "write_root" \in t.unsafe)
  <2>1. Grows(t0, t) /\ (f = Root => "write_root" \in t.unsafe) BY <1>1a, <1>2a, MarkIs
  <2> QED BY <1>2a, <2>1, GrowsOn DEF Grows
<1>4. Grows(t, g) /\ IsState(g) BY <1>2, <1>3, GetIs DEF Grows
<1>5. PICK w : w = [a \in Addr |-> IF blockno(a) = g.at THEN v ELSE g.mem[a]] OBVIOUS
<1>6. r = IF g.err = "ok" THEN [g EXCEPT !.mem = w] ELSE g
  BY <1>1, <1>1a, <1>2, <1>5 DEF FileWrite, Then
<1>7. w \in Image /\ \A a \in Addr : w[a] = IF blockno(a) = g.at THEN v ELSE g.mem[a]
  BY <1>4, <1>5 DEF IsState, Image
<1>8. Grows(g, r) /\ (g.err = "ok" => r.mem = w /\ r.disk = g.disk /\ r.seen = g.seen)
  <2>1. CASE g.err = "ok"
    <3>1. PICK q : q = [g EXCEPT !.mem = w] OBVIOUS
    <3>2. Grows(g, q) /\ q.mem = w /\ q.disk = g.disk /\ q.seen = g.seen
      BY <1>4, <1>7, <3>1, MemIs
    <3> QED BY <1>6, <2>1, <3>1, <3>2
  <2>2. CASE g.err # "ok" BY <1>4, <1>6, <2>2, GrowsNot
  <2> QED BY <2>1, <2>2
<1>9. g.unsafe \subseteq Misuse /\ t.unsafe \subseteq Misuse /\ IsState(r)
  BY <1>4, <1>8 DEF Grows
<1>9a. f # Root /\ f \in Structs(s.mem) BY <1>3, <1>9 DEF Careful, Owners
<1>9b. t = t0 BY <1>1a, <1>9a DEF Mark
<1>10. Names(s, t) /\ t.err = "ok" /\ f \in Structs(t.mem)
  <2>1. CASE t = s
    <3>1. Names(s, s) BY CarryNot, CarryNames
    <3> QED BY <1>9a, <2>1, <3>1
  <2>2. CASE t = FileSetSize(s, f, n + 1)
    <3>1. PICK k \in Nat : k = n + 1 OBVIOUS
    <3>2. t = FileSetSize(s, f, k) BY <2>2, <3>1
    <3> QED BY <1>9, <1>9a, <3>2, SetSizeOk
  <2> QED BY <1>1, <1>9b, <2>1, <2>2
<1>11. Ok(t) /\ f \in Owners(t.mem) BY <1>10 DEF Names, Owners
<1>12. Carry(t, g) /\ (g.err = "ok" => g.at = Pointer(g.mem, f, n) /\ g.at # 0)
  BY <1>2, <1>9, <1>9a, <1>10, <1>11, GetOk
<1>13. Names(s, g) BY <1>10, <1>12, CarryNames, NamesOn
<1>14. CASE g.err # "ok" BY <1>6, <1>13, <1>14
<1>15. CASE g.err = "ok"
  <2>1. Ok(g) /\ Good(g.mem) /\ Older(g.disk, g.mem) /\ Tree(g.mem) /\ f \in Structs(g.mem)
        /\ f \in Owners(g.mem)
    BY <1>10, <1>12, GoodTree DEF Carry, Ok, Owners
  <2>2. SlotAt(g.mem, f, n) \in DataSlots(g.mem, f) /\ g.at = g.mem[SlotAt(g.mem, f, n)]
        /\ g.at # 0
    BY <1>12, <1>15, <2>1, PointerIn
  <2>3. /\ g.at \in 3..NBLOCKS - 1 /\ g.at \notin {1} \cup DirBlks(g.mem) \cup Indirects(g.mem)
        /\ \A x \in AllSlots(g.mem) : blockno(x) # g.at
    BY <2>1, <2>2, DataApart
  <2>4. ASSUME NEW a \in AllSlots(g.mem) \cup Structs(g.mem) \cup WordsOf(0) \cup WordsOf(2)
        PROVE  w[a] = g.mem[a]
    <3>1. CASE a \in AllSlots(g.mem) BY <1>7, <2>1, <2>3, <3>1, AllSlotsIn
    <3>2. CASE a \in Structs(g.mem) BY <1>7, <2>1, <2>3, <3>2, StructsApart
    <3>3. CASE a \in WordsOf(0) \cup WordsOf(2)
      <4> a \in Addr /\ blockno(a) \in {0, 2} BY <3>3, WordsIn, DataBlocks
      <4> QED BY <1>7, <2>3, DataBlocks
    <3> QED BY <2>4, <3>1, <3>2, <3>3
  <2>5. w[SizeAt(Root)] = g.mem[SizeAt(Root)] BY <1>7, <2>3, RootPlaces
  <2>6. w[SizeAt(Root)] >= g.mem[SizeAt(Root)]
    <3> g.mem[SizeAt(Root)] \in Nat BY <2>1, RootOwns, SizeIn
    <3> QED BY <2>5
  <2>7. PICK m, d : m = g.mem /\ d = g.disk OBVIOUS
  <2>8. /\ Good(w) /\ Older(d, w) /\ (Visible(d, m) => Visible(d, w)) /\ Structs(w) = Structs(m)
    BY <1>7, <2>1, <2>4, <2>6, <2>7, Touch
  <2>9. r.mem = w /\ r.disk = d /\ r.seen = g.seen BY <1>8, <1>15, <2>7
  <2>10. Ok(r) BY <1>9, <2>1, <2>8, <2>9 DEF Ok
  <2>11. \A h \in Structs(m) : w[h] = m[h] BY <2>4, <2>7
  <2>12. Names(g, r) BY <2>7, <2>8, <2>9, <2>10, <2>11 DEF Names
  <2> QED BY <1>13, <2>12, NamesOn
<1> QED BY <1>14, <1>15

-----------------------------------------------------------------------------
(* serve_open(). *)

LEMMA ServeOpenOk ==
    ASSUME Careful, NEW s, Ok(s), NEW name \in Path, NEW mode,
           NEW r, r = ServeOpen(s, name, mode), r.unsafe \subseteq Misuse
    PROVE  Ok(r) /\ (Visible(s.disk, s.mem) => Visible(r.disk, r.mem))
<1>0. IsState(s) /\ name \in Nat BY PathsIn DEF Ok
<1>1. PICK c : c = FileCreate(s, name) OBVIOUS
<1>2. PICK x : x = IF c.err = "EXISTS" /\ "O_EXCL" \notin mode THEN WalkPath(c, name) ELSE c
  OBVIOUS
<1>3. PICK y : y = WalkPath(s, name) OBVIOUS
<1>4. PICK o : o = IF "O_CREAT" \in mode THEN x ELSE y OBVIOUS
<1>5. PICK z : z = IF "O_TRUNC" \in mode THEN FileSetSize(o, o.at, 0) ELSE o OBVIOUS
<1>6. PICK q : q = WalkPath(z, name) OBVIOUS
<1>7. r = IF o.err = "ok" THEN q ELSE o
  BY <1>1, <1>2, <1>3, <1>4, <1>5, <1>6 DEF ServeOpen, Then
(* Nothing of this takes back what is unsafe. *)
<1>8. Grows(s, c) /\ IsState(c)
  <2>1. PICK n \in Nat : n = name BY <1>0
  <2>2. c = FileCreate(s, n) BY <1>1, <2>1
  <2> QED BY <1>0, <2>2, FileCreateIs DEF Grows
<1>9. Grows(c, x) /\ IsState(x)
  <2>1. CASE x = WalkPath(c, name) BY <1>8, <2>1, PathIs
  <2>2. CASE x = c BY <1>8, <2>2, GrowsNot
  <2> QED BY <1>2, <2>1, <2>2
<1>10. Grows(s, y) /\ IsState(y) BY <1>0, <1>3, PathIs
<1>11. IsState(o) BY <1>4, <1>9, <1>10
<1>12. Grows(o, z) /\ IsState(z)
  <2>1. PICK u : u = o.at OBVIOUS
  <2>2. PICK n \in Nat : n = 0 OBVIOUS
  <2>3. PICK t : t = FileSetSize(o, u, n) OBVIOUS
  <2>4. Grows(o, t) BY <1>11, <2>3, SetSizeIs
  <2>5. z = t \/ z = o BY <1>5, <2>1, <2>2, <2>3
  <2> QED BY <1>11, <2>4, <2>5, GrowsNot DEF Grows
<1>13. Grows(z, q) /\ IsState(q) BY <1>6, <1>12, PathIs
<1>14. o.unsafe \subseteq Misuse
  <2>1. CASE o.err = "ok"
    <3>1. r = q BY <1>7, <2>1
    <3> QED BY <1>12, <1>13, <3>1 DEF Grows
  <2>2. CASE o.err # "ok"
    <3>1. r = o BY <1>7, <2>2
    <3> QED BY <3>1
  <2> QED BY <2>1, <2>2
(* The file is found, or made. *)
<1>15. /\ Ok(o) /\ (Visible(s.disk, s.mem) => Visible(o.disk, o.mem))
       /\ o.err = "ok" => o.at \in Owners(o.mem)
  <2>1. CASE o = y
    <3>1. y.unsafe \subseteq Misuse BY <1>14, <2>1
    <3>2. Carry(s, y) /\ (y.err = "ok" => y.at \in Owners(y.mem)) BY <1>3, <3>1, PathOk
    <3> QED BY <2>1, <3>2 DEF Carry
  <2>2. CASE o = x
    <3>1. c.unsafe \subseteq Misuse BY <1>9, <1>14, <2>2 DEF Grows
    <3>2. /\ Ok(c) /\ (Visible(s.disk, s.mem) => Visible(c.disk, c.mem))
          /\ c.err = "ok" => c.at \in Structs(c.mem)
      BY <1>1, <3>1, FileCreateOk
    <3>3. CASE x = c BY <2>2, <3>2, <3>3 DEF Owners
    <3>4. CASE x = WalkPath(c, name)
      <4>1. x.unsafe \subseteq Misuse BY <1>14, <2>2
      <4>2. Carry(c, x) /\ (x.err = "ok" => x.at \in Owners(x.mem))
        BY <3>2, <3>4, <4>1, PathOk
      <4> QED BY <2>2, <3>2, <4>2 DEF Carry
    <3> QED BY <1>2, <3>3, <3>4
  <2> QED BY <1>4, <2>1, <2>2
<1>16. CASE o.err # "ok" BY <1>7, <1>15, <1>16
<1>17. CASE o.err = "ok"
  <2>1. q.unsafe \subseteq Misuse /\ z.unsafe \subseteq Misuse BY <1>7, <1>13, <1>17 DEF Grows
  <2>2. Names(o, z)
    <3>1. CASE z = o BY <1>15, <3>1, CarryNot, CarryNames
    <3>2. CASE z = FileSetSize(o, o.at, 0)
      <4>1. PICK n \in Nat : n = 0 OBVIOUS
      <4>2. PICK f \in Owners(o.mem) : f = o.at BY <1>15, <1>17
      <4>3. z = FileSetSize(o, f, n) BY <3>2, <4>1, <4>2
      <4>4. CASE f \in Structs(o.mem) BY <1>15, <2>1, <4>3, <4>4, SetSizeOk
      <4>5. CASE f = Root
        <5>1. z = FileSetSize(o, Root, n) BY <4>3, <4>5
        <5> QED BY <1>15, <2>1, <5>1, SetSizeRoot
      <4> QED BY <4>4, <4>5 DEF Owners
    <3> QED BY <1>5, <3>1, <3>2
  <2>3. Ok(z) BY <2>2 DEF Names
  <2>4. Carry(z, q) BY <1>6, <2>1, <2>3, PathOk
  <2>5. Names(o, q) BY <2>2, <2>4, CarryNames, NamesOn
  <2> QED BY <1>7, <1>15, <1>17, <2>5 DEF Names
<1> QED BY <1>16, <1>17

-----------------------------------------------------------------------------
(* What the server does with a request that went well, and with a crash.   *)

LEMMA ServeKeeps ==
    ASSUME FSInv, NEW r, Ok(r), Visible(disk, mem) => Visible(r.disk, r.mem), Serve(r)
    PROVE  FSInv'
<1>1. CASE mem' = r.mem /\ disk' = r.disk
  BY <1>1 DEF FSInv, Ok, Good, Older, Visible
<1>2. CASE mem' \in r.seen /\ disk' = mem'
  <2>1. PICK m \in r.seen : m = mem' BY <1>2
  <2>2. Good(m) BY DEF Ok
  <2>3. Older(m, m) /\ Visible(m, m) BY <2>2, Restart
  <2> QED BY <1>2, <2>1, <2>2, <2>3 DEF FSInv
<1> QED BY <1>1, <1>2 DEF Serve

LEMMA NowOk == ASSUME FSInv PROVE Ok(Now) /\ Now.mem = mem /\ Now.disk = disk /\ Now.err = "ok"
<1>1. mem \in Image BY DEF FSInv, Good
<1> QED BY <1>1, NowIs DEF Ok, Now, FSInv

-----------------------------------------------------------------------------
(* The two disks fsformat makes. *)

LEMMA EmptyWords ==
    /\ Empty \in Image
    /\ \A a \in Addr : blockno(a) # 2 => Empty[a] = 0
    /\ \A b \in Blocks : Empty[BitAt(b)] = IF b \in 3..NBLOCKS - 1 THEN 1 ELSE 0
<1> DEFINE B == {BitAt(b) : b \in 3..NBLOCKS - 1}
<1>1. Empty = [a \in Addr |-> IF a \in B THEN 1 ELSE 0] BY DEF Empty
<1>2. \A a \in B : blockno(a) = 2 BY BitIn, DataBlocks
<1>3. \A b \in Blocks : BitAt(b) \in Addr /\ (BitAt(b) \in B <=> b \in 3..NBLOCKS - 1)
  BY BitIn, BitsDiffer, DataBlocks
<1> HIDE DEF B
<1> QED BY <1>1, <1>2, <1>3 DEF Image

LEMMA EmptyGood == Good(Empty)
<1>1. /\ Empty \in Image /\ \A a \in Addr : blockno(a) # 2 => Empty[a] = 0
      /\ \A b \in Blocks : Empty[BitAt(b)] = IF b \in 3..NBLOCKS - 1 THEN 1 ELSE 0
  BY EmptyWords
<1> DEFINE w == Empty
<1>2. w[IndirectAt(Root)] = 0 BY <1>1, RootPlaces
<1>3. DataSlots(w, Root) = {DirectAt(Root, i) : i \in 0..NDIRECT - 1}
  BY <1>2 DEF DataSlots, IndirectWords
<1>4. \A a \in DataSlots(w, Root) : w[a] = 0 BY <1>1, <1>3, RootPlaces
<1>5. DirBlks(w) = {} BY <1>4 DEF DirBlks
<1>6. Structs(w) = {} BY <1>5 DEF Structs
<1>7. AllSlots(w) = SlotsOf(w, Root) BY <1>6 DEF AllSlots
<1>8. Pointers(w) = {} BY <1>2, <1>4, <1>7, SlotsAre DEF Pointers
<1>9. Tree(w) BY <1>1, <1>8 DEF Tree, PointToData, Injective
<1>10. Reserved(w)
  <2> SUFFICES ASSUME NEW b \in 0..2 PROVE w[BitAt(b)] # 1 BY DEF Reserved
  <2> b \in Blocks /\ b \notin 3..NBLOCKS - 1 BY Sizes DEF Blocks
  <2> QED BY <1>1
<1>11. InSize(w)
  <2> SUFFICES ASSUME NEW i \in Index, Pointer(w, Root, i) # 0 PROVE FALSE BY DEF InSize, Index
  <2>1. i \in Nat BY Sizes DEF Index
  <2> QED BY <1>8, <1>9, <2>1, RootOwns, PointerIn
<1>12. ZeroBlock(w)
  <2> SUFFICES ASSUME NEW a \in WordsOf(0) PROVE w[a] = 0 BY DEF ZeroBlock
  <2> QED BY <1>1, WordsIn, DataBlocks
<1>13. InUse(w) /\ NamedOnce(w) BY <1>6, <1>8 DEF InUse, NamedOnce
<1> QED BY <1>9, <1>10, <1>11, <1>12, <1>13 DEF Good, Tree

(* One file, in the first structure of the block behind its own blocks.    *)
LEMMA FormatWords ==
    ASSUME NEW name \in Name, NEW len \in Formatted, NEW w, w = Format(name, len),
           NEW dir, dir = 3 + len, NEW f, f = diskaddr(dir)
    PROVE  /\ w \in Image /\ dir \in 3..NBLOCKS - 1 /\ f \in FilesIn(dir) /\ len \in 0..NDIRECT
           /\ \A b \in Blocks : w[BitAt(b)] = IF b \in dir + 1..NBLOCKS - 1 THEN 1 ELSE 0
           /\ w[SizeAt(Root)] = 1 /\ w[DirectAt(Root, 0)] = dir
           /\ w[f] = name
           /\ \A i \in 0..len - 1 : w[DirectAt(f, i)] = 3 + i
           /\ \A a \in Addr : blockno(a) # 2 /\ a # SizeAt(Root) /\ a # DirectAt(Root, 0)
                              /\ a # f /\ a # SizeAt(f) /\ (\A i \in 0..len - 1 : a # DirectAt(f, i))
                              => w[a] = 0
<1>1. len \in 0..NDIRECT /\ len \in Nat /\ dir \in 3..NBLOCKS - 1 /\ dir \in Blocks /\ dir \in Nat
  BY Layout, Sizes DEF Blocks
<1>2. f \in FilesIn(dir)
  <2>1. 0 \in 0..BLKFILES - 1 /\ 0 * FileWords = 0 BY Sizes
  <2>2. f \in Nat
    <3> 0 \in 0..NINDIRECT - 1 BY Sizes
    <3> QED BY <1>1, WordIn
  <2>3. f = diskaddr(dir) + 0 * FileWords BY <2>1, <2>2
  <2> QED BY <2>1, <2>3 DEF FilesIn
<1>3. /\ f \in Nat /\ f \in Addr /\ SizeAt(f) \in Addr /\ blockno(f) = dir /\ blockno(SizeAt(f)) = dir
      /\ \A i \in 0..NDIRECT - 1 : DirectAt(f, i) \in Addr /\ blockno(DirectAt(f, i)) = dir
  <2>1. f \in WordsOf(dir) /\ SizeAt(f) \in WordsOf(dir)
        /\ \A i \in 0..NDIRECT - 1 : DirectAt(f, i) \in WordsOf(dir)
    BY <1>1, <1>2, Places
  <2>2. f \in Nat
    <3> 0 \in 0..FileWords - 1 BY Sizes
    <3> QED BY <1>1, <1>2, FileIn
  <2> QED BY <1>1, <2>1, <2>2, WordsIn
<1>4. /\ f # SizeAt(f)
      /\ \A i \in 0..NDIRECT - 1 : DirectAt(f, i) # f /\ DirectAt(f, i) # SizeAt(f)
      /\ SizeAt(Root) # DirectAt(Root, 0)
  <2>1. 0 \in 0..NDIRECT - 1 BY Sizes
  <2> QED BY <1>1, <1>2, <2>1, RootIn, FieldsDiffer
<1>5. \A i \in 0..len - 1 : i \in 0..NDIRECT - 1 /\ i \in Nat BY <1>1, Sizes
<1>6. blockno(SizeAt(Root)) = 1 /\ blockno(DirectAt(Root, 0)) = 1
      /\ SizeAt(Root) \in Addr /\ DirectAt(Root, 0) \in Addr
  BY RootPlaces, Sizes
<1>7. dir # 1 /\ dir # 2 BY <1>1
<1> DEFINE B == {BitAt(b) : b \in 3..dir}
           D == {DirectAt(f, i) : i \in 0..len - 1}
           V(a) == CASE a \in B -> 0
                     [] a = SizeAt(Root) -> 1
                     [] a = DirectAt(Root, 0) -> dir
                     [] a = f -> name
                     [] a = SizeAt(f) -> len
                     [] a \in D -> 3 + a - DirectAt(f, 0)
                     [] OTHER -> Empty[a]
<1>8. w = [a \in Addr |-> V(a)] BY DEF Format
<1>9. \A a \in B : blockno(a) = 2 /\ a \in Addr
  <2> SUFFICES ASSUME NEW b \in 3..dir PROVE blockno(BitAt(b)) = 2 /\ BitAt(b) \in Addr
    OBVIOUS
  <2>1. b \in Blocks BY <1>1, Sizes DEF Blocks
  <2> QED BY <2>1, BitIn
<1>10. \A a \in D : blockno(a) = dir /\ a \in Addr /\ a # f /\ a # SizeAt(f) BY <1>3, <1>4, <1>5
<1>11. \A b \in Blocks : BitAt(b) \in Addr /\ blockno(BitAt(b)) = 2 /\ (BitAt(b) \in B <=> b \in 3..dir)
  <2> SUFFICES ASSUME NEW b \in Blocks
               PROVE  BitAt(b) \in Addr /\ blockno(BitAt(b)) = 2 /\ (BitAt(b) \in B <=> b \in 3..dir)
    OBVIOUS
  <2>1. ASSUME NEW c \in 3..dir, BitAt(b) = BitAt(c) PROVE b = c
    <3>1. c \in Blocks BY <1>1, Sizes DEF Blocks
    <3> QED BY <2>1, <3>1, BitsDiffer
  <2> QED BY <2>1, BitIn
<1>12. \A a : a \in D <=> \E i \in 0..len - 1 : a = DirectAt(f, i) OBVIOUS
<1>13. \A i \in 0..len - 1 : 3 + DirectAt(f, i) - DirectAt(f, 0) = 3 + i
  BY <1>3, <1>5 DEF DirectAt
<1> HIDE DEF B, D
<1>14. \A a \in B : V(a) = 0 BY <1>3, <1>6, <1>7, <1>9, <1>10
<1>15. V(SizeAt(Root)) = 1 BY <1>3, <1>4, <1>6, <1>7, <1>9, <1>10
<1>16. V(DirectAt(Root, 0)) = dir BY <1>3, <1>4, <1>6, <1>7, <1>9, <1>10
<1>17. V(f) = name BY <1>3, <1>4, <1>6, <1>7, <1>9, <1>10
<1>18. V(SizeAt(f)) = len BY <1>3, <1>4, <1>6, <1>7, <1>9, <1>10
<1>19. \A a \in D : V(a) = 3 + a - DirectAt(f, 0) BY <1>3, <1>4, <1>6, <1>7, <1>9, <1>10
<1>20. \A a : a \notin B /\ a # SizeAt(Root) /\ a # DirectAt(Root, 0) /\ a # f /\ a # SizeAt(f)
              /\ a \notin D => V(a) = Empty[a]
  OBVIOUS
<1> HIDE DEF V
<1>21. \A a \in Addr : w[a] = V(a) BY <1>8
<1>22. \A i \in 0..len - 1 : w[DirectAt(f, i)] = 3 + i
  <2> SUFFICES ASSUME NEW i \in 0..len - 1 PROVE w[DirectAt(f, i)] = 3 + i OBVIOUS
  <2>1. DirectAt(f, i) \in D /\ DirectAt(f, i) \in Addr BY <1>10, <1>12
  <2> QED BY <1>13, <1>19, <1>21, <2>1
<1>23. \A b \in Blocks : w[BitAt(b)] = IF b \in dir + 1..NBLOCKS - 1 THEN 1 ELSE 0
  <2> SUFFICES ASSUME NEW b \in Blocks
               PROVE  w[BitAt(b)] = IF b \in dir + 1..NBLOCKS - 1 THEN 1 ELSE 0
    OBVIOUS
  <2>1. CASE b \in 3..dir
    <3>1. b \notin dir + 1..NBLOCKS - 1 BY <1>1, <2>1
    <3> QED BY <1>11, <1>14, <1>21, <2>1, <3>1
  <2>2. CASE b \notin 3..dir
    <3>1. w[BitAt(b)] = Empty[BitAt(b)]
      <4>1. PICK x : x = BitAt(b) OBVIOUS
      <4>2. x \in Addr /\ blockno(x) = 2 /\ x \notin B BY <1>11, <2>2, <4>1
      <4>3. x \notin D /\ x # f /\ x # SizeAt(f) BY <1>3, <1>7, <1>10, <4>2
      <4>4. x # SizeAt(Root) /\ x # DirectAt(Root, 0) BY <1>6, <4>2
      <4>5. V(x) = Empty[x] BY <1>20, <4>2, <4>3, <4>4
      <4> QED BY <1>21, <4>1, <4>2, <4>5
    <3>2. b \in 3..NBLOCKS - 1 <=> b \in dir + 1..NBLOCKS - 1 BY <1>1, <2>2
    <3> QED BY <3>1, <3>2, EmptyWords
  <2> QED BY <2>1, <2>2
<1>24. \A a \in Addr : V(a) \in Nat
  <2> SUFFICES ASSUME NEW a \in Addr PROVE V(a) \in Nat OBVIOUS
  <2>1. CASE a \in D
    <3>1. PICK i \in 0..len - 1 : a = DirectAt(f, i) BY <1>12, <2>1
    <3> QED BY <1>5, <1>13, <1>19, <2>1, <3>1
  <2>2. CASE a \in B \/ a = SizeAt(Root) BY <1>14, <1>15, <2>2
  <2>3. CASE a = DirectAt(Root, 0) BY <1>1, <1>16, <2>3
  <2>4. CASE a = f BY <1>17, <2>4, Layout
  <2>5. CASE a = SizeAt(f) BY <1>1, <1>18, <2>5
  <2>6. CASE a \notin B /\ a # SizeAt(Root) /\ a # DirectAt(Root, 0) /\ a # f /\ a # SizeAt(f)
             /\ a \notin D
    BY <1>20, <2>6, EmptyWords DEF Image
  <2> QED BY <2>1, <2>2, <2>3, <2>4, <2>5, <2>6
<1>25. w \in Image BY <1>8, <1>24 DEF Image
<1>26. ASSUME NEW a \in Addr, blockno(a) # 2, a # SizeAt(Root), a # DirectAt(Root, 0),
              a # f, a # SizeAt(f), \A i \in 0..len - 1 : a # DirectAt(f, i)
       PROVE  w[a] = 0
  <2>1. a \notin B /\ a \notin D BY <1>9, <1>12, <1>26
  <2>2. w[a] = Empty[a] BY <1>20, <1>21, <1>26, <2>1
  <2> QED BY <1>26, <2>2, EmptyWords
<1> QED BY <1>1, <1>2, <1>3, <1>6, <1>15, <1>16, <1>17, <1>21, <1>22, <1>23, <1>25, <1>26

LEMMA FormatGood == ASSUME NEW name \in Name, NEW len \in Formatted PROVE Good(Format(name, len))
<1>1. PICK w, dir, f : w = Format(name, len) /\ dir = 3 + len /\ f = diskaddr(dir) OBVIOUS
<1>2. /\ w \in Image /\ dir \in 3..NBLOCKS - 1 /\ f \in FilesIn(dir) /\ len \in 0..NDIRECT
      /\ \A b \in Blocks : w[BitAt(b)] = IF b \in dir + 1..NBLOCKS - 1 THEN 1 ELSE 0
      /\ w[SizeAt(Root)] = 1 /\ w[DirectAt(Root, 0)] = dir
      /\ w[f] = name
      /\ \A i \in 0..len - 1 : w[DirectAt(f, i)] = 3 + i
      /\ \A a \in Addr : blockno(a) # 2 /\ a # SizeAt(Root) /\ a # DirectAt(Root, 0)
                         /\ a # f /\ a # SizeAt(f) /\ (\A i \in 0..len - 1 : a # DirectAt(f, i))
                         => w[a] = 0
  BY <1>1, FormatWords
<1>3. /\ dir \in Blocks /\ dir \in Nat /\ dir # 0 /\ dir # 1 /\ dir # 2 /\ len \in Nat
      /\ 0 \in 0..NDIRECT - 1 /\ \A i \in 0..len - 1 : i \in 0..NDIRECT - 1 /\ i \in Nat
  BY <1>2, DataBlocks, Sizes DEF Blocks
(* Where the words that are set are. *)
<1>4. f \in Addr /\ blockno(f) = dir /\ blockno(SizeAt(f)) = dir
      /\ \A i \in 0..NDIRECT - 1 : blockno(DirectAt(f, i)) = dir
  BY <1>2, <1>3, Places, WordsIn
(* The root has one block, and no indirect block. *)
<1>5. w[IndirectAt(Root)] = 0
  <2>1. IndirectAt(Root) # SizeAt(Root) /\ IndirectAt(Root) # DirectAt(Root, 0)
    BY <1>3, RootIn, FieldsDiffer
  <2> QED BY <1>2, <1>3, <1>4, <2>1, RootPlaces
<1>6. DataSlots(w, Root) = {DirectAt(Root, i) : i \in 0..NDIRECT - 1}
  BY <1>5 DEF DataSlots, IndirectWords
<1>7. ASSUME NEW i \in 0..NDIRECT - 1 PROVE w[DirectAt(Root, i)] = IF i = 0 THEN dir ELSE 0
  <2>1. CASE i = 0 BY <1>2, <2>1
  <2>2. CASE i # 0
    <3>1. DirectAt(Root, i) # SizeAt(Root) /\ DirectAt(Root, i) # DirectAt(Root, 0)
      BY <1>3, <2>2, RootIn, FieldsDiffer
    <3>2. DirectAt(Root, i) \in Addr /\ blockno(DirectAt(Root, i)) = 1 BY RootPlaces
    <3> QED BY <1>2, <1>3, <1>4, <2>2, <3>1, <3>2
  <2> QED BY <2>1, <2>2
<1>8. DirBlks(w) = {dir}
  <2>1. DirectAt(Root, 0) \in DataSlots(w, Root) BY <1>3, <1>6
  <2> QED BY <1>2, <1>3, <1>6, <1>7, <2>1 DEF DirBlks
<1>9. Structs(w) = FilesIn(dir) BY <1>8 DEF Structs
(* Only the first structure of the block is in use. *)
<1>10. ASSUME NEW g \in FilesIn(dir)
       PROVE  /\ w[IndirectAt(g)] = 0 /\ (g # f => w[g] = 0)
              /\ \A i \in 0..NDIRECT - 1 : w[DirectAt(g, i)] = IF g = f /\ i < len THEN 3 + i ELSE 0
  <2>1. /\ g \in Addr /\ IndirectAt(g) \in Addr
        /\ blockno(g) = dir /\ blockno(IndirectAt(g)) = dir
        /\ \A i \in 0..NDIRECT - 1 : DirectAt(g, i) \in Addr /\ blockno(DirectAt(g, i)) = dir
    BY <1>3, Places, WordsIn
  <2>2. blockno(SizeAt(Root)) = 1 /\ blockno(DirectAt(Root, 0)) = 1 BY <1>3, RootPlaces
  <2>3. ASSUME NEW a \in Addr, blockno(a) = dir, a # f, a # SizeAt(f),
               \A i \in 0..len - 1 : a # DirectAt(f, i)
        PROVE  w[a] = 0
    BY <1>2, <1>3, <2>2, <2>3
  <2>4. w[IndirectAt(g)] = 0
    <3>1. IndirectAt(g) # f /\ IndirectAt(g) # SizeAt(f)
          /\ \A i \in 0..NDIRECT - 1 : IndirectAt(g) # DirectAt(f, i)
      BY <1>2, <1>3, FieldsDiffer
    <3> QED BY <1>3, <2>1, <2>3, <3>1
  <2>5. ASSUME g # f PROVE w[g] = 0
    <3>1. g # SizeAt(f) /\ \A i \in 0..NDIRECT - 1 : g # DirectAt(f, i)
      BY <1>2, <1>3, FieldsDiffer
    <3> QED BY <1>3, <2>1, <2>3, <2>5, <3>1
  <2>6. ASSUME NEW i \in 0..NDIRECT - 1
        PROVE  w[DirectAt(g, i)] = IF g = f /\ i < len THEN 3 + i ELSE 0
    <3>1. CASE g = f /\ i < len
      <4>1. i \in 0..len - 1 BY <1>3, <3>1
      <4> QED BY <1>2, <3>1, <4>1
    <3>2. CASE ~(g = f /\ i < len)
      <4>1. DirectAt(g, i) # f /\ DirectAt(g, i) # SizeAt(f) BY <1>2, <1>3, FieldsDiffer
      <4>2. ASSUME NEW j \in 0..len - 1, DirectAt(g, i) = DirectAt(f, j) PROVE FALSE
        <5>1. g = f /\ i = j BY <1>2, <1>3, <4>2, FieldsDiffer
        <5> QED BY <1>3, <3>2, <5>1
      <4> QED BY <2>1, <2>3, <3>2, <4>1, <4>2
    <3> QED BY <3>1, <3>2
  <2> QED BY <2>4, <2>5, <2>6
<1>11. ASSUME NEW a \in Pointers(w)
       PROVE  \/ a = DirectAt(Root, 0) /\ w[a] = dir
              \/ \E i \in 0..len - 1 : a = DirectAt(f, i) /\ w[a] = 3 + i
  <2>1. a \in AllSlots(w) /\ w[a] # 0 BY DEF Pointers
  <2>2. CASE a \in SlotsOf(w, Root)
    <3>1. PICK i \in 0..NDIRECT - 1 : a = DirectAt(Root, i) BY <1>5, <1>6, <2>1, <2>2, SlotsAre
    <3> QED BY <1>7, <2>1, <3>1
  <2>3. ASSUME NEW g \in FilesIn(dir), a \in SlotsOf(w, g)
        PROVE  \E i \in 0..len - 1 : a = DirectAt(f, i) /\ w[a] = 3 + i
    <3>1. w[IndirectAt(g)] = 0 BY <1>10
    <3>2. IndirectWords(w, g) = {} BY <3>1 DEF IndirectWords
    <3>3. PICK i \in 0..NDIRECT - 1 : a = DirectAt(g, i)
      BY <2>1, <2>3, <3>1, <3>2, SlotsAre DEF DataSlots
    <3>4. g = f /\ i < len /\ w[a] = 3 + i BY <1>10, <2>1, <3>3
    <3>5. i \in 0..len - 1 BY <1>3, <3>4
    <3> QED BY <3>3, <3>4, <3>5
  <2> QED BY <1>9, <2>1, <2>2, <2>3 DEF AllSlots
<1>12. \A a \in Pointers(w) : w[a] \in 3..dir
  <2> SUFFICES ASSUME NEW a \in Pointers(w) PROVE w[a] \in 3..dir OBVIOUS
  <2>1. CASE w[a] = dir BY <1>2, <1>3, <2>1
  <2>2. ASSUME NEW i \in 0..len - 1, w[a] = 3 + i PROVE w[a] \in 3..dir BY <1>1, <1>3, <2>2
  <2> QED BY <1>11, <2>1, <2>2
<1>13. PointToData(w)
  <2> SUFFICES ASSUME NEW a \in Pointers(w) PROVE w[a] \in 3..NBLOCKS - 1 BY DEF PointToData
  <2> QED BY <1>2, <1>12, Sizes
<1>14. InUse(w)
  <2> SUFFICES ASSUME NEW a \in Pointers(w) PROVE w[BitAt(w[a])] = 0 BY DEF InUse
  <2>1. w[a] \in 3..dir BY <1>12
  <2>2. w[a] \in Blocks /\ w[a] \notin dir + 1..NBLOCKS - 1 BY <1>2, <2>1, Sizes DEF Blocks
  <2> QED BY <1>2, <2>2
<1>15. Injective(w)
  <2> SUFFICES ASSUME NEW a \in Pointers(w), NEW b \in Pointers(w), w[a] = w[b] PROVE a = b
    BY DEF Injective
  <2>1. \A i \in 0..len - 1 : 3 + i # dir BY <1>1, <1>3
  <2>2. \A i, j \in 0..len - 1 : 3 + i = 3 + j => i = j BY <1>3
  <2> QED BY <1>11, <2>1, <2>2
<1>16. Tree(w) BY <1>2, <1>13, <1>15 DEF Tree
<1>17. Reserved(w)
  <2> SUFFICES ASSUME NEW b \in 0..2 PROVE w[BitAt(b)] # 1 BY DEF Reserved
  <2>1. b \in Blocks /\ b \notin dir + 1..NBLOCKS - 1 BY <1>2, Sizes DEF Blocks
  <2> QED BY <1>2, <2>1
<1>18. InSize(w)
  <2> SUFFICES ASSUME NEW i \in Index, Pointer(w, Root, i) # 0 PROVE i < w[SizeAt(Root)]
    BY DEF InSize, Index
  <2>1. i \in Nat BY Sizes DEF Index
  <2>2. CASE i < NDIRECT
    <3>1. i \in 0..NDIRECT - 1 /\ Pointer(w, Root, i) = w[DirectAt(Root, i)]
      BY <2>1, <2>2, Sizes DEF Pointer, HasSlot, SlotAt
    <3>2. i = 0 BY <1>7, <3>1
    <3> QED BY <1>2, <3>2
  <2>3. CASE ~(i < NDIRECT) BY <1>5, <2>3 DEF Pointer, HasSlot
  <2> QED BY <2>2, <2>3
<1>19. NamedOnce(w)
  <2> SUFFICES ASSUME NEW g \in Structs(w), NEW h \in Structs(w), w[g] = w[h], w[g] # 0
               PROVE  g = h
    BY DEF NamedOnce
  <2> QED BY <1>9, <1>10
<1>20. ZeroBlock(w)
  <2> SUFFICES ASSUME NEW a \in WordsOf(0) PROVE w[a] = 0 BY DEF ZeroBlock
  <2>1. a \in Addr /\ blockno(a) = 0 BY WordsIn, DataBlocks
  <2>2. blockno(SizeAt(Root)) = 1 /\ blockno(DirectAt(Root, 0)) = 1 BY <1>3, RootPlaces
  <2> QED BY <1>2, <1>3, <1>4, <2>1, <2>2
<1> QED BY <1>1, <1>14, <1>16, <1>17, <1>18, <1>19, <1>20 DEF Good, Tree

LEMMA InitFSInv == Init => FSInv
<1> SUFFICES ASSUME Init PROVE FSInv OBVIOUS
<1>1. Min(Name) \in Name BY Layout, MinIn
<1>2. Good(mem) BY <1>1, EmptyGood, FormatGood DEF Init
<1>3. PICK m : m = mem OBVIOUS
<1>4. Older(m, m) /\ Visible(m, m) BY <1>2, <1>3, Restart
<1> QED BY <1>2, <1>3, <1>4 DEF FSInv, Init

-----------------------------------------------------------------------------
(* Every step keeps the invariant. *)

LEMMA NextKeeps ==
    ASSUME Careful, FSInv, [Next]_vars
    PROVE  FSInv'
<1>0. /\ Good(mem) /\ Tree(mem) /\ Older(disk, mem) /\ Visible(disk, mem)
      /\ FilesOf(mem) \subseteq Structs(mem) /\ Structs(mem) \subseteq Owners(mem)
  <2>1. Tree(mem) /\ InSize(mem) BY GoodTree DEF FSInv, Good
  <2> QED BY <2>1, FilesAre DEF FSInv, Owners
<1>0a. FilesOf(mem) \cup {Root} \subseteq Owners(mem) BY <1>0, RootOwns
<1>1. PICK s : s = Now OBVIOUS
<1>2. Ok(s) /\ s.mem = mem /\ s.disk = disk /\ s.err = "ok" BY <1>1, NowOk
<1>3. \A i \in 0..MaxBlocks : i \in Nat BY Layout
<1>4. ASSUME NEW name \in Path, NEW mode \in Modes, Open(name, mode) PROVE FSInv'
  <2>1. PICK r : r = ServeOpen(s, name, mode) OBVIOUS
  <2>2. Serve(r) BY <1>1, <1>4, <2>1 DEF Open
  <2>3. r.unsafe \subseteq Misuse BY <2>2 DEF Serve, Safe
  <2>4. Ok(r) /\ (Visible(disk, mem) => Visible(r.disk, r.mem))
    BY <1>2, <2>1, <2>3, ServeOpenOk
  <2> QED BY <2>2, <2>4, ServeKeeps
<1>5. ASSUME NEW f \in FilesOf(mem) \cup {Root}, NEW k \in 0..MaxBlocks, SetSize(f, k) PROVE FSInv'
  <2>1. PICK r : r = FileSetSize(s, f, k) OBVIOUS
  <2>2. Serve(r) BY <1>1, <1>5, <2>1 DEF SetSize
  <2>3. r.unsafe \subseteq Misuse BY <2>2 DEF Serve, Safe
  <2>4. k \in Nat BY <1>3
  <2>5. CASE f = Root
    <3>1. r = FileSetSize(s, Root, k) BY <2>1, <2>5
    <3>2. Names(s, r) BY <1>2, <2>3, <2>4, <3>1, SetSizeRoot
    <3> QED BY <1>2, <2>2, <3>2, ServeKeeps DEF Names
  <2>6. CASE f # Root
    <3>1. f \in Structs(s.mem) BY <1>0, <1>2, <2>6
    <3>2. Names(s, r) BY <1>2, <2>1, <2>3, <2>4, <3>1, SetSizeOk
    <3> QED BY <1>2, <2>2, <3>2, ServeKeeps DEF Names
  <2> QED BY <2>5, <2>6
<1>6. ASSUME NEW f \in FilesOf(mem) \cup {Root}, NEW i \in 0..MaxBlocks - 1, Read(f, i) PROVE FSInv'
  <2>1. PICK r : r = FileRead(s, f, i) OBVIOUS
  <2>2. Serve(r) BY <1>1, <1>6, <2>1 DEF Read
  <2>3. r.unsafe \subseteq Misuse BY <2>2 DEF Serve, Safe
  <2>4. f \in Owners(s.mem) /\ i \in Nat BY <1>0a, <1>2
  <2>5. Names(s, r) BY <1>2, <2>1, <2>3, <2>4, FileReadOk
  <2> QED BY <1>2, <2>2, <2>5, ServeKeeps DEF Names
<1>7. ASSUME NEW f \in FilesOf(mem) \cup {Root}, NEW i \in 0..MaxBlocks - 1, NEW v \in Vals, Write(f, i, v)
      PROVE  FSInv'
  <2>1. PICK r : r = FileWrite(s, f, i, v) OBVIOUS
  <2>2. Serve(r) BY <1>1, <1>7, <2>1 DEF Write
  <2>3. r.unsafe \subseteq Misuse BY <2>2 DEF Serve, Safe
  <2>4. f \in Owners(s.mem) /\ i \in Nat BY <1>0a, <1>2
  <2>5. v \in Nat BY Layout DEF Blocks
  <2>6. Names(s, r) BY <1>2, <2>1, <2>3, <2>4, <2>5, FileWriteOk
  <2> QED BY <1>2, <2>2, <2>6, ServeKeeps DEF Names
<1>8. ASSUME NEW f \in FilesOf(mem) \cup {Root}, FlushFile(f) PROVE FSInv'
  <2>1. PICK r : r = FileFlush(s, f) OBVIOUS
  <2>2. Serve(r) BY <1>1, <1>8, <2>1 DEF FlushFile
  <2>3. f \in Owners(s.mem) BY <1>0a, <1>2
  <2>4. Carry(s, r) BY <1>2, <2>1, <2>3, FlushFileOk
  <2> QED BY <1>2, <2>2, <2>4, ServeKeeps DEF Carry
<1>9. ASSUME Sync PROVE FSInv'
  <2>1. PICK r : r = FsSync(s) OBVIOUS
  <2>2. Serve(r) BY <1>1, <1>9, <2>1 DEF Sync
  <2>3. Carry(s, r) BY <1>2, <2>1, SyncOk
  <2> QED BY <1>2, <2>2, <2>3, ServeKeeps DEF Carry
<1>10. ASSUME Reboot PROVE FSInv'
  <2>1. mem' = disk /\ disk' = disk BY <1>10 DEF Reboot
  <2>2. Good(disk) BY <1>0, OlderIsGood
  <2>3. Older(disk, disk) /\ Visible(disk, disk) BY <2>2, Restart
  <2> QED BY <2>1, <2>2, <2>3 DEF FSInv
<1>11. ASSUME UNCHANGED vars PROVE FSInv'
  <2>1. mem' = mem /\ disk' = disk BY <1>11 DEF vars
  <2> QED BY <1>0, <2>1 DEF FSInv
<1> QED BY <1>4, <1>5, <1>6, <1>7, <1>8, <1>9, <1>10, <1>11 DEF Next

-----------------------------------------------------------------------------
(* What the invariant says of the files. *)

LEMMA OwnedIn == ASSUME FSInv PROVE BlockOwned
<1>1. Good(mem) /\ Tree(mem) /\ FilesOf(mem) \subseteq Structs(mem)
  <2>1. Tree(mem) /\ InSize(mem) BY GoodTree DEF FSInv, Good
  <2> QED BY <2>1, FilesAre DEF FSInv
<1>2. Links(mem) \subseteq Pointers(mem) BY <1>1 DEF Links, Pointers, AllSlots
<1>3. \A a \in Links(mem) : mem[a] \in 3..NBLOCKS - 1 /\ mem[BitAt(mem[a])] = 0
  BY <1>1, <1>2 DEF Good, PointToData, InUse
<1>4. \A a, b \in Links(mem) : mem[a] = mem[b] => a = b
  BY <1>1, <1>2 DEF Good, Injective
<1> QED BY <1>3, <1>4 DEF BlockOwned

LEMMA FileOfSame ==
    ASSUME NEW m, NEW e, NEW n, FilesNamed(e, n) = FilesNamed(m, n),
           \A f \in FilesNamed(m, n) : Contents(e, f) = Contents(m, f)
    PROVE  FileOf(e, n) = FileOf(m, n)
<1>1. {Contents(e, f) : f \in FilesNamed(e, n)} = {Contents(m, f) : f \in FilesNamed(m, n)}
  OBVIOUS
<1> QED BY <1>1 DEF FileOf

LEMMA ContentsSame ==
    ASSUME NEW m, NEW e, NEW f, NEW k, m[SizeAt(f)] = k, e[SizeAt(f)] = k,
           \A i \in 1..k : Pointer(e, f, i - 1) = Pointer(m, f, i - 1),
           \A i \in 1..k : \A w \in 1..NINDIRECT :
             Pointer(m, f, i - 1) # 0 =>
               e[diskaddr(Pointer(m, f, i - 1)) + w - 1] = m[diskaddr(Pointer(m, f, i - 1)) + w - 1]
    PROVE  Contents(e, f) = Contents(m, f)
<1> DEFINE C(g, i) == LET p == Pointer(g, f, i - 1)
                      IN  IF p = 0 THEN Hole ELSE [w \in 1..NINDIRECT |-> g[diskaddr(p) + w - 1]]
<1>1. ASSUME NEW i \in 1..k PROVE C(e, i) = C(m, i)
  <2>1. PICK p : p = Pointer(m, f, i - 1) OBVIOUS
  <2>2. Pointer(e, f, i - 1) = p BY <2>1
  <2>3. CASE p = 0 BY <2>1, <2>2, <2>3
  <2>4. CASE p # 0
    <3>1. \A w \in 1..NINDIRECT : e[diskaddr(p) + w - 1] = m[diskaddr(p) + w - 1] BY <2>1, <2>4
    <3>2. [w \in 1..NINDIRECT |-> e[diskaddr(p) + w - 1]] = [w \in 1..NINDIRECT |-> m[diskaddr(p) + w - 1]]
      BY <3>1
    <3> QED BY <2>1, <2>2, <2>4, <3>2
  <2> QED BY <2>3, <2>4
<1>2. Contents(e, f) = [i \in 1..k |-> C(e, i)] /\ Contents(m, f) = [i \in 1..k |-> C(m, i)]
  BY DEF Contents
<1> HIDE DEF C
<1> QED BY <1>1, <1>2

(* A named file that is written goes to the disk whole. *)
LEMMA FileFlushed ==
    ASSUME NEW m, Good(m), NEW d, Older(d, m), Visible(d, m),
           NEW n \in Nat \ {0}, NEW f \in FilesNamed(m, n),
           NEW e, e = Mix(m, d, FlushSet(m, f)), Older(e, m), Visible(e, m)
    PROVE  FileOf(e, n) = FileOf(m, n)
<1>0. Tree(m) /\ m \in Image /\ d \in Image /\ InSize(m) BY GoodTree DEF Tree, Older, Good
<1>1. f \in Structs(m) /\ f \in Owners(m) /\ m[f] = n
  BY <1>0, FilesAre DEF FilesNamed, Owners
<1>2. Good(e) /\ Tree(e) /\ InSize(e) BY OlderIsGood, GoodTree DEF Good
<1>3. FilesNamed(m, n) = {f}
  BY <1>0, <1>1, FilesAre DEF FilesNamed, Good, NamedOnce
<1>4. FilesNamed(e, n) = {f}
  <2>1. f \in Structs(e) /\ e[f] = n BY <1>1 DEF Visible
  <2> QED BY <1>2, <2>1, FilesAre DEF FilesNamed, Good, NamedOnce
<1>5. PICK X : X = FlushSet(m, f) OBVIOUS
<1>6. \A a \in Addr : e[a] = IF blockno(a) \in X \ {0} THEN m[a] ELSE d[a]
  BY <1>0, <1>5, MixIn
<1>7. blockno(f) \in X \ {0} /\ m[IndirectAt(f)] \in X
  <2>1. blockno(f) \in DirBlks(m) BY <1>0, <1>1, StructsApart
  <2> QED BY <1>5, <2>1 DEF FlushSet, DirBlks
<1>8. e[SizeAt(f)] = m[SizeAt(f)] BY <1>0, <1>1, <1>6, <1>7, StructsApart
<1>9. e[IndirectAt(f)] = m[IndirectAt(f)]
  <2>1. IndirectAt(f) \in Addr BY <1>0, <1>1, SlotsIn, AllSlotsIn
  <2> QED BY <1>0, <1>1, <1>6, <1>7, <2>1, StructsApart
<1>10. ASSUME NEW a \in DataSlots(m, f) PROVE e[a] = m[a]
  <2>1. CASE a \in IndirectWords(m, f)
    <3>1. a \in Addr /\ blockno(a) = m[IndirectAt(f)] /\ m[IndirectAt(f)] \in Indirects(m)
      BY <1>0, <1>1, <2>1, IndirectIn
    <3>2. m[IndirectAt(f)] # 0 BY <3>1 DEF Indirects
    <3> QED BY <1>6, <1>7, <3>1, <3>2
  <2>2. CASE a \notin IndirectWords(m, f)
    <3>1. PICK i \in 0..NDIRECT - 1 : a = DirectAt(f, i) BY <2>2 DEF DataSlots
    <3>2. blockno(a) = blockno(f) BY <1>0, <1>1, <3>1, StructsApart
    <3>3. a \in Addr BY <1>0, <1>1, SlotsIn, AllSlotsIn
    <3> QED BY <1>6, <1>7, <3>2, <3>3
  <2> QED BY <2>1, <2>2
<1>11. PICK k \in Nat : k = m[SizeAt(f)] BY <1>0, <1>1, SizeIn
<1>12. ASSUME NEW i \in Nat PROVE Pointer(e, f, i) = Pointer(m, f, i)
  <2>1. HasSlot(e, f, i) = HasSlot(m, f, i) /\ SlotAt(e, f, i) = SlotAt(m, f, i)
    BY <1>9 DEF HasSlot, SlotAt
  <2>2. CASE HasSlot(m, f, i)
    <3>1. SlotAt(m, f, i) \in DataSlots(m, f) BY <1>0, <1>1, <2>2, SlotAtIn
    <3> QED BY <1>10, <2>1, <2>2, <3>1 DEF Pointer
  <2>3. CASE ~HasSlot(m, f, i) BY <2>1, <2>3 DEF Pointer
  <2> QED BY <2>2, <2>3
<1>13. ASSUME NEW i \in 1..k, NEW w \in 1..NINDIRECT, NEW p, p = Pointer(m, f, i - 1), p # 0
       PROVE  e[diskaddr(p) + w - 1] = m[diskaddr(p) + w - 1]
  <2>1. i - 1 \in Nat /\ i - 1 \in 0..m[SizeAt(f)] - 1 BY <1>11
  <2>2. p \in X BY <1>5, <1>13, <2>1 DEF FlushSet
  <2>3. SlotAt(m, f, i - 1) \in Pointers(m) /\ p = m[SlotAt(m, f, i - 1)]
    BY <1>0, <1>1, <1>13, <2>1, PointerIn
  <2>4. p \in Blocks BY <1>0, <2>3, DataBlocks DEF Tree, PointToData
  <2>5. w - 1 \in 0..NINDIRECT - 1 BY Sizes
  <2>6. /\ diskaddr(p) + (w - 1) \in Addr /\ diskaddr(p) \in Nat
        /\ blockno(diskaddr(p) + (w - 1)) = p
    BY <2>4, <2>5, WordIn
  <2>7. diskaddr(p) + (w - 1) = diskaddr(p) + w - 1 BY <2>6, Sizes
  <2> QED BY <1>6, <1>13, <2>2, <2>6, <2>7
<1>14. Contents(e, f) = Contents(m, f)
  <2>1. \A i \in 1..k : Pointer(e, f, i - 1) = Pointer(m, f, i - 1) BY <1>11, <1>12
  <2>2. e[SizeAt(f)] = k /\ m[SizeAt(f)] = k BY <1>8, <1>11
  <2>3. \A i \in 1..k : \A w \in 1..NINDIRECT :
          Pointer(m, f, i - 1) # 0 =>
            e[diskaddr(Pointer(m, f, i - 1)) + w - 1] = m[diskaddr(Pointer(m, f, i - 1)) + w - 1]
    BY <1>13
  <2> QED BY <2>1, <2>2, <2>3, ContentsSame
<1> QED BY <1>3, <1>4, <1>14, FileOfSame

LEMMA DurableIn == ASSUME FSInv PROVE FlushIsDurable
<1>1. PICK s : s = Now OBVIOUS
<1>2. Ok(s) /\ s.mem = mem /\ s.disk = disk BY <1>1, NowOk
<1>3. Good(mem) /\ Older(disk, mem) /\ Visible(disk, mem) BY DEF FSInv
<1>4. FsSync(s).disk = mem BY <1>2, SyncOk
<1>5. ASSUME NEW n \in Name, NEW f \in FilesNamed(mem, n)
      PROVE  FileOf(FileFlush(s, f).disk, n) = FileOf(mem, n)
  <2>1. PICK r : r = FileFlush(s, f) OBVIOUS
  <2>2. n \in Nat \ {0} BY Layout
  <2>3. f \in Owners(s.mem)
    <3>1. Tree(mem) /\ InSize(mem) BY <1>3, GoodTree DEF Good
    <3> QED BY <1>2, <3>1, FilesAre DEF FilesNamed, Owners
  <2>4. Carry(s, r) /\ r.mem = mem /\ r.disk = Mix(mem, disk, FlushSet(mem, f))
    BY <1>2, <2>1, <2>3, FlushFileOk
  <2>5. Older(r.disk, mem) /\ Visible(r.disk, mem) BY <1>2, <1>3, <2>4 DEF Carry, Ok
  <2>6. FileOf(r.disk, n) = FileOf(mem, n) BY <1>3, <2>2, <2>4, <2>5, FileFlushed
  <2> QED BY <2>1, <2>6
<1> QED BY <1>1, <1>4, <1>5 DEF FlushIsDurable

-----------------------------------------------------------------------------
(* Unless a request does one of the three things Careful excludes (and no  *)
(* program of the repository writes or truncates "/" or cuts a file other  *)
(* than to nothing), and wherever the machine stopped: nothing points      *)
(* to a block that is free or reserved and no two words point to the same  *)
(* block, in the cache and in what is on the disk; a name stands for one   *)
(* file, and no file that exists is missing from the disk's directory      *)
(* (fs.c: alloc_block, file_block_walk, file_get_block, file_create,       *)
(* file_truncate_blocks, file_flush, fs_sync).                             *)
THEOREM FileSysInvariant == ASSUME Careful PROVE Spec => []FSInv
<1>1. Init => FSInv BY InitFSInv
<1>2. FSInv /\ [Next]_vars => FSInv' BY NextKeeps
<1> QED BY <1>1, <1>2, PTL DEF Spec

(* Two files never share a block, and alloc_block() never hands out one    *)
(* that a file points to, before a request does one of those three things: *)
(* nothing else in fs.c, in any order and after any stop of the machine,   *)
(* leads there.                                                            *)
THEOREM BlocksOwned == ASSUME Careful PROVE Spec => []BlockOwned
<1>1. FSInv => BlockOwned BY OwnedIn
<1> QED BY <1>1, FileSysInvariant, PTL

(* A file that file_flush() has written, and every file after fs_sync(),   *)
(* is on the disk with the contents it has in the cache.                   *)
THEOREM FlushesAreDurable == ASSUME Careful PROVE Spec => []FlushIsDurable
<1>1. FSInv => FlushIsDurable BY DurableIn
<1> QED BY <1>1, FileSysInvariant, PTL
=============================================================================
