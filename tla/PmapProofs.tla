----------------------------- MODULE PmapProofs -----------------------------
(***************************************************************************)
(* Proofs about Pmap for any number of CPUs, environments, addresses and   *)
(* pages, when pp_ref is wide enough to count every word that can point to *)
(* a page (CountsFit) and programs keep to the library's idioms.           *)
(*                                                                         *)
(* The counts are not exact in the middle of a handler: page_alloc takes a *)
(* page from the list before anything points to it, and page_insert counts *)
(* a mapping before it is there.  Exact(m, H, x) is the invariant of those *)
(* states: the pages of H are allocated and nothing points to them yet,    *)
(* and page x is counted once more than it is pointed to.                  *)
(***************************************************************************)
EXTENDS Pmap, FiniteSetTheorems, TLAPS

\* The widest count any page can reach, one more than the words while page_insert
\* replaces a mapping of the same page, is below the modulus.
CountsFit == IsFiniteSet(Place) /\ Cardinality(Place) + 1 < RefMod

Exact(m, H, x) ==
    /\ m \in MemType
    /\ H \subseteq Page
    /\ \A p \in Page :
          /\ m.pp_ref[p] = Cardinality(Refs(m.at, p)) + IF p = x THEN 1 ELSE 0
          /\ p \in m.free <=> (Refs(m.at, p) = {} /\ p \notin H /\ p # x)
          /\ p \in H => Refs(m.at, p) = {} /\ p # x
    /\ m.badfree = {}

\* Storing x in word q, and setting or clearing PTE_W of entry q.
Put(at, q, x) == [at EXCEPT ![q] = x]
Grant(wr, q, perm) == IF perm = "RW" THEN wr \cup {q} ELSE wr \ {q}

-----------------------------------------------------------------------------
(* Places.                                                                 *)

\* The words are told apart by their kind, their environment and their address.
LEMMA PlaceFacts ==
    ASSUME NEW e \in Env, NEW va \in VA
    PROVE  /\ Dir(e) \in Place \ PtePlace
           /\ Tab(e, va) \in Place \ PtePlace
           /\ Pte(e, va) \in PtePlace
           /\ Pte(e, va) \in Place
           /\ Dir(e) # Tab(e, va) /\ Dir(e) # Pte(e, va) /\ Tab(e, va) # Pte(e, va)
           /\ \A f \in Env, vb \in VA :
                 /\ Pte(e, va) = Pte(f, vb) <=> e = f /\ va = vb
                 /\ Dir(e) = Dir(f) <=> e = f
                 /\ Tab(e, va) = Tab(f, vb) => e = f
                 /\ Tab(e, va) # Pte(f, vb) /\ Dir(e) # Pte(f, vb) /\ Dir(f) # Tab(e, va)
           /\ \A f \in Env :
                 /\ Dir(e) \in PlacesOf(f) <=> e = f
                 /\ Tab(e, va) \in PlacesOf(f) <=> e = f
                 /\ Pte(e, va) \in PlacesOf(f) <=> e = f
<1>1. Dir(e) \in PlacesOf(e) /\ Tab(e, va) \in PlacesOf(e) /\ Pte(e, va) \in PlacesOf(e)
  BY DEF PlacesOf
<1>2. Pte(e, va) \in PtePlace /\ Dir(e) \notin PtePlace /\ Tab(e, va) \notin PtePlace
  BY DEF PtePlace, Dir, Tab, Pte
<1>3. \A f \in Env : /\ Dir(e) \in PlacesOf(f) => e = f
                     /\ Tab(e, va) \in PlacesOf(f) => e = f
                     /\ Pte(e, va) \in PlacesOf(f) => e = f
  BY DEF PlacesOf, Dir, Tab, Pte
<1>4. /\ Dir(e) # Tab(e, va) /\ Dir(e) # Pte(e, va) /\ Tab(e, va) # Pte(e, va)
      /\ \A f \in Env, vb \in VA :
            /\ Pte(e, va) = Pte(f, vb) <=> e = f /\ va = vb
            /\ Dir(e) = Dir(f) <=> e = f
            /\ Tab(e, va) = Tab(f, vb) => e = f
            /\ Tab(e, va) # Pte(f, vb) /\ Dir(e) # Pte(f, vb) /\ Dir(f) # Tab(e, va)
  BY DEF Dir, Tab, Pte
<1>. QED
  BY <1>1, <1>2, <1>3, <1>4 DEF Place

\* A page directory's word exists for every environment, whatever VA is.
LEMMA DirPlace ==
    ASSUME NEW e \in Env
    PROVE  /\ Dir(e) \in Place \ PtePlace
           /\ \A f \in Env : (Dir(e) = Dir(f) <=> e = f) /\ (Dir(e) \in PlacesOf(f) <=> e = f)
<1>1. Dir(e) \in PlacesOf(e)
  BY DEF PlacesOf
<1>2. Dir(e) \notin PtePlace
  BY DEF PtePlace, Dir, Pte
<1>3. \A f \in Env : (Dir(e) = Dir(f) <=> e = f) /\ (Dir(e) \in PlacesOf(f) => e = f)
  BY DEF PlacesOf, Dir, Tab, Pte
<1>. QED
  BY <1>1, <1>2, <1>3 DEF Place

\* Every page table entry is a word.
LEMMA PtePlaces == PtePlace \subseteq Place
<1>. SUFFICES ASSUME NEW e \in Env, NEW va \in VA
              PROVE  Pte(e, va) \in Place
  BY DEF PtePlace
<1>. QED
  BY PlaceFacts

\* The words that point to a page are finitely many, fewer than pp_ref can count.
LEMMA RefsFinite ==
    ASSUME CountsFit, NEW at, NEW p
    PROVE  /\ IsFiniteSet(Refs(at, p))
           /\ Cardinality(Refs(at, p)) \in Nat
           /\ Cardinality(Refs(at, p)) + 1 < RefMod
           /\ Cardinality(Refs(at, p)) = 0 <=> Refs(at, p) = {}
<1>1. Refs(at, p) \in SUBSET Place
  BY DEF Refs
<1>2. IsFiniteSet(Refs(at, p)) /\ Cardinality(Refs(at, p)) <= Cardinality(Place)
  BY <1>1, FS_Subset DEF CountsFit
<1>3. Cardinality(Refs(at, p)) \in Nat /\ Cardinality(Place) \in Nat
  BY <1>2, FS_CardinalityType DEF CountsFit
<1>4. Cardinality(Refs(at, p)) = 0 <=> Refs(at, p) = {}
  BY <1>2, FS_EmptySet
<1>. QED
  BY <1>2, <1>3, <1>4, PmapAssumption DEF CountsFit

\* Storing a page in a word adds one reference to that page.
LEMMA RefsStore ==
    ASSUME CountsFit, NEW q \in Place, NEW p,
           NEW at \in [Place -> Page \cup {NoPage}]
    PROVE  /\ Refs(Put(at, q, p), p) = Refs(at, p) \cup {q}
           /\ Cardinality(Refs(Put(at, q, p), p)) =
                 Cardinality(Refs(at, p)) + IF at[q] = p THEN 0 ELSE 1
<1>. DEFINE n == Refs(Put(at, q, p), p)
<1>1. n = Refs(at, p) \cup {q}
  BY DEF Refs, Put
<1>2. q \in Refs(at, p) <=> at[q] = p
  BY DEF Refs
<1>3. IsFiniteSet(Refs(at, p)) /\ Cardinality(Refs(at, p)) \in Nat
  BY RefsFinite
<1>4. Cardinality(Refs(at, p) \cup {q}) =
         IF q \in Refs(at, p) THEN Cardinality(Refs(at, p)) ELSE Cardinality(Refs(at, p)) + 1
  BY <1>3, FS_AddElement
<1>5. Cardinality(n) = Cardinality(Refs(at, p) \cup {q})
  BY <1>1, Zenon
<1>. HIDE DEF n
<1>6. Cardinality(n) = Cardinality(Refs(at, p)) + IF at[q] = p THEN 0 ELSE 1
  BY <1>2, <1>3, <1>4, <1>5
<1>. QED
  BY <1>1, <1>6 DEF n

\* Storing something else in a word takes the reference it held away.
LEMMA RefsClear ==
    ASSUME CountsFit, NEW q \in Place, NEW p, NEW x, x # p,
           NEW at \in [Place -> Page \cup {NoPage}]
    PROVE  /\ Refs(Put(at, q, x), p) = Refs(at, p) \ {q}
           /\ Cardinality(Refs(Put(at, q, x), p)) =
                 Cardinality(Refs(at, p)) - IF at[q] = p THEN 1 ELSE 0
<1>. DEFINE n == Refs(Put(at, q, x), p)
<1>1. n = Refs(at, p) \ {q}
  BY DEF Refs, Put
<1>2. q \in Refs(at, p) <=> at[q] = p
  BY DEF Refs
<1>3. IsFiniteSet(Refs(at, p)) /\ Cardinality(Refs(at, p)) \in Nat
  BY RefsFinite
<1>4. Cardinality(Refs(at, p) \ {q}) =
         IF q \in Refs(at, p) THEN Cardinality(Refs(at, p)) - 1 ELSE Cardinality(Refs(at, p))
  BY <1>3, FS_RemoveElement
<1>5. Cardinality(n) = Cardinality(Refs(at, p) \ {q})
  BY <1>1, Zenon
<1>. HIDE DEF n
<1>6. Cardinality(n) = Cardinality(Refs(at, p)) - IF at[q] = p THEN 1 ELSE 0
  BY <1>2, <1>3, <1>4, <1>5
<1>. QED
  BY <1>1, <1>6 DEF n

-----------------------------------------------------------------------------
(* page_alloc, page_free and the two halves of a count.                    *)

\* page_alloc hands out a page nothing points to.
LEMMA ExactAlloc ==
    ASSUME NEW m, NEW H, Exact(m, H, NoPage), NEW p \in m.free
    PROVE  Exact(PageAlloc(m, p), H \cup {p}, NoPage)
BY PmapAssumption DEF Exact, PageAlloc, MemType

\* page_free takes an allocated page back that nothing points to.
LEMMA ExactFree ==
    ASSUME CountsFit, NEW m, NEW H, Exact(m, H, NoPage), NEW p \in H
    PROVE  Exact(PageFree(m, p), H \ {p}, NoPage)
<1>1. p \in Page /\ Refs(m.at, p) = {} /\ p # NoPage
  BY PmapAssumption DEF Exact
<1>2. m.pp_ref[p] = 0 /\ p \notin m.free
  BY <1>1, RefsFinite DEF Exact
<1>. QED
  BY <1>1, <1>2 DEF Exact, PageFree, MemType

\* pp_ref++ on a page in use, or just allocated, does not wrap.
LEMMA ExactIncref ==
    ASSUME CountsFit, NEW m, NEW H, Exact(m, H, NoPage), NEW p \in Page \ m.free
    PROVE  Exact(PageIncref(m, p), H \ {p}, p)
<1>1. p # NoPage
  BY PmapAssumption
<1>2. /\ m.pp_ref[p] = Cardinality(Refs(m.at, p))
      /\ Cardinality(Refs(m.at, p)) \in Nat
      /\ Cardinality(Refs(m.at, p)) + 1 < RefMod
  BY <1>1, RefsFinite DEF Exact
<1>3. Incremented(m.pp_ref[p]) = Cardinality(Refs(m.at, p)) + 1
  BY <1>2, PmapAssumption DEF Incremented
<1>4. Incremented(m.pp_ref[p]) \in 0..(RefMod - 1)
  BY <1>2, <1>3, PmapAssumption
<1>. DEFINE n == PageIncref(m, p)
<1>5. /\ n.at = m.at /\ n.wr = m.wr /\ n.free = m.free /\ n.badfree = m.badfree
      /\ n.pp_ref = [m.pp_ref EXCEPT ![p] = Incremented(@)]
      /\ n \in MemType
  BY <1>4 DEF PageIncref, Exact, MemType
<1>6. \A r \in Page : n.pp_ref[r] = Cardinality(Refs(n.at, r)) + IF r = p THEN 1 ELSE 0
  BY <1>3, <1>5, PmapAssumption DEF Exact, MemType
<1>7. \A r \in Page : /\ r \in n.free <=> (Refs(n.at, r) = {} /\ r \notin H \ {p} /\ r # p)
                      /\ r \in H \ {p} => Refs(n.at, r) = {} /\ r # p
  BY <1>5, PmapAssumption DEF Exact
<1>. QED
  BY <1>5, <1>6, <1>7 DEF Exact

\* Storing the counted page in an empty word makes the counts exact.
LEMMA ExactStore ==
    ASSUME CountsFit, NEW m, NEW H, NEW p \in Page, Exact(m, H, p),
           NEW q \in Place, m.at[q] = NoPage,
           NEW n \in MemType, n.at = Put(m.at, q, p),
           n.pp_ref = m.pp_ref, n.free = m.free, n.badfree = m.badfree
    PROVE  Exact(n, H, NoPage)
<1>1. p # NoPage /\ m.at \in [Place -> Page \cup {NoPage}]
  BY PmapAssumption DEF Exact, MemType
<1>2. ASSUME NEW r \in Page
      PROVE  /\ r = p => Refs(n.at, r) = Refs(m.at, r) \cup {q}
             /\ r # p => Refs(n.at, r) = Refs(m.at, r)
             /\ Cardinality(Refs(n.at, r)) = Cardinality(Refs(m.at, r)) + IF r = p THEN 1 ELSE 0
             /\ r # NoPage
  <2>1. r # NoPage /\ q \notin Refs(m.at, r)
    BY PmapAssumption DEF Refs
  <2>2. Cardinality(Refs(m.at, r)) \in Nat
    BY RefsFinite
  <2>3. CASE r = p
    BY <1>1, <2>1, <2>2, <2>3, RefsStore
  <2>4. CASE r # p
    <3>. DEFINE o == Put(m.at, q, p)
    <3>1. /\ Refs(o, r) = Refs(m.at, r) \ {q}
          /\ Cardinality(Refs(o, r)) = Cardinality(Refs(m.at, r)) - IF m.at[q] = r THEN 1 ELSE 0
      BY <1>1, <2>4, RefsClear
    <3>2. n.at = o
      OBVIOUS
    <3>. HIDE DEF o
    <3>3. Cardinality(Refs(n.at, r)) = Cardinality(Refs(m.at, r))
      BY <2>1, <2>2, <3>1, <3>2
    <3>4. Refs(n.at, r) = Refs(m.at, r)
      BY <2>1, <3>1, <3>2
    <3>. QED
      BY <2>1, <2>2, <2>4, <3>3, <3>4
  <2>. QED
    BY <2>3, <2>4
<1>3. \A r \in Page : n.pp_ref[r] = Cardinality(Refs(n.at, r)) + IF r = NoPage THEN 1 ELSE 0
  <2>. SUFFICES ASSUME NEW r \in Page
                PROVE  n.pp_ref[r] = Cardinality(Refs(n.at, r)) + IF r = NoPage THEN 1 ELSE 0
    OBVIOUS
  <2>1. Cardinality(Refs(m.at, r)) \in Nat
    BY RefsFinite
  <2>2. m.pp_ref[r] = Cardinality(Refs(m.at, r)) + IF r = p THEN 1 ELSE 0
    BY DEF Exact
  <2>. QED
    BY <1>2, <2>1, <2>2
<1>4. \A r \in Page : /\ r \in n.free <=> (Refs(n.at, r) = {} /\ r \notin H /\ r # NoPage)
                      /\ r \in H => Refs(n.at, r) = {} /\ r # NoPage
  BY <1>2 DEF Exact
<1>. QED
  BY <1>3, <1>4 DEF Exact

\* The fields page_decref leaves, when the page is counted at all.
LEMMA DecrefFields ==
    ASSUME NEW m \in MemType, NEW p \in Page, m.pp_ref[p] \in 1..(RefMod - 1), m.badfree = {},
           p \notin m.free
    PROVE  LET n == PageDecref(m, p)
           IN  /\ n \in MemType
               /\ n.at = m.at
               /\ n.wr = m.wr
               /\ n.pp_ref = [m.pp_ref EXCEPT ![p] = @ - 1]
               /\ n.free = IF m.pp_ref[p] = 1 THEN m.free \cup {p} ELSE m.free
               /\ n.badfree = {}
<1>1. Decremented(m.pp_ref[p]) = m.pp_ref[p] - 1 /\ m.pp_ref[p] - 1 \in 0..(RefMod - 1)
  BY PmapAssumption DEF Decremented
<1>. DEFINE k == [m EXCEPT !.pp_ref[p] = Decremented(@)]
<1>2. /\ k \in MemType /\ k.at = m.at /\ k.wr = m.wr /\ k.free = m.free /\ k.badfree = {}
      /\ k.pp_ref = [m.pp_ref EXCEPT ![p] = @ - 1]
  BY <1>1 DEF MemType
<1>3. k.pp_ref[p] = m.pp_ref[p] - 1
  BY <1>2 DEF MemType
<1>4. PageDecref(m, p) = IF k.pp_ref[p] = 0 THEN PageFree(k, p) ELSE k
  BY DEF PageDecref
<1>5. k.pp_ref[p] = 0 <=> m.pp_ref[p] = 1
  BY <1>3
<1>. HIDE DEF k
<1>6. CASE m.pp_ref[p] = 1
  <2>1. k.pp_ref[p] = 0 /\ p \notin k.free
    BY <1>2, <1>5, <1>6
  <2>2. PageFree(k, p) = [k EXCEPT !.free = @ \cup {p}, !.badfree = @]
    BY <2>1 DEF PageFree
  <2>3. PageDecref(m, p) = [k EXCEPT !.free = @ \cup {p}, !.badfree = @]
    BY <1>4, <2>1, <2>2
  <2>. DEFINE o == [k EXCEPT !.free = @ \cup {p}, !.badfree = @]
  <2>4. /\ o \in MemType /\ o.at = k.at /\ o.wr = k.wr /\ o.pp_ref = k.pp_ref
        /\ o.free = k.free \cup {p} /\ o.badfree = k.badfree
    BY <1>2 DEF MemType
  <2>. HIDE DEF o
  <2>5. PageDecref(m, p) = o
    BY <2>3 DEF o
  <2>. QED
    BY <1>2, <1>6, <2>4, <2>5
<1>7. CASE m.pp_ref[p] # 1
  BY <1>2, <1>4, <1>5, <1>7
<1>. QED
  BY <1>6, <1>7

\* What page_remove does to the words, and that it keeps the counts as they should be.
LEMMA ExactRemove ==
    ASSUME CountsFit, NEW m, NEW H, NEW x \in Page \cup {NoPage}, Exact(m, H, x),
           NEW e \in Env, NEW va \in VA, m.at[Pte(e, va)] = NoPage => Pte(e, va) \notin m.wr
    PROVE  /\ Exact(PageRemove(m, e, va), H, x)
           /\ PageRemove(m, e, va).at = Put(m.at, Pte(e, va), NoPage)
           /\ PageRemove(m, e, va).wr = m.wr \ {Pte(e, va)}
<1>. DEFINE q == Pte(e, va)
            p == m.at[q]
            n == PageRemove(m, e, va)
<1>1. q \in PtePlace /\ q \in Place /\ m \in MemType /\ p \in Page \cup {NoPage}
  BY PlaceFacts DEF Exact, MemType
<1>2. CASE p = NoPage
  <2>1. n = m
    BY <1>2 DEF PageRemove, PageLookup
  <2>. QED
    BY <1>1, <1>2, <2>1 DEF MemType, Put
<1>3. CASE p # NoPage
  <2>1. p \in Page /\ q \in Refs(m.at, p)
    BY <1>1, <1>3 DEF Refs
  <2>2. /\ m.pp_ref[p] = Cardinality(Refs(m.at, p)) + IF p = x THEN 1 ELSE 0
        /\ p \notin m.free /\ p \notin H
    BY <2>1 DEF Exact
  <2>3. /\ Cardinality(Refs(m.at, p)) \in Nat \ {0}
        /\ Cardinality(Refs(m.at, p)) + 1 < RefMod
    BY <2>1, RefsFinite
  <2>4. m.pp_ref[p] \in 1..(RefMod - 1)
    BY <2>2, <2>3, PmapAssumption
  <2>. DEFINE k == PageDecref(m, p)
  <2>5. /\ k \in MemType /\ k.at = m.at /\ k.wr = m.wr
        /\ k.pp_ref = [m.pp_ref EXCEPT ![p] = @ - 1]
        /\ k.free = IF m.pp_ref[p] = 1 THEN m.free \cup {p} ELSE m.free
        /\ k.badfree = {}
    BY <1>1, <2>1, <2>2, <2>4, DecrefFields DEF Exact
  <2>6. n = [k EXCEPT !.at[q] = NoPage, !.wr = @ \ {q}]
    BY <1>3 DEF PageRemove, PageLookup
  <2>. HIDE DEF k, n
  <2>7. /\ n \in MemType /\ n.at = Put(m.at, q, NoPage) /\ n.wr = m.wr \ {q}
        /\ n.pp_ref = k.pp_ref /\ n.free = k.free /\ n.badfree = {}
    <3>1. /\ k.at = m.at /\ k.at \in [Place -> Page \cup {NoPage}]
          /\ k.wr = m.wr /\ k.wr \in SUBSET PtePlace
      BY <2>5 DEF MemType
    <3>2. /\ n.at = [k.at EXCEPT ![q] = NoPage] /\ n.wr = k.wr \ {q}
          /\ n.pp_ref = k.pp_ref /\ n.free = k.free /\ n.badfree = k.badfree
      BY <2>5, <2>6 DEF MemType
    <3>3. n.at \in [Place -> Page \cup {NoPage}] /\ n.wr \in SUBSET PtePlace
      BY <3>1, <3>2
    <3>4. n = [at |-> n.at, wr |-> n.wr, pp_ref |-> n.pp_ref, free |-> n.free,
               badfree |-> n.badfree]
      BY <2>5, <2>6 DEF MemType
    <3>5. k.pp_ref \in [Page -> 0..(RefMod - 1)] /\ k.free \in SUBSET Page
          /\ k.badfree = {}
      BY <2>5 DEF MemType
    <3>6. n \in MemType
      BY <3>2, <3>3, <3>4, <3>5 DEF MemType
    <3> QED
      BY <2>5, <3>1, <3>2, <3>6 DEF Put
  <2>8. ASSUME NEW r \in Page
        PROVE  /\ Refs(n.at, r) = Refs(m.at, r) \ {q}
               /\ Cardinality(Refs(n.at, r)) = Cardinality(Refs(m.at, r)) - IF r = p THEN 1 ELSE 0
               /\ Cardinality(Refs(m.at, r)) \in Nat
               /\ r # p => q \notin Refs(m.at, r)
               /\ Cardinality(Refs(n.at, r)) = 0 <=> Refs(n.at, r) = {}
    <3>1. r # NoPage /\ m.at \in [Place -> Page \cup {NoPage}] /\ NoPage \in Page \cup {NoPage}
      BY <1>1, PmapAssumption DEF MemType
    <3>. DEFINE o == Put(m.at, q, NoPage)
    <3>0. /\ Refs(o, r) = Refs(m.at, r) \ {q}
          /\ Cardinality(Refs(o, r)) =
                Cardinality(Refs(m.at, r)) - IF m.at[q] = r THEN 1 ELSE 0
      BY <1>1, <3>1, RefsClear
    <3>. HIDE DEF o
    <3>2. /\ Refs(n.at, r) = Refs(m.at, r) \ {q}
          /\ Cardinality(Refs(n.at, r)) =
                Cardinality(Refs(m.at, r)) - IF m.at[q] = r THEN 1 ELSE 0
      BY <2>7, <3>0 DEF o
    <3>3. Cardinality(Refs(m.at, r)) \in Nat
      BY RefsFinite
    <3>4. Cardinality(Refs(n.at, r)) = 0 <=> Refs(n.at, r) = {}
      BY RefsFinite
    <3>5. r # p => q \notin Refs(m.at, r)
      BY DEF Refs
    <3>. QED
      BY <3>1, <3>2, <3>3, <3>4, <3>5
  <2>9. ASSUME NEW r \in Page
        PROVE  /\ n.pp_ref[r] = Cardinality(Refs(n.at, r)) + IF r = x THEN 1 ELSE 0
               /\ r \in n.free <=> (Refs(n.at, r) = {} /\ r \notin H /\ r # x)
               /\ r \in H => Refs(n.at, r) = {} /\ r # x
    <3>1. /\ m.pp_ref[r] = Cardinality(Refs(m.at, r)) + IF r = x THEN 1 ELSE 0
          /\ r \in m.free <=> (Refs(m.at, r) = {} /\ r \notin H /\ r # x)
          /\ r \in H => Refs(m.at, r) = {} /\ r # x
          /\ m.pp_ref \in [Page -> 0..(RefMod - 1)]
      BY DEF Exact, MemType
    <3>2. CASE r # p
      <4>1. n.pp_ref[r] = m.pp_ref[r] /\ (r \in n.free <=> r \in m.free)
        BY <2>5, <2>7, <3>1, <3>2
      <4>2. Refs(n.at, r) = Refs(m.at, r)
        BY <2>8, <3>2
      <4>. QED
        BY <3>1, <4>1, <4>2
    <3>3. CASE r = p
      <4>1. n.pp_ref[r] = m.pp_ref[r] - 1
        BY <2>1, <2>5, <2>7, <3>1, <3>3
      <4>2. r \in n.free <=> m.pp_ref[r] = 1
        BY <2>2, <2>5, <2>7, <3>3
      <4>3. r \notin H
        BY <2>2, <3>3
      <4>4. Cardinality(Refs(n.at, r)) = Cardinality(Refs(m.at, r)) - 1
        BY <2>8, <3>3
      <4>5. Cardinality(Refs(m.at, r)) \in Nat \ {0}
        BY <2>3, <3>3
      <4>6. n.pp_ref[r] = Cardinality(Refs(n.at, r)) + IF r = x THEN 1 ELSE 0
        BY <3>1, <4>1, <4>4, <4>5
      <4>7. m.pp_ref[r] = 1 <=> (Refs(n.at, r) = {} /\ r # x)
        BY <2>8, <3>1, <4>4, <4>5
      <4>. QED
        BY <4>2, <4>3, <4>6, <4>7
    <3>. QED
      BY <3>2, <3>3
  <2>10. Exact(n, H, x)
    BY <2>7, <2>9 DEF Exact
  <2>. QED
    BY <2>7, <2>10 DEF n
<1>. QED
  BY <1>2, <1>3
-----------------------------------------------------------------------------
(* pgdir_walk and page_insert.                                             *)

\* The shape of the page tables: directories and tables are private, entries hang
\* under a table and a directory, and only entries that are present are writable.
Shape(m) ==
    /\ \A q \in Place \ PtePlace : m.at[q] # NoPage => Refs(m.at, m.at[q]) = {q}
    /\ \A e \in Env, va \in VA :
          /\ m.at[Pte(e, va)] # NoPage => m.at[Tab(e, va)] # NoPage
          /\ m.at[Tab(e, va)] # NoPage => m.at[Dir(e)] # NoPage
    /\ \A q \in m.wr : m.at[q] # NoPage

\* A page that was just allocated, counted and stored in an empty word.
LEMMA ExactNew ==
    ASSUME CountsFit, NEW m, NEW H, Exact(m, H, NoPage), NEW t \in m.free,
           NEW q \in Place, m.at[q] = NoPage
    PROVE  LET n == [PageIncref(PageAlloc(m, t), t) EXCEPT !.at[q] = t]
           IN  /\ Exact(n, H, NoPage)
               /\ n.at = Put(m.at, q, t)
               /\ n.wr = m.wr
               /\ n.free = m.free \ {t}
<1>. DEFINE a == PageAlloc(m, t)
            b == PageIncref(a, t)
            n == [b EXCEPT !.at[q] = t]
<1>1. t \in Page /\ t \notin H /\ m \in MemType
  BY DEF Exact, MemType
<1>2. Exact(a, H \cup {t}, NoPage) /\ a.at = m.at /\ a.wr = m.wr /\ a.free = m.free \ {t}
  BY <1>1, ExactAlloc DEF PageAlloc, MemType
<1>. HIDE DEF a
<1>3. Exact(b, H, t)
  <2>1. Exact(b, (H \cup {t}) \ {t}, t)
    BY <1>1, <1>2, ExactIncref
  <2>2. (H \cup {t}) \ {t} = H
    BY <1>1
  <2>. QED
    BY <2>1, <2>2, Zenon
<1>4. b.at = a.at /\ b.wr = a.wr /\ b.free = a.free
  BY <1>2 DEF PageIncref, Exact, MemType
<1>. HIDE DEF b
<1>6. /\ n \in MemType /\ n.at = Put(b.at, q, t) /\ n.pp_ref = b.pp_ref
      /\ n.free = b.free /\ n.badfree = b.badfree /\ n.wr = b.wr
  BY <1>1, <1>3 DEF Exact, MemType, Put
<1>. HIDE DEF n
<1>7. Exact(n, H, NoPage)
  BY <1>1, <1>2, <1>3, <1>4, <1>6, ExactStore
<1>. QED
  BY <1>2, <1>4, <1>6, <1>7 DEF a, b, n

\* pgdir_walk gives the address a page table and leaves everything else alone.
LEMMA WithTableOK ==
    ASSUME CountsFit, NEW m, NEW H, Exact(m, H, NoPage),
           NEW e \in Env, NEW va \in VA, NEW t \in PgdirWalk(m, e, va)
    PROVE  LET n == WithTable(m, e, va, t)
           IN  /\ Exact(n, H, NoPage)
               /\ n.at = Put(m.at, Tab(e, va), t)
               /\ n.wr = m.wr
               /\ n.free \subseteq m.free
               /\ t \in Page
<1>1. Tab(e, va) \in Place /\ m \in MemType
  BY PlaceFacts DEF Exact
<1>2. CASE m.at[Tab(e, va)] # NoPage
  <2>1. t = m.at[Tab(e, va)] /\ WithTable(m, e, va, t) = m
    BY <1>2 DEF PgdirWalk, WithTable
  <2>. QED
    BY <1>1, <1>2, <2>1 DEF MemType, Put
<1>3. CASE m.at[Tab(e, va)] = NoPage
  <2>1. t \in m.free /\ t \in Page
    BY <1>1, <1>3 DEF PgdirWalk, MemType
  <2>2. WithTable(m, e, va, t) = [PageIncref(PageAlloc(m, t), t) EXCEPT !.at[Tab(e, va)] = t]
    BY <1>3 DEF WithTable
  <2>. QED
    BY <1>1, <1>3, <2>1, <2>2, ExactNew
<1>. QED
  BY <1>2, <1>3

\* page_insert keeps the counts exact, whatever was mapped at the address before,
\* the same page included.
LEMMA InsertExact ==
    ASSUME CountsFit, NEW m, NEW H, Exact(m, H, NoPage), Shape(m),
           NEW e \in Env, NEW va \in VA, NEW t \in PgdirWalk(m, e, va),
           NEW p \in Page \ m.free, NEW perm \in Access
    PROVE  /\ Exact(PageInsert(m, e, va, p, p, perm, t), H \ {p}, NoPage)
           /\ PageInsert(m, e, va, p, p, perm, t).at =
                 Put(Put(m.at, Tab(e, va), t), Pte(e, va), p)
           /\ PageInsert(m, e, va, p, p, perm, t).wr =
                 Grant(m.wr, Pte(e, va), perm)
<1>. DEFINE q == Pte(e, va)
            a == WithTable(m, e, va, t)
            b == PageIncref(a, p)
            d == PageRemove(b, e, va)
            n == PageInsert(m, e, va, p, p, perm, t)
<1>1. q \in Place /\ q \in PtePlace /\ Tab(e, va) # q /\ Tab(e, va) \in Place \ PtePlace
  BY PlaceFacts
<1>2. /\ Exact(a, H, NoPage) /\ a.at = Put(m.at, Tab(e, va), t) /\ a.wr = m.wr
      /\ p \notin a.free /\ m \in MemType
  <2>1. /\ Exact(a, H, NoPage) /\ a.at = Put(m.at, Tab(e, va), t) /\ a.wr = m.wr
        /\ a.free \subseteq m.free
    BY WithTableOK
  <2>. QED
    BY <2>1 DEF Exact
<1>. HIDE DEF a
<1>3. Exact(b, H \ {p}, p) /\ b.at = a.at /\ b.wr = a.wr
  <2>1. b.at = a.at /\ b.wr = a.wr
    BY <1>2 DEF PageIncref, Exact, MemType
  <2>2. p \in Page \ a.free
    BY <1>2
  <2>3. Exact(b, H \ {p}, p)
    BY <1>2, <2>2, ExactIncref
  <2>. QED
    BY <2>1, <2>3
<1>. HIDE DEF b
<1>4. b.at[q] = NoPage => q \notin b.wr
  BY <1>1, <1>2, <1>3 DEF Shape, MemType, Put
<1>5. /\ Exact(d, H \ {p}, p)
      /\ d.at = Put(b.at, q, NoPage)
      /\ d.wr = b.wr \ {q}
  BY <1>3, <1>4, ExactRemove
<1>. HIDE DEF d
<1>6. n = [d EXCEPT !.at[q] = p, !.wr = IF perm = "RW" THEN @ \cup {q} ELSE @ \ {q}]
  BY DEF PageInsert, a, b, d
<1>. HIDE DEF n
<1>7. /\ n \in MemType /\ n.at = Put(d.at, q, p) /\ n.pp_ref = d.pp_ref
      /\ n.free = d.free /\ n.badfree = d.badfree
      /\ n.wr = Grant(d.wr, q, perm)
  BY <1>1, <1>5, <1>6 DEF Exact, MemType, Put, Grant
<1>8. d.at[q] = NoPage
  BY <1>1, <1>3, <1>5 DEF Exact, MemType, Put
<1>9. Exact(n, H \ {p}, NoPage)
  BY <1>1, <1>5, <1>7, <1>8, ExactStore
<1>10. n.at = Put(Put(m.at, Tab(e, va), t), q, p)
  BY <1>1, <1>2, <1>3, <1>5, <1>7 DEF Exact, MemType, Put
<1>11. n.wr = Grant(m.wr, q, perm)
  BY <1>2, <1>3, <1>5, <1>7 DEF Grant
<1>. QED
  BY <1>9, <1>10, <1>11 DEF n

\* A page that serves as a directory or table is not one that gets mapped.
Ordinary(m, p) == p \in Page \ m.free /\ \A q \in Place \ PtePlace : m.at[q] # p

\* page_insert of an ordinary page keeps directories and tables private.
LEMMA InsertShape ==
    ASSUME CountsFit, NEW m, NEW H, Exact(m, H, NoPage), Shape(m),
           NEW e \in Env, NEW va \in VA, NEW t \in PgdirWalk(m, e, va),
           m.at[Dir(e)] # NoPage, NEW p, Ordinary(m, p), NEW perm \in Access
    PROVE  Shape(PageInsert(m, e, va, p, p, perm, t))
<1>0. p \in Page \ m.free
  BY DEF Ordinary
<1>1. /\ Exact(PageInsert(m, e, va, p, p, perm, t), H \ {p}, NoPage)
      /\ PageInsert(m, e, va, p, p, perm, t).at =
            Put(Put(m.at, Tab(e, va), t), Pte(e, va), p)
      /\ PageInsert(m, e, va, p, p, perm, t).wr =
            Grant(m.wr, Pte(e, va), perm)
  BY <1>0, InsertExact
<1>. DEFINE n == PageInsert(m, e, va, p, p, perm, t)
            q == Pte(e, va)
            tab == Tab(e, va)
<1>a. /\ n.at = Put(Put(m.at, tab, t), q, p)
      /\ n.wr = Grant(m.wr, q, perm)
  BY <1>1
<1>. HIDE DEF n
<1>2. /\ m.at \in [Place -> Page \cup {NoPage}] /\ m.wr \subseteq PtePlace
      /\ p \in Page /\ p # NoPage
  BY PmapAssumption DEF Exact, MemType, Ordinary
<1>3. /\ tab \in Place \ PtePlace /\ q \in PtePlace /\ q \in Place /\ tab # q
      /\ Dir(e) \in Place \ PtePlace /\ Dir(e) # tab /\ Dir(e) # q
  BY PlaceFacts
<1>4. t \in Page /\ t # NoPage
  BY <1>2, <1>3, PmapAssumption DEF PgdirWalk, Exact, MemType
<1>5. (m.at[tab] = NoPage /\ Refs(m.at, t) = {} /\ t # p) \/ m.at[tab] = t
  BY <1>4 DEF PgdirWalk, Exact, Ordinary
<1>6. ASSUME NEW u \in Place \ PtePlace, n.at[u] # NoPage
      PROVE  Refs(n.at, n.at[u]) = {u}
  <2>1. CASE u = tab
    <3>1. n.at[u] = t /\ t # p
      BY <1>a, <1>2, <1>3, <1>5, <2>1 DEF Ordinary, Put
    <3>2. Refs(m.at, t) \subseteq {tab}
      BY <1>2, <1>4, <1>5, <1>3 DEF Shape
    <3>. QED
      BY <1>a, <1>2, <1>3, <2>1, <3>1, <3>2 DEF Refs, Put
  <2>2. CASE u # tab
    <3>1. n.at[u] = m.at[u] /\ m.at[u] # p /\ Refs(m.at, m.at[u]) = {u}
      BY <1>a, <1>2, <1>3, <1>6, <2>2 DEF Shape, Ordinary, Put
    <3>2. m.at[u] # t
      <4>1. u \in Refs(m.at, m.at[u])
        BY <3>1
      <4>2. CASE m.at[tab] = t
        <5>1. tab \in Refs(m.at, t)
          BY <1>3, <4>2 DEF Refs
        <5>. QED
          BY <2>2, <3>1, <5>1
      <4>. QED
        BY <1>5, <4>1, <4>2
    <3>. QED
      BY <1>a, <1>2, <1>3, <3>1, <3>2 DEF Refs, Put
  <2>. QED
    BY <2>1, <2>2
<1>7. ASSUME NEW f \in Env, NEW vb \in VA
      PROVE  /\ n.at[Pte(f, vb)] # NoPage => n.at[Tab(f, vb)] # NoPage
             /\ n.at[Tab(f, vb)] # NoPage => n.at[Dir(f)] # NoPage
  <2>1. /\ Pte(f, vb) \in Place /\ Tab(f, vb) \in Place /\ Dir(f) \in Place
        /\ Tab(f, vb) # q /\ Dir(f) # q /\ Dir(f) # tab
        /\ Pte(f, vb) = q => f = e /\ vb = va
        /\ Tab(f, vb) = tab => f = e
        /\ Pte(f, vb) # tab
    BY PlaceFacts
  <2>2. /\ m.at[Pte(f, vb)] # NoPage => m.at[Tab(f, vb)] # NoPage
        /\ m.at[Tab(f, vb)] # NoPage => m.at[Dir(f)] # NoPage
    BY DEF Shape
  <2>. QED
    BY <1>a, <1>2, <1>3, <1>4, <2>1, <2>2 DEF Put
<1>8. ASSUME NEW u \in n.wr
      PROVE  n.at[u] # NoPage
  <2>1. u = q \/ u \in m.wr
    BY <1>a DEF Grant
  <2>2. u \in m.wr => m.at[u] # NoPage /\ u \in PtePlace /\ u # tab
    BY <1>2, <1>3 DEF Shape
  <2>3. u \in Place
    BY <1>2, <1>3, <2>1, PtePlaces
  <2>. QED
    BY <1>a, <1>2, <1>3, <2>1, <2>2, <2>3 DEF Put
<1>9. Shape(n)
  BY <1>6, <1>7, <1>8 DEF Shape
<1>. QED
  BY <1>9 DEF n
-----------------------------------------------------------------------------
(* env_setup_vm and env_free.                                              *)

\* A new page directory.
LEMMA SetupOK ==
    ASSUME CountsFit, NEW m, Exact(m, {}, NoPage), Shape(m),
           NEW e \in Env, m.at[Dir(e)] = NoPage, NEW p \in m.free
    PROVE  /\ Exact(EnvSetupVm(m, e, p), {}, NoPage)
           /\ Shape(EnvSetupVm(m, e, p))
           /\ EnvSetupVm(m, e, p).at = Put(m.at, Dir(e), p)
           /\ EnvSetupVm(m, e, p).wr = m.wr
<1>. DEFINE n == EnvSetupVm(m, e, p)
<1>1. Dir(e) \in Place \ PtePlace
  BY DirPlace
<1>2. /\ Exact(n, {}, NoPage)
      /\ n.at = Put(m.at, Dir(e), p)
      /\ n.wr = m.wr
  BY <1>1, ExactNew DEF EnvSetupVm
<1>. HIDE DEF n
<1>3. /\ m.at \in [Place -> Page \cup {NoPage}] /\ m.wr \subseteq PtePlace
      /\ p \in Page /\ p # NoPage /\ Refs(m.at, p) = {}
  BY PmapAssumption DEF Exact, MemType
<1>4. ASSUME NEW u \in Place \ PtePlace, n.at[u] # NoPage
      PROVE  Refs(n.at, n.at[u]) = {u}
  <2>1. CASE u = Dir(e)
    BY <1>1, <1>2, <1>3, <2>1 DEF Refs, Put
  <2>2. CASE u # Dir(e)
    <3>1. n.at[u] = m.at[u] /\ Refs(m.at, m.at[u]) = {u}
      BY <1>1, <1>2, <1>3, <1>4, <2>2 DEF Shape, Put
    <3>2. m.at[u] # p
      BY <1>3, <3>1
    <3>. QED
      BY <1>1, <1>2, <1>3, <2>2, <3>1, <3>2 DEF Refs, Put
  <2>. QED
    BY <2>1, <2>2
<1>5. ASSUME NEW f \in Env, NEW vb \in VA
      PROVE  /\ n.at[Pte(f, vb)] # NoPage => n.at[Tab(f, vb)] # NoPage
             /\ n.at[Tab(f, vb)] # NoPage => n.at[Dir(f)] # NoPage
  <2>1. /\ Pte(f, vb) \in Place /\ Tab(f, vb) \in Place /\ Dir(f) \in Place
        /\ Tab(f, vb) # Dir(e) /\ Pte(f, vb) # Dir(e)
    BY PlaceFacts, DirPlace
  <2>. QED
    BY <1>2, <1>3, <2>1 DEF Put, Shape
<1>6. ASSUME NEW u \in n.wr
      PROVE  n.at[u] # NoPage
  <2>1. u \in m.wr /\ u \in PtePlace /\ u \in Place /\ u # Dir(e)
    BY <1>1, <1>2, <1>3, PtePlaces
  <2>. QED
    BY <1>2, <1>3, <2>1 DEF Put, Shape
<1>7. Shape(n)
  BY <1>4, <1>5, <1>6 DEF Shape
<1>. QED
  BY <1>2, <1>7 DEF n

\* What env_free leaves: the words of e are empty and every other word is as it was.
LEMMA FreeOK ==
    ASSUME CountsFit, NEW m, Exact(m, {}, NoPage), Shape(m), NEW e \in Env
    PROVE  /\ Exact(EnvFree(m, e), {}, NoPage)
           /\ Shape(EnvFree(m, e))
           /\ \A q \in Place : EnvFree(m, e).at[q] =
                                   IF q \in PlacesOf(e) THEN NoPage ELSE m.at[q]
           /\ EnvFree(m, e).wr = m.wr \ PlacesOf(e)
<1>. DEFINE mine(p) == {q \in PlacesOf(e) : m.at[q] = p}
            freed == {p \in Page : m.pp_ref[p] \in 1..Cardinality(mine(p))}
            n == EnvFree(m, e)
<1>1. /\ m \in MemType /\ m.at \in [Place -> Page \cup {NoPage}] /\ m.wr \subseteq PtePlace
      /\ m.pp_ref \in [Page -> 0..(RefMod - 1)] /\ m.free \subseteq Page /\ m.badfree = {}
  BY DEF Exact, MemType
<1>2. /\ n.at = [q \in Place |-> IF q \in PlacesOf(e) THEN NoPage ELSE m.at[q]]
      /\ n.wr = m.wr \ PlacesOf(e)
      /\ n.pp_ref = [p \in Page |-> IF m.pp_ref[p] >= Cardinality(mine(p))
                                      THEN m.pp_ref[p] - Cardinality(mine(p))
                                      ELSE m.pp_ref[p] - Cardinality(mine(p)) + RefMod]
      /\ n.free = m.free \cup freed
      /\ n.badfree = m.badfree \cup (freed \cap m.free)
      /\ n = [at |-> n.at, wr |-> n.wr, pp_ref |-> n.pp_ref, free |-> n.free,
              badfree |-> n.badfree]
  BY DEF EnvFree
<1>. HIDE DEF n
<1>3. PlacesOf(e) \subseteq Place
  BY DEF Place
<1>4. ASSUME NEW p \in Page
      PROVE  /\ Refs(n.at, p) = Refs(m.at, p) \ PlacesOf(e)
             /\ Cardinality(mine(p)) \in Nat
             /\ Cardinality(Refs(m.at, p)) \in Nat
             /\ Cardinality(Refs(n.at, p)) \in Nat
             /\ Cardinality(Refs(m.at, p)) = Cardinality(Refs(n.at, p)) + Cardinality(mine(p))
             /\ m.pp_ref[p] = Cardinality(Refs(m.at, p))
             /\ Cardinality(Refs(n.at, p)) = 0 <=> Refs(n.at, p) = {}
             /\ Cardinality(Refs(m.at, p)) = 0 <=> Refs(m.at, p) = {}
             /\ Cardinality(mine(p)) = 0 <=> mine(p) = {}
  <2>0. p # NoPage
    BY PmapAssumption
  <2>1. Refs(n.at, p) = Refs(m.at, p) \ PlacesOf(e)
    BY <1>2, <2>0 DEF Refs
  <2>2. mine(p) = Refs(m.at, p) \ Refs(n.at, p) /\ Refs(n.at, p) \subseteq Refs(m.at, p)
    BY <1>3, <2>1 DEF Refs
  <2>3. IsFiniteSet(Refs(m.at, p)) /\ IsFiniteSet(Refs(n.at, p))
    BY RefsFinite
  <2>4. IsFiniteSet(mine(p))
    BY <2>2, <2>3, FS_Subset
  <2>5. Refs(m.at, p) = Refs(n.at, p) \cup mine(p) /\ Refs(n.at, p) \cap mine(p) = {}
    BY <2>2
  <2>. HIDE DEF mine
  <2>6. Cardinality(Refs(n.at, p) \cup mine(p)) =
          Cardinality(Refs(n.at, p)) + Cardinality(mine(p)) - Cardinality(Refs(n.at, p) \cap mine(p))
    BY <2>3, <2>4, FS_Union
  <2>7. Cardinality(Refs(n.at, p) \cap mine(p)) = 0
    <3>1. Cardinality({}) = 0
      BY FS_EmptySet
    <3>. QED
      BY <2>5, <3>1, Zenon
  <2>8. Cardinality(Refs(m.at, p)) = Cardinality(Refs(n.at, p) \cup mine(p))
    BY <2>5, Zenon
  <2>9. /\ Cardinality(mine(p)) \in Nat
        /\ Cardinality(Refs(m.at, p)) \in Nat
        /\ Cardinality(Refs(n.at, p)) \in Nat
    BY <2>3, <2>4, FS_CardinalityType
  <2>10. Cardinality(Refs(m.at, p)) = Cardinality(Refs(n.at, p)) + Cardinality(mine(p))
    BY <2>6, <2>7, <2>8, <2>9
  <2>11. /\ Cardinality(Refs(n.at, p)) = 0 <=> Refs(n.at, p) = {}
         /\ Cardinality(Refs(m.at, p)) = 0 <=> Refs(m.at, p) = {}
         /\ Cardinality(mine(p)) = 0 <=> mine(p) = {}
    BY <2>3, <2>4, FS_EmptySet
  <2>12. m.pp_ref[p] = Cardinality(Refs(m.at, p))
    BY <2>0, <2>9 DEF Exact
  <2>. QED
    BY <2>1, <2>9, <2>10, <2>11, <2>12
<1>5. ASSUME NEW p \in Page
      PROVE  /\ n.pp_ref[p] = Cardinality(Refs(n.at, p))
             /\ n.pp_ref[p] \in 0..(RefMod - 1)
             /\ p \in n.free <=> Refs(n.at, p) = {}
             /\ p \notin freed \cap m.free
  <2>. HIDE DEF mine
  <2>0. n.pp_ref[p] = IF m.pp_ref[p] >= Cardinality(mine(p))
                        THEN m.pp_ref[p] - Cardinality(mine(p))
                        ELSE m.pp_ref[p] - Cardinality(mine(p)) + RefMod
    BY <1>2, Zenon
  <2>1. n.pp_ref[p] = m.pp_ref[p] - Cardinality(mine(p))
    <3>1. m.pp_ref[p] >= Cardinality(mine(p))
      BY <1>4
    <3>. QED
      BY <2>0, <3>1
  <2>2. n.pp_ref[p] = Cardinality(Refs(n.at, p))
    BY <1>4, <2>1
  <2>3. m.pp_ref[p] \in 0..(RefMod - 1)
    BY <1>1
  <2>4. n.pp_ref[p] \in 0..(RefMod - 1)
    BY <1>4, <2>1, <2>2, <2>3, PmapAssumption
  <2>5. p \in freed <=> Cardinality(Refs(m.at, p)) # 0 /\ Cardinality(Refs(n.at, p)) = 0
    BY <1>4
  <2>6. p \in m.free <=> Cardinality(Refs(m.at, p)) = 0
    <3>1. p \in m.free <=> Refs(m.at, p) = {}
      BY PmapAssumption DEF Exact
    <3>. QED
      BY <1>4, <3>1
  <2>7. Cardinality(Refs(m.at, p)) = 0 => Cardinality(Refs(n.at, p)) = 0
    BY <1>4
  <2>8. p \in n.free <=> Cardinality(Refs(n.at, p)) = 0
    BY <1>2, <2>5, <2>6, <2>7
  <2>. QED
    BY <1>4, <2>2, <2>4, <2>5, <2>6, <2>8
<1>6. n \in MemType
  <2>1. n.at \in [Place -> Page \cup {NoPage}] /\ n.wr \subseteq PtePlace
    BY <1>1, <1>2
  <2>2. n.free \subseteq Page /\ n.badfree \subseteq Page
    BY <1>1, <1>2
  <2>3. n.pp_ref \in [Page -> 0..(RefMod - 1)]
    <3>. HIDE DEF mine
    <3>. QED
      BY <1>2, <1>5
  <2>. QED
    BY <1>2, <2>1, <2>2, <2>3 DEF MemType
<1>7. n.badfree = {}
  BY <1>1, <1>2, <1>5
<1>8. Exact(n, {}, NoPage)
  <2>1. \A p \in Page :
           /\ n.pp_ref[p] = Cardinality(Refs(n.at, p)) + IF p = NoPage THEN 1 ELSE 0
           /\ p \in n.free <=> (Refs(n.at, p) = {} /\ p \notin {} /\ p # NoPage)
    <3>. SUFFICES ASSUME NEW p \in Page
                  PROVE  /\ n.pp_ref[p] = Cardinality(Refs(n.at, p)) + IF p = NoPage THEN 1 ELSE 0
                         /\ p \in n.free <=> (Refs(n.at, p) = {} /\ p \notin {} /\ p # NoPage)
      OBVIOUS
    <3>1. p # NoPage
      BY PmapAssumption
    <3>2. Cardinality(Refs(n.at, p)) \in Nat
      BY RefsFinite
    <3>3. n.pp_ref[p] = Cardinality(Refs(n.at, p)) /\ (p \in n.free <=> Refs(n.at, p) = {})
      BY <1>5
    <3>. HIDE DEF freed, mine
    <3>. QED
      BY <3>1, <3>2, <3>3
  <2>. QED
    BY <1>6, <1>7, <2>1 DEF Exact
<1>9. \A q \in Place : n.at[q] = IF q \in PlacesOf(e) THEN NoPage ELSE m.at[q]
  BY <1>2
<1>10. Shape(n)
  <2>1. ASSUME NEW u \in Place \ PtePlace, n.at[u] # NoPage
        PROVE  Refs(n.at, n.at[u]) = {u}
    <3>1. n.at[u] = m.at[u] /\ u \notin PlacesOf(e) /\ Refs(m.at, m.at[u]) = {u}
      BY <1>9, <2>1 DEF Shape
    <3>. QED
      BY <1>9, <2>1, <3>1 DEF Refs
  <2>2. ASSUME NEW f \in Env, NEW va \in VA
        PROVE  /\ n.at[Pte(f, va)] # NoPage => n.at[Tab(f, va)] # NoPage
               /\ n.at[Tab(f, va)] # NoPage => n.at[Dir(f)] # NoPage
    <3>1. /\ Pte(f, va) \in Place /\ Tab(f, va) \in Place /\ Dir(f) \in Place
          /\ Dir(f) \in PlacesOf(e) <=> e = f
          /\ Tab(f, va) \in PlacesOf(e) <=> e = f
          /\ Pte(f, va) \in PlacesOf(e) <=> e = f
      BY PlaceFacts
    <3>. QED
      BY <1>9, <3>1 DEF Shape
  <2>3. ASSUME NEW u \in n.wr
        PROVE  n.at[u] # NoPage
    <3>1. u \in m.wr /\ u \notin PlacesOf(e) /\ u \in Place
      BY <1>1, <1>2, PtePlaces
    <3>. QED
      BY <1>9, <3>1 DEF Shape
  <2>. QED
    BY <2>1, <2>2, <2>3 DEF Shape
<1>. QED
  BY <1>2, <1>8, <1>9, <1>10 DEF n
-----------------------------------------------------------------------------
(* What a handler did to memory, seen from the environments.               *)

\* The invariant of memory between two handlers.
GoodMem(m) == Exact(m, {}, NoPage) /\ Shape(m)

\* Only the address space of e may differ.
Kept(m, n, e) ==
    \A f \in Env \ {e} :
        /\ n.at[Dir(f)] = m.at[Dir(f)]
        /\ \A va \in VA : /\ n.at[Pte(f, va)] = m.at[Pte(f, va)]
                          /\ Pte(f, va) \in n.wr <=> Pte(f, va) \in m.wr

\* No page that was mapped read-only everywhere is writable now.
StillReadOnly(m, n) ==
    \A p \in Page : Refs(m.at, p) # {} /\ ~Writable(m, p) => ~Writable(n, p)

\* A handler that changed mappings of e, and no page directory.
Remapped(m, n, e) ==
    /\ GoodMem(n)
    /\ Kept(m, n, e)
    /\ n.at[Dir(e)] = m.at[Dir(e)]
    /\ StillReadOnly(m, n)

\* The page of an entry is in use and not a directory or table.
LEMMA MappedOrdinary ==
    ASSUME NEW m, GoodMem(m), NEW e \in Env, NEW va \in VA, m.at[Pte(e, va)] # NoPage
    PROVE  Ordinary(m, m.at[Pte(e, va)])
<1>. DEFINE q == Pte(e, va)
            p == m.at[q]
<1>1. q \in PtePlace /\ q \in Place
  BY PlaceFacts
<1>2. p \in Page /\ q \in Refs(m.at, p)
  BY <1>1 DEF GoodMem, Exact, MemType, Refs
<1>3. p \notin m.free
  BY <1>2 DEF GoodMem, Exact
<1>4. ASSUME NEW u \in Place \ PtePlace, m.at[u] = p
      PROVE  FALSE
  <2>1. Refs(m.at, m.at[u]) = {u}
    BY <1>4 DEF GoodMem, Shape
  <2>. QED
    BY <1>1, <1>2, <1>4, <2>1
<1>. QED
  BY <1>2, <1>3, <1>4 DEF Ordinary

\* page_insert, in a handler that allocated the pages of H for it.
LEMMA InsertRemaps ==
    ASSUME CountsFit, NEW m, NEW H, Exact(m, H, NoPage), Shape(m),
           NEW e \in Env, NEW va \in VA, NEW t \in PgdirWalk(m, e, va),
           m.at[Dir(e)] # NoPage, NEW p, Ordinary(m, p), NEW perm \in Access,
           H \subseteq {p},
           perm = "RW" => Writable(m, p) \/ Refs(m.at, p) = {}
    PROVE  Remapped(m, PageInsert(m, e, va, p, p, perm, t), e)
<1>. DEFINE n == PageInsert(m, e, va, p, p, perm, t)
            q == Pte(e, va)
            tab == Tab(e, va)
<1>0. p \in Page \ m.free
  BY DEF Ordinary
<1>1. /\ Exact(n, H \ {p}, NoPage)
      /\ n.at = Put(Put(m.at, tab, t), q, p)
      /\ n.wr = Grant(m.wr, q, perm)
  BY <1>0, InsertExact
<1>2. Shape(n)
  BY InsertShape
<1>3. Exact(n, {}, NoPage)
  <2>1. H \ {p} = {}
    OBVIOUS
  <2>. QED
    BY <1>1, <2>1, Zenon
<1>. HIDE DEF n
<1>4. /\ m.at \in [Place -> Page \cup {NoPage}] /\ m.wr \subseteq PtePlace
      /\ tab \in Place \ PtePlace /\ q \in PtePlace /\ q \in Place /\ tab # q
      /\ Dir(e) \in Place /\ Dir(e) # tab /\ Dir(e) # q
  BY PlaceFacts DEF Exact, MemType
<1>5. n.at[Dir(e)] = m.at[Dir(e)]
  BY <1>1, <1>4 DEF Put
<1>6. Kept(m, n, e)
  <2>1. ASSUME NEW f \in Env \ {e}
        PROVE  n.at[Dir(f)] = m.at[Dir(f)]
    <3>1. Dir(f) \in Place /\ Dir(f) # tab /\ Dir(f) # q
      BY PlaceFacts, DirPlace
    <3>. QED
      BY <1>1, <1>4, <3>1 DEF Put
  <2>2. ASSUME NEW f \in Env \ {e}, NEW vb \in VA
        PROVE  /\ n.at[Pte(f, vb)] = m.at[Pte(f, vb)]
               /\ Pte(f, vb) \in n.wr <=> Pte(f, vb) \in m.wr
    <3>1. Pte(f, vb) \in Place /\ Pte(f, vb) # tab /\ Pte(f, vb) # q
      BY PlaceFacts
    <3>. QED
      BY <1>1, <1>4, <3>1 DEF Put, Grant
  <2>. QED
    BY <2>1, <2>2 DEF Kept
<1>7. ASSUME NEW r \in Page, Refs(m.at, r) # {}, NEW u \in n.wr, n.at[u] = r
      PROVE  Writable(m, r)
  <2>1. CASE u = q
    <3>1. r = p
      BY <1>1, <1>4, <1>7, <2>1 DEF Put
    <3>2. perm = "RW"
      <4>1. q \in Grant(m.wr, q, perm)
        BY <1>1, <1>7, <2>1
      <4>. QED
        BY <4>1 DEF Grant
    <3>. QED
      BY <1>7, <3>1, <3>2
  <2>2. CASE u # q
    <3>1. u \in m.wr /\ u \in PtePlace /\ u # tab /\ u \in Place
      BY <1>1, <1>4, <2>2, PtePlaces DEF Grant
    <3>2. m.at[u] = r
      BY <1>1, <1>4, <1>7, <2>2, <3>1 DEF Put
    <3>. QED
      BY <3>1, <3>2 DEF Writable
  <2>. QED
    BY <2>1, <2>2
<1>8. StillReadOnly(m, n)
  BY <1>7 DEF StillReadOnly, Writable
<1>9. Remapped(m, n, e)
  BY <1>2, <1>3, <1>5, <1>6, <1>8 DEF Remapped, GoodMem
<1>. QED
  BY <1>9 DEF n

\* page_remove.
LEMMA RemoveRemaps ==
    ASSUME CountsFit, NEW m, GoodMem(m), NEW e \in Env, NEW va \in VA
    PROVE  Remapped(m, PageRemove(m, e, va), e)
<1>. DEFINE n == PageRemove(m, e, va)
            q == Pte(e, va)
<1>1. /\ m.at \in [Place -> Page \cup {NoPage}] /\ m.wr \subseteq PtePlace
      /\ q \in PtePlace /\ q \in Place /\ Dir(e) \in Place /\ Dir(e) # q
      /\ NoPage \in Page \cup {NoPage}
  BY PlaceFacts DEF GoodMem, Exact, MemType
<1>2. m.at[q] = NoPage => q \notin m.wr
  BY DEF GoodMem, Shape
<1>3. /\ Exact(n, {}, NoPage)
      /\ n.at = Put(m.at, q, NoPage)
      /\ n.wr = m.wr \ {q}
  BY <1>1, <1>2, ExactRemove DEF GoodMem
<1>. HIDE DEF n
<1>4. ASSUME NEW u \in Place \ PtePlace, n.at[u] # NoPage
      PROVE  Refs(n.at, n.at[u]) = {u}
  <2>1. n.at[u] = m.at[u] /\ Refs(m.at, m.at[u]) = {u}
    BY <1>1, <1>3, <1>4 DEF Put, GoodMem, Shape
  <2>. QED
    BY <1>1, <1>3, <1>4, <2>1 DEF Put, Refs
<1>5. ASSUME NEW f \in Env, NEW vb \in VA
      PROVE  /\ n.at[Pte(f, vb)] # NoPage => n.at[Tab(f, vb)] # NoPage
             /\ n.at[Tab(f, vb)] # NoPage => n.at[Dir(f)] # NoPage
  <2>1. /\ Pte(f, vb) \in Place /\ Tab(f, vb) \in Place /\ Dir(f) \in Place
        /\ Tab(f, vb) # q /\ Dir(f) # q
    BY PlaceFacts, DirPlace
  <2>. QED
    BY <1>1, <1>3, <2>1 DEF Put, GoodMem, Shape
<1>6. ASSUME NEW u \in n.wr
      PROVE  u \in m.wr /\ u \in Place /\ n.at[u] = m.at[u] /\ m.at[u] # NoPage
  <2>1. u \in m.wr /\ u \in Place /\ u # q
    BY <1>1, <1>3, PtePlaces
  <2>. QED
    BY <1>1, <1>3, <2>1 DEF Put, GoodMem, Shape
<1>7. Shape(n)
  BY <1>4, <1>5, <1>6 DEF Shape
<1>8. n.at[Dir(e)] = m.at[Dir(e)]
  BY <1>1, <1>3 DEF Put
<1>9. Kept(m, n, e)
  <2>1. ASSUME NEW f \in Env \ {e}
        PROVE  n.at[Dir(f)] = m.at[Dir(f)]
    <3>1. Dir(f) \in Place /\ Dir(f) # q
      BY PlaceFacts, DirPlace
    <3>. QED
      BY <1>1, <1>3, <3>1 DEF Put
  <2>2. ASSUME NEW f \in Env \ {e}, NEW vb \in VA
        PROVE  /\ n.at[Pte(f, vb)] = m.at[Pte(f, vb)]
               /\ Pte(f, vb) \in n.wr <=> Pte(f, vb) \in m.wr
    <3>1. Pte(f, vb) \in Place /\ Pte(f, vb) # q
      BY PlaceFacts
    <3>. QED
      BY <1>1, <1>3, <3>1 DEF Put
  <2>. QED
    BY <2>1, <2>2 DEF Kept
<1>10. StillReadOnly(m, n)
  BY <1>6 DEF StillReadOnly, Writable
<1>11. Remapped(m, n, e)
  BY <1>3, <1>7, <1>8, <1>9, <1>10 DEF Remapped, GoodMem
<1>. QED
  BY <1>11 DEF n

\* page_alloc followed by page_insert, as in sys_page_alloc and region_alloc.
LEMMA AllocRemaps ==
    ASSUME CountsFit, NEW m, GoodMem(m), NEW e \in Env, NEW va \in VA,
           m.at[Dir(e)] # NoPage, NEW p \in m.free, NEW perm \in Access,
           NEW t \in PgdirWalk(PageAlloc(m, p), e, va)
    PROVE  Remapped(m, PageInsert(PageAlloc(m, p), e, va, p, p, perm, t), e)
<1>. DEFINE a == PageAlloc(m, p)
            n == PageInsert(a, e, va, p, p, perm, t)
<1>1. a.at = m.at /\ a.wr = m.wr /\ a.free = m.free \ {p} /\ p \in Page /\ p # NoPage
  BY PmapAssumption DEF PageAlloc, GoodMem, Exact, MemType
<1>2. Exact(a, {p}, NoPage)
  <2>1. Exact(a, {} \cup {p}, NoPage)
    BY ExactAlloc DEF GoodMem
  <2>2. {} \cup {p} = {p}
    OBVIOUS
  <2>. QED
    BY <2>1, <2>2, Zenon
<1>. HIDE DEF a
<1>3. Shape(a)
  BY <1>1 DEF GoodMem, Shape
<1>4. Refs(m.at, p) = {} /\ Refs(a.at, p) = {}
  BY <1>1 DEF GoodMem, Exact
<1>5. Ordinary(a, p)
  BY <1>1, <1>4 DEF Ordinary, Refs
<1>6. Remapped(a, n, e)
  <2>1. a.at[Dir(e)] # NoPage /\ {p} \subseteq {p} /\ t \in PgdirWalk(a, e, va)
    BY <1>1 DEF a
  <2>2. perm = "RW" => Writable(a, p) \/ Refs(a.at, p) = {}
    BY <1>4
  <2>. QED
    BY <1>2, <1>3, <1>5, <2>1, <2>2, InsertRemaps
<1>. HIDE DEF n
<1>7. Remapped(m, n, e)
  BY <1>1, <1>6 DEF Remapped, Kept, StillReadOnly, Writable
<1>. QED
  BY <1>7 DEF n, a

\* page_alloc whose page goes back at once.
LEMMA FailedAllocRemaps ==
    ASSUME CountsFit, NEW m, GoodMem(m), NEW e \in Env, NEW p \in m.free
    PROVE  Remapped(m, PageFree(PageAlloc(m, p), p), e)
<1>. DEFINE a == PageAlloc(m, p)
            n == PageFree(a, p)
<1>1. a.at = m.at /\ a.wr = m.wr /\ p \in Page /\ Refs(m.at, p) = {}
  BY PmapAssumption DEF PageAlloc, GoodMem, Exact, MemType
<1>2. Exact(a, {} \cup {p}, NoPage)
  BY ExactAlloc DEF GoodMem
<1>. HIDE DEF a
<1>3. Exact(n, ({} \cup {p}) \ {p}, NoPage)
  BY <1>2, ExactFree
<1>4. Exact(n, {}, NoPage)
  <2>1. ({} \cup {p}) \ {p} = {}
    OBVIOUS
  <2>. QED
    BY <1>3, <2>1, Zenon
<1>5. n.at = m.at /\ n.wr = m.wr
  BY <1>1, <1>2 DEF PageFree, Exact, MemType
<1>. HIDE DEF n
<1>6. Remapped(m, n, e)
  BY <1>4, <1>5 DEF Remapped, GoodMem, Shape, Kept, StillReadOnly, Writable
<1>. QED
  BY <1>6 DEF n, a
-----------------------------------------------------------------------------
(* The invariant of a state, and how a handler leaves the kernel.          *)

\* An environment has a page directory exactly as long as it exists.
DirInv(m, st) == \A e \in Env : m.at[Dir(e)] # NoPage <=> st[e] # "free"

\* No two CPUs run the same environment, and only ready or dying ones run.
RunInv ==
    /\ \A c, d \in CPU : curenv[c] # NoEnv /\ curenv[c] = curenv[d] => c = d
    /\ \A c \in CPU : curenv[c] # NoEnv => status[curenv[c]] \in {"ready", "dying"}
    /\ booting => \A c \in CPU : curenv[c] = NoEnv

CpuInv ==
    /\ status \in [Env -> Status]
    /\ parent \in [Env -> Env \cup {NoEnv}]
    /\ curenv \in [CPU -> Env \cup {NoEnv}]
    /\ cr3 \in [CPU -> Page \cup {KernDir}]
    /\ tlb \in [CPU -> SUBSET (VA \X Page \X Access)]
    /\ booting \in BOOLEAN
    /\ DirInv(mem, status)
    /\ RunInv
    /\ Cr3Live
    /\ TlbCoherent

PmapInv == GoodMem(mem) /\ CpuInv

\* What the environments that run on the other CPUs are owed by a handler on CPU c.
OthersKept(c) ==
    \A d \in CPU \ {c} : curenv[d] # NoEnv =>
        /\ status'[curenv[d]] \in {"ready", "dying"}
        /\ mem'.at[Dir(curenv[d])] = mem.at[Dir(curenv[d])]
        /\ \A va \in VA :
              /\ mem'.at[Pte(curenv[d], va)] = mem.at[Pte(curenv[d], va)]
              /\ Pte(curenv[d], va) \in mem'.wr <=> Pte(curenv[d], va) \in mem.wr

\* A handler on CPU c that has finished with memory and the statuses.
Handled(c) ==
    /\ booting = FALSE /\ booting' = FALSE
    /\ GoodMem(mem')
    /\ status' \in [Env -> Status]
    /\ parent' \in [Env -> Env \cup {NoEnv}]
    /\ DirInv(mem', status')
    /\ OthersKept(c)

\* env_run of a ready environment that runs nowhere else restores the invariant.
LEMMA RunLeaves ==
    ASSUME PmapInv, NEW c \in CPU, Handled(c), NEW e \in Env,
           status'[e] = "ready", ~OnOtherCpu(c, e), EnvRun(c, e)
    PROVE  PmapInv'
<1>1. /\ curenv' = [curenv EXCEPT ![c] = e]
      /\ cr3' = [cr3 EXCEPT ![c] = mem'.at[Dir(e)]]
      /\ tlb' = [tlb EXCEPT ![c] = {}]
  BY DEF EnvRun
<1>2. e # NoEnv
  BY PmapAssumption
<1>3. mem'.at[Dir(e)] \in Page
  <2>1. Dir(e) \in Place /\ mem'.at \in [Place -> Page \cup {NoPage}]
    BY DirPlace DEF Handled, GoodMem, Exact, MemType
  <2>. QED
    BY <2>1 DEF Handled, DirInv
<1>4. /\ curenv \in [CPU -> Env \cup {NoEnv}] /\ cr3 \in [CPU -> Page \cup {KernDir}]
      /\ tlb \in [CPU -> SUBSET (VA \X Page \X Access)]
  BY DEF PmapInv, CpuInv
<1>5. /\ curenv' \in [CPU -> Env \cup {NoEnv}] /\ cr3' \in [CPU -> Page \cup {KernDir}]
      /\ tlb' \in [CPU -> SUBSET (VA \X Page \X Access)]
  BY <1>1, <1>3, <1>4
<1>6. RunInv'
  BY <1>1, <1>4 DEF RunInv, PmapInv, CpuInv, OnOtherCpu, Handled, OthersKept
<1>7. Cr3Live'
  <2>. SUFFICES ASSUME NEW d \in CPU
                PROVE  cr3'[d] = IF curenv'[d] = NoEnv THEN KernDir ELSE mem'.at[Dir(curenv'[d])]
    BY DEF Cr3Live
  <2>1. CASE d = c
    BY <1>1, <1>2, <1>4, <2>1
  <2>2. CASE d # c
    BY <1>1, <1>4, <2>2 DEF Cr3Live, PmapInv, CpuInv, Handled, OthersKept
  <2>. QED
    BY <2>1, <2>2
<1>8. TlbCoherent'
  <2>. SUFFICES ASSUME NEW d \in CPU, NEW u \in tlb'[d]
                PROVE  /\ curenv'[d] # NoEnv
                       /\ mem'.at[Pte(curenv'[d], u[1])] = u[2]
                       /\ u[3] = "RW" => Pte(curenv'[d], u[1]) \in mem'.wr
    BY DEF TlbCoherent
  <2>1. d # c /\ u \in tlb[d] /\ u[1] \in VA /\ curenv'[d] = curenv[d]
    BY <1>1, <1>4
  <2>2. /\ curenv[d] # NoEnv /\ mem.at[Pte(curenv[d], u[1])] = u[2]
        /\ u[3] = "RW" => Pte(curenv[d], u[1]) \in mem.wr
    BY <2>1 DEF TlbCoherent, PmapInv, CpuInv
  <2>. QED
    BY <2>1, <2>2 DEF Handled, OthersKept
<1>. QED
  BY <1>5, <1>6, <1>7, <1>8 DEF PmapInv, CpuInv, Handled

\* Halting restores it too.
LEMMA HaltLeaves ==
    ASSUME PmapInv, NEW c \in CPU, Handled(c), SchedHalt(c)
    PROVE  PmapInv'
<1>1. /\ curenv' = [curenv EXCEPT ![c] = NoEnv]
      /\ cr3' = [cr3 EXCEPT ![c] = KernDir]
      /\ tlb' = [tlb EXCEPT ![c] = {}]
  BY DEF SchedHalt
<1>4. /\ curenv \in [CPU -> Env \cup {NoEnv}] /\ cr3 \in [CPU -> Page \cup {KernDir}]
      /\ tlb \in [CPU -> SUBSET (VA \X Page \X Access)]
  BY DEF PmapInv, CpuInv
<1>5. /\ curenv' \in [CPU -> Env \cup {NoEnv}] /\ cr3' \in [CPU -> Page \cup {KernDir}]
      /\ tlb' \in [CPU -> SUBSET (VA \X Page \X Access)]
  BY <1>1, <1>4
<1>6. RunInv'
  BY <1>1, <1>4 DEF RunInv, PmapInv, CpuInv, Handled, OthersKept
<1>7. Cr3Live'
  <2>. SUFFICES ASSUME NEW d \in CPU
                PROVE  cr3'[d] = IF curenv'[d] = NoEnv THEN KernDir ELSE mem'.at[Dir(curenv'[d])]
    BY DEF Cr3Live
  <2>1. CASE d = c
    BY <1>1, <1>4, <2>1
  <2>2. CASE d # c
    BY <1>1, <1>4, <2>2 DEF Cr3Live, PmapInv, CpuInv, Handled, OthersKept
  <2>. QED
    BY <2>1, <2>2
<1>8. TlbCoherent'
  <2>. SUFFICES ASSUME NEW d \in CPU, NEW u \in tlb'[d]
                PROVE  /\ curenv'[d] # NoEnv
                       /\ mem'.at[Pte(curenv'[d], u[1])] = u[2]
                       /\ u[3] = "RW" => Pte(curenv'[d], u[1]) \in mem'.wr
    BY DEF TlbCoherent
  <2>1. d # c /\ u \in tlb[d] /\ u[1] \in VA /\ curenv'[d] = curenv[d]
    BY <1>1, <1>4
  <2>2. /\ curenv[d] # NoEnv /\ mem.at[Pte(curenv[d], u[1])] = u[2]
        /\ u[3] = "RW" => Pte(curenv[d], u[1]) \in mem.wr
    BY <2>1 DEF TlbCoherent, PmapInv, CpuInv
  <2>. QED
    BY <2>1, <2>2 DEF Handled, OthersKept
<1>. QED
  BY <1>5, <1>6, <1>7, <1>8 DEF PmapInv, CpuInv, Handled

\* sched_yield ends in one or the other.
LEMMA YieldLeaves ==
    ASSUME PmapInv, NEW c \in CPU, Handled(c), SchedYield(c)
    PROVE  PmapInv'
BY RunLeaves, HaltLeaves DEF SchedYield

\* A system call that returns to the caller, which is still ready.
LEMMA ReturnLeaves ==
    ASSUME PmapInv, NEW c \in CPU, InKernel(c), Handled(c), status'[curenv[c]] = "ready",
           Return(c)
    PROVE  PmapInv'
<1>1. curenv[c] \in Env /\ curenv[c] # NoEnv
  BY DEF PmapInv, CpuInv, InKernel
<1>2. ~OnOtherCpu(c, curenv[c])
  BY <1>1 DEF OnOtherCpu, PmapInv, CpuInv, RunInv
<1>. QED
  BY <1>1, <1>2, RunLeaves DEF Return

\* A handler that changes the mappings of one environment, which runs on no other CPU.
LEMMA RemapHandled ==
    ASSUME PmapInv, NEW c \in CPU, ~booting, booting' = booting,
           NEW e \in Env, Remapped(mem, mem', e), ~OnOtherCpu(c, e),
           status' \in [Env -> Status], parent' \in [Env -> Env \cup {NoEnv}],
           \A f \in Env : /\ status'[f] = "free" <=> status[f] = "free"
                          /\ status[f] \in {"ready", "dying"} /\ OnOtherCpu(c, f)
                                => status'[f] \in {"ready", "dying"}
    PROVE  Handled(c)
<1>1. DirInv(mem', status')
  BY DEF DirInv, Remapped, Kept, PmapInv, CpuInv
<1>2. OthersKept(c)
  <2>. SUFFICES ASSUME NEW d \in CPU \ {c}, curenv[d] # NoEnv
                PROVE  /\ status'[curenv[d]] \in {"ready", "dying"}
                       /\ mem'.at[Dir(curenv[d])] = mem.at[Dir(curenv[d])]
                       /\ \A va \in VA :
                             /\ mem'.at[Pte(curenv[d], va)] = mem.at[Pte(curenv[d], va)]
                             /\ Pte(curenv[d], va) \in mem'.wr <=> Pte(curenv[d], va) \in mem.wr
    BY DEF OthersKept
  <2>1. curenv[d] \in Env /\ status[curenv[d]] \in {"ready", "dying"}
    BY DEF PmapInv, CpuInv, RunInv
  <2>2. OnOtherCpu(c, curenv[d]) /\ curenv[d] # e
    BY DEF OnOtherCpu
  <2>. QED
    BY <2>1, <2>2 DEF Remapped, Kept
<1>. QED
  BY <1>1, <1>2 DEF Handled, Remapped, PmapInv, CpuInv

\* A handler that leaves memory alone.
LEMMA IdleHandled ==
    ASSUME PmapInv, NEW c \in CPU, ~booting, booting' = booting, mem' = mem,
           status' \in [Env -> Status], parent' \in [Env -> Env \cup {NoEnv}],
           \A f \in Env : /\ status'[f] = "free" <=> status[f] = "free"
                          /\ status[f] \in {"ready", "dying"} /\ OnOtherCpu(c, f)
                                => status'[f] \in {"ready", "dying"}
    PROVE  Handled(c)
<1>1. DirInv(mem', status')
  BY DEF DirInv, PmapInv, CpuInv
<1>2. OthersKept(c)
  <2>. SUFFICES ASSUME NEW d \in CPU \ {c}, curenv[d] # NoEnv
                PROVE  status'[curenv[d]] \in {"ready", "dying"}
    BY DEF OthersKept
  <2>1. curenv[d] \in Env /\ status[curenv[d]] \in {"ready", "dying"}
    BY DEF PmapInv, CpuInv, RunInv
  <2>2. OnOtherCpu(c, curenv[d])
    BY DEF OnOtherCpu
  <2>. QED
    BY <2>1, <2>2
<1>. QED
  BY <1>1, <1>2 DEF Handled, PmapInv, CpuInv

\* What TLB coherence and cr3 ask of a step that runs on no CPU.
LEMMA KinAlive ==
    ASSUME PmapInv, NEW c \in CPU, InKernel(c), NEW e \in Kin(c)
    PROVE  e \in Env /\ status[e] # "free" /\ mem.at[Dir(e)] # NoPage
BY DEF Kin, PmapInv, CpuInv, DirInv

\* With Misuse = {}, an address space is changed only by its own environment or while
\* its environment cannot run.
LEMMA MappableNotElsewhere ==
    ASSUME PmapInv, Misuse = {}, NEW c \in CPU, InKernel(c), NEW e \in Mappable(c)
    PROVE  e \in Kin(c) /\ ~OnOtherCpu(c, e)
<1>1. e \in Kin(c) /\ (e = curenv[c] \/ status[e] = "new")
  BY DEF Mappable
<1>2. curenv[c] # NoEnv
  BY DEF InKernel
<1>3. CASE e = curenv[c]
  BY <1>1, <1>2, <1>3 DEF OnOtherCpu, PmapInv, CpuInv, RunInv
<1>4. CASE status[e] = "new"
  <2>1. e \in Env /\ e # NoEnv
    BY <1>1, PmapAssumption DEF Kin
  <2>. QED
    BY <1>1, <1>4, <2>1 DEF OnOtherCpu, PmapInv, CpuInv, RunInv
<1>. QED
  BY <1>1, <1>3, <1>4
-----------------------------------------------------------------------------
(* The actions.                                                            *)

\* The initial state.
LEMMA InitInv == ASSUME CountsFit, Init PROVE PmapInv
<1>1. /\ mem.at = [q \in Place |-> NoPage] /\ mem.wr = {} /\ mem.free = Page
      /\ mem.pp_ref = [p \in Page |-> 0] /\ mem.badfree = {}
      /\ mem \in MemType
  BY PmapAssumption DEF Init, MemType
<1>2. \A p \in Page : Refs(mem.at, p) = {} /\ Cardinality(Refs(mem.at, p)) = 0 /\ p # NoPage
  <2>. SUFFICES ASSUME NEW p \in Page
                PROVE  Refs(mem.at, p) = {} /\ Cardinality(Refs(mem.at, p)) = 0 /\ p # NoPage
    OBVIOUS
  <2>1. p # NoPage
    BY PmapAssumption
  <2>2. Refs(mem.at, p) = {}
    BY <1>1, <2>1 DEF Refs
  <2>. QED
    BY <2>1, <2>2, RefsFinite
<1>3. Exact(mem, {}, NoPage)
  BY <1>1, <1>2 DEF Exact
<1>4. Shape(mem)
  BY <1>1, PlaceFacts DEF Shape
<1>5. CpuInv
  BY <1>1, DirPlace DEF Init, CpuInv, Status, DirInv, RunInv, Cr3Live, TlbCoherent
<1>. QED
  BY <1>3, <1>4, <1>5 DEF PmapInv, GoodMem

\* The statuses of the environments besides e are as they were.
LEMMA NewDirHandled ==
    ASSUME CountsFit, PmapInv, NEW e \in Env, status[e] = "free", NEW p \in mem.free,
           mem' = EnvSetupVm(mem, e, p), NEW s \in Status \ {"free"},
           status' = [status EXCEPT ![e] = s]
    PROVE  /\ GoodMem(mem')
           /\ status' \in [Env -> Status]
           /\ DirInv(mem', status')
           /\ \A c \in CPU : OthersKept(c)
           /\ StillReadOnly(mem, mem')
<1>1. mem.at[Dir(e)] = NoPage /\ status \in [Env -> Status]
  BY DEF PmapInv, CpuInv, DirInv
<1>2. /\ Exact(mem', {}, NoPage) /\ Shape(mem')
      /\ mem'.at = Put(mem.at, Dir(e), p) /\ mem'.wr = mem.wr
  BY <1>1, SetupOK DEF PmapInv, GoodMem
<1>3. /\ mem.at \in [Place -> Page \cup {NoPage}] /\ p \in Page /\ p # NoPage
      /\ mem.wr \subseteq PtePlace
  BY PmapAssumption DEF PmapInv, GoodMem, Exact, MemType
<1>4. Dir(e) \in Place \ PtePlace
  BY DirPlace
<1>5. DirInv(mem', status')
  <2>. SUFFICES ASSUME NEW f \in Env
                PROVE  mem'.at[Dir(f)] # NoPage <=> status'[f] # "free"
    BY DEF DirInv
  <2>1. Dir(f) \in Place /\ (Dir(f) = Dir(e) <=> e = f)
    BY DirPlace
  <2>2. mem.at[Dir(f)] # NoPage <=> status[f] # "free"
    BY DEF PmapInv, CpuInv, DirInv
  <2>. QED
    BY <1>1, <1>2, <1>3, <2>1, <2>2 DEF Put
<1>6. ASSUME NEW c \in CPU, NEW d \in CPU \ {c}, curenv[d] # NoEnv
      PROVE  /\ status'[curenv[d]] \in {"ready", "dying"}
             /\ mem'.at[Dir(curenv[d])] = mem.at[Dir(curenv[d])]
             /\ \A va \in VA :
                   /\ mem'.at[Pte(curenv[d], va)] = mem.at[Pte(curenv[d], va)]
                   /\ Pte(curenv[d], va) \in mem'.wr <=> Pte(curenv[d], va) \in mem.wr
  <2>1. curenv[d] \in Env /\ status[curenv[d]] \in {"ready", "dying"} /\ curenv[d] # e
    BY <1>6 DEF PmapInv, CpuInv, RunInv
  <2>2. Dir(curenv[d]) \in Place /\ Dir(curenv[d]) # Dir(e)
    BY <2>1, DirPlace
  <2>3. \A va \in VA : Pte(curenv[d], va) \in Place /\ Pte(curenv[d], va) # Dir(e)
    BY <2>1, PlaceFacts
  <2>. QED
    BY <1>1, <1>2, <1>3, <2>1, <2>2, <2>3 DEF Put
<1>7. \A c \in CPU : OthersKept(c)
  BY <1>6 DEF OthersKept
<1>8. StillReadOnly(mem, mem')
  <2>. SUFFICES ASSUME NEW r \in Page, NEW u \in mem'.wr, mem'.at[u] = r
                PROVE  Writable(mem, r)
    BY DEF StillReadOnly, Writable
  <2>1. u \in mem.wr /\ u \in Place /\ u # Dir(e)
    BY <1>2, <1>3, <1>4, PtePlaces
  <2>. QED
    BY <1>2, <1>3, <2>1 DEF Put, Writable
<1>. QED
  BY <1>1, <1>2, <1>5, <1>7, <1>8 DEF GoodMem

\* sys_exofork.
LEMMA ExoforkInv ==
    ASSUME CountsFit, PmapInv, NEW c \in CPU, NEW e \in Env, SysExofork(c, e)
    PROVE  PmapInv' /\ StillReadOnly(mem, mem')
<1>1. /\ InKernel(c) /\ status[e] = "free"
      /\ status' = [status EXCEPT ![e] = "new"]
      /\ parent' = [parent EXCEPT ![e] = curenv[c]]
      /\ booting' = booting /\ Return(c)
  BY DEF SysExofork
<1>2. PICK p \in mem.free : mem' = EnvSetupVm(mem, e, p)
  BY DEF SysExofork
<1>3. "new" \in Status \ {"free"}
  BY DEF Status
<1>4. /\ GoodMem(mem') /\ status' \in [Env -> Status] /\ DirInv(mem', status')
      /\ OthersKept(c) /\ StillReadOnly(mem, mem')
  BY <1>1, <1>2, <1>3, NewDirHandled
<1>5. parent' \in [Env -> Env \cup {NoEnv}] /\ booting = FALSE
  BY <1>1 DEF PmapInv, CpuInv, InKernel
<1>6. Handled(c)
  BY <1>1, <1>4, <1>5 DEF Handled
<1>7. status'[curenv[c]] = "ready"
  BY <1>1 DEF InKernel, PmapInv, CpuInv
<1>. QED
  BY <1>1, <1>4, <1>6, <1>7, ReturnLeaves

\* env_create and region_alloc, before any CPU runs an environment.
LEMMA BootInv ==
    ASSUME CountsFit, PmapInv, booting,
           GoodMem(mem'), status' \in [Env -> Status], DirInv(mem', status'),
           UNCHANGED <<parent, cpuvars, booting>>
    PROVE  PmapInv'
BY DEF PmapInv, CpuInv, RunInv, Cr3Live, TlbCoherent, cpuvars

LEMMA EnvCreateInv ==
    ASSUME CountsFit, PmapInv, NEW e \in Env, EnvCreate(e)
    PROVE  PmapInv' /\ StillReadOnly(mem, mem')
<1>1. PICK p \in mem.free : mem' = EnvSetupVm(mem, e, p)
  BY DEF EnvCreate
<1>2. "ready" \in Status \ {"free"}
  BY DEF Status
<1>3. /\ GoodMem(mem') /\ status' \in [Env -> Status] /\ DirInv(mem', status')
      /\ StillReadOnly(mem, mem')
  BY <1>1, <1>2, NewDirHandled DEF EnvCreate
<1>. QED
  BY <1>3, BootInv DEF EnvCreate

LEMMA RegionAllocInv ==
    ASSUME CountsFit, PmapInv, NEW e \in Env, NEW va \in VA, RegionAlloc(e, va)
    PROVE  PmapInv' /\ StillReadOnly(mem, mem')
<1>1. PICK p \in mem.free : \E t \in PgdirWalk(PageAlloc(mem, p), e, va) :
         mem' = PageInsert(PageAlloc(mem, p), e, va, p, p, "RW", t)
  BY DEF RegionAlloc
<1>2. mem.at[Dir(e)] # NoPage
  BY DEF RegionAlloc, PmapInv, CpuInv, DirInv
<1>3. "RW" \in Access /\ GoodMem(mem)
  BY DEF Access, PmapInv
<1>4. Remapped(mem, mem', e)
  BY <1>1, <1>2, <1>3, AllocRemaps
<1>5. DirInv(mem', status')
  BY <1>4 DEF RegionAlloc, envvars, Remapped, Kept, DirInv, PmapInv, CpuInv
<1>6. booting /\ UNCHANGED <<parent, cpuvars, booting>> /\ status' = status
  BY DEF RegionAlloc, envvars
<1>7. PmapInv'
  BY <1>4, <1>5, <1>6, BootInv DEF Remapped, PmapInv, CpuInv
<1>. QED
  BY <1>4, <1>7 DEF Remapped

LEMMA BootDoneInv == ASSUME PmapInv, BootDone PROVE PmapInv'
BY DEF BootDone, PmapInv, CpuInv, RunInv, Cr3Live, TlbCoherent, cpuvars, envvars

\* What is cached comes from the tables of the environment that runs.
LEMMA TlbFillInv ==
    ASSUME PmapInv, NEW c \in CPU, NEW va \in VA, TlbFill(c, va)
    PROVE  PmapInv'
<1>. DEFINE access(e) == IF Pte(e, va) \in mem.wr THEN "RW" ELSE "RO"
<1>1. PICK e \in Env :
         /\ mem.at[Dir(e)] = cr3[c]
         /\ mem.at[Pte(e, va)] # NoPage
         /\ tlb' = [tlb EXCEPT ![c] = @ \cup {<<va, mem.at[Pte(e, va)], access(e)>>}]
  BY DEF TlbFill
<1>2. curenv[c] # NoEnv /\ curenv[c] \in Env /\ curenv \in [CPU -> Env \cup {NoEnv}]
  BY DEF TlbFill, PmapInv, CpuInv
<1>3. e = curenv[c]
  <2>1. mem.at[Dir(curenv[c])] = cr3[c] /\ mem.at[Dir(curenv[c])] # NoPage
    BY <1>2 DEF PmapInv, CpuInv, Cr3Live, RunInv, DirInv
  <2>2. Dir(e) \in Place \ PtePlace /\ Dir(curenv[c]) \in Place \ PtePlace
    BY <1>2, DirPlace
  <2>3. Refs(mem.at, cr3[c]) = {Dir(e)} /\ Refs(mem.at, cr3[c]) = {Dir(curenv[c])}
    BY <1>1, <2>1, <2>2 DEF PmapInv, GoodMem, Shape
  <2>4. Dir(e) = Dir(curenv[c])
    BY <2>3
  <2>. QED
    BY <1>2, <2>4, DirPlace
<1>4. /\ mem' = mem /\ curenv' = curenv /\ cr3' = cr3 /\ status' = status /\ parent' = parent
      /\ booting' = booting
  BY DEF TlbFill, envvars
<1>5. mem.at[Pte(e, va)] \in Page /\ access(e) \in Access
  BY <1>1, PlaceFacts DEF PmapInv, GoodMem, Exact, MemType, Access
<1>. DEFINE new == <<va, mem.at[Pte(e, va)], access(e)>>
<1>6. new \in VA \X Page \X Access
  BY <1>5
<1>7. tlb' \in [CPU -> SUBSET (VA \X Page \X Access)] /\ tlb \in [CPU -> SUBSET (VA \X Page \X Access)]
  BY <1>1, <1>6 DEF PmapInv, CpuInv
<1>8. TlbCoherent'
  <2>. SUFFICES ASSUME NEW d \in CPU, NEW u \in tlb'[d]
                PROVE  /\ curenv[d] # NoEnv
                       /\ mem.at[Pte(curenv[d], u[1])] = u[2]
                       /\ u[3] = "RW" => Pte(curenv[d], u[1]) \in mem.wr
    BY <1>4 DEF TlbCoherent
  <2>1. CASE u \in tlb[d]
    BY <2>1 DEF PmapInv, CpuInv, TlbCoherent
  <2>2. CASE u \notin tlb[d]
    <3>1. d = c /\ u = new
      BY <1>1, <1>7, <2>2
    <3>2. u[1] = va /\ u[2] = mem.at[Pte(e, va)] /\ u[3] = access(e)
      BY <3>1
    <3>. QED
      BY <1>2, <1>3, <3>1, <3>2
  <2>. QED
    BY <2>1, <2>2
<1>. QED
  BY <1>4, <1>7, <1>8 DEF PmapInv, CpuInv, RunInv, Cr3Live
\* A read-only page stays so when memory is left alone.
LEMMA SameReadOnly == ASSUME mem' = mem PROVE StillReadOnly(mem, mem')
BY DEF StillReadOnly

\* The timer interrupt, on an idle or a busy CPU.
LEMMA YieldInv ==
    ASSUME PmapInv, NEW c \in CPU, Wakeup(c) \/ Yield(c)
    PROVE  PmapInv' /\ StillReadOnly(mem, mem')
<1>1. /\ ~booting /\ booting' = booting /\ mem' = mem /\ status' = status /\ parent' = parent
      /\ SchedYield(c)
  BY DEF Wakeup, Yield, InKernel, envvars
<1>2. status' \in [Env -> Status] /\ parent' \in [Env -> Env \cup {NoEnv}]
  BY <1>1 DEF PmapInv, CpuInv
<1>3. Handled(c)
  BY <1>1, <1>2, IdleHandled
<1>. QED
  BY <1>1, <1>3, YieldLeaves, SameReadOnly

\* sys_ipc_recv.
LEMMA IpcRecvInv ==
    ASSUME PmapInv, NEW c \in CPU, SysIpcRecv(c)
    PROVE  PmapInv' /\ StillReadOnly(mem, mem')
<1>1. /\ InKernel(c) /\ status' = [status EXCEPT ![curenv[c]] = "recv"]
      /\ mem' = mem /\ parent' = parent /\ booting' = booting /\ SchedYield(c)
  BY DEF SysIpcRecv
<1>2. /\ status \in [Env -> Status] /\ status' \in [Env -> Status]
      /\ parent' \in [Env -> Env \cup {NoEnv}]
  BY <1>1 DEF PmapInv, CpuInv, Status
<1>3. curenv[c] \in Env /\ curenv[c] # NoEnv /\ status[curenv[c]] = "ready" /\ ~booting
  BY <1>1 DEF InKernel, PmapInv, CpuInv
<1>4. ~OnOtherCpu(c, curenv[c])
  BY <1>3 DEF OnOtherCpu, PmapInv, CpuInv, RunInv
<1>5. Handled(c)
  BY <1>1, <1>2, <1>3, <1>4, IdleHandled
<1>. QED
  BY <1>1, <1>5, YieldLeaves, SameReadOnly

\* sys_env_set_status of a child that was not started yet.
LEMMA SetStatusInv ==
    ASSUME PmapInv, NEW c \in CPU, NEW e \in Env, SysEnvSetStatus(c, e) \/ SysIpcTrySendValue(c, e)
    PROVE  PmapInv' /\ StillReadOnly(mem, mem')
<1>1. /\ InKernel(c) /\ status[e] \in {"new", "recv"} /\ status' = [status EXCEPT ![e] = "ready"]
      /\ mem' = mem /\ parent' = parent /\ booting' = booting /\ Return(c)
  BY DEF SysEnvSetStatus, SysIpcTrySendValue
<1>2. /\ status \in [Env -> Status] /\ status' \in [Env -> Status]
      /\ parent' \in [Env -> Env \cup {NoEnv}]
  BY <1>1 DEF PmapInv, CpuInv, Status
<1>3. curenv[c] \in Env /\ status[curenv[c]] = "ready" /\ ~booting /\ curenv[c] # e
  BY <1>1 DEF InKernel, PmapInv, CpuInv
<1>4. Handled(c)
  BY <1>1, <1>2, <1>3, IdleHandled
<1>5. status'[curenv[c]] = "ready"
  BY <1>1, <1>2, <1>3
<1>. QED
  BY <1>1, <1>4, <1>5, ReturnLeaves, SameReadOnly

\* A system call that changes the mappings of one environment and returns.
LEMMA RemapInv ==
    ASSUME PmapInv, NEW c \in CPU, InKernel(c), NEW e \in Env, ~OnOtherCpu(c, e),
           Remapped(mem, mem', e), UNCHANGED <<envvars, booting>>, Return(c)
    PROVE  PmapInv' /\ StillReadOnly(mem, mem')
<1>1. /\ status' = status /\ parent' = parent /\ booting' = booting
      /\ ~booting /\ status[curenv[c]] = "ready"
  BY DEF envvars, InKernel
<1>2. status' \in [Env -> Status] /\ parent' \in [Env -> Env \cup {NoEnv}]
  BY <1>1 DEF PmapInv, CpuInv
<1>3. Handled(c)
  BY <1>1, <1>2, RemapHandled
<1>. QED
  BY <1>1, <1>3, ReturnLeaves DEF Remapped

\* Without stray bits the entry names the page that page_insert was called with.
LEMMA Plain ==
    ASSUME Misuse = {}, NEW perm \in Perm, NEW m, NEW e, NEW va, NEW p, NEW n \in Inserted(m, e, va, p, perm)
    PROVE  \E t \in PgdirWalk(m, e, va) : n = PageInsert(m, e, va, p, p, perm.access, t)
<1>1. Named(p, perm) = {p}
  BY DEF Named, Perm
<1>. QED
  BY <1>1 DEF Inserted

LEMMA Granted == ASSUME NEW perm \in Perm PROVE perm.access \in Access
BY DEF Perm

\* sys_page_alloc.
LEMMA PageAllocInv ==
    ASSUME CountsFit, Misuse = {}, PmapInv, NEW c \in CPU, NEW e \in Env, NEW va \in VA,
           NEW perm \in Perm, SysPageAlloc(c, e, va, perm)
    PROVE  PmapInv' /\ StillReadOnly(mem, mem')
<1>1. InKernel(c) /\ e \in Mappable(c) /\ UNCHANGED <<envvars, booting>> /\ Return(c)
  BY DEF SysPageAlloc
<1>2. PICK p \in mem.free :
         LET m == PageAlloc(mem, p)
         IN  \/ \E t \in PgdirWalk(m, e, va) : mem' = PageInsert(m, e, va, p, p, perm.access, t)
             \/ PgdirWalk(m, e, va) = {} /\ mem' = PageFree(m, p)
  BY Plain DEF SysPageAlloc
<1>3. ~OnOtherCpu(c, e) /\ mem.at[Dir(e)] # NoPage
  BY <1>1, MappableNotElsewhere, KinAlive
<1>4. GoodMem(mem)
  BY DEF PmapInv
<1>5. Remapped(mem, mem', e)
  BY <1>2, <1>3, <1>4, Granted, AllocRemaps, FailedAllocRemaps
<1>. QED
  BY <1>1, <1>3, <1>5, RemapInv

\* A page that may be mapped with PTE_W is writable through the entry it comes from.
LEMMA SourceOrdinary ==
    ASSUME GoodMem(mem), NEW e \in Env, NEW va \in VA, NEW perm, MayMap(e, va, perm)
    PROVE  /\ Ordinary(mem, PageLookup(mem, e, va))
           /\ perm.access = "RW" => Writable(mem, PageLookup(mem, e, va))
BY MappedOrdinary DEF MayMap, PageLookup, Writable

\* page_insert of a page that is mapped somewhere already.
LEMMA ShareRemaps ==
    ASSUME CountsFit, GoodMem(mem), NEW e \in Env, NEW va \in VA, NEW perm \in Access,
           NEW t \in PgdirWalk(mem, e, va), mem.at[Dir(e)] # NoPage,
           NEW p, Ordinary(mem, p), perm = "RW" => Writable(mem, p)
    PROVE  Remapped(mem, PageInsert(mem, e, va, p, p, perm, t), e)
<1>1. {} \subseteq {p} /\ Exact(mem, {}, NoPage) /\ Shape(mem)
  BY DEF GoodMem
<1>. QED
  BY <1>1, InsertRemaps

\* sys_page_map.
LEMMA PageMapInv ==
    ASSUME CountsFit, Misuse = {}, PmapInv, NEW c \in CPU, NEW se \in Env, NEW sva \in VA,
           NEW de \in Env, NEW dva \in VA, NEW perm \in Perm,
           SysPageMap(c, se, sva, de, dva, perm)
    PROVE  PmapInv' /\ StillReadOnly(mem, mem')
<1>1. /\ InKernel(c) /\ de \in Mappable(c) /\ MayMap(se, sva, perm)
      /\ UNCHANGED <<envvars, booting>> /\ Return(c)
  BY DEF SysPageMap
<1>. DEFINE p == PageLookup(mem, se, sva)
<1>2. PICK t \in PgdirWalk(mem, de, dva) : mem' = PageInsert(mem, de, dva, p, p, perm.access, t)
  BY Plain DEF SysPageMap
<1>3. ~OnOtherCpu(c, de) /\ mem.at[Dir(de)] # NoPage
  BY <1>1, MappableNotElsewhere, KinAlive
<1>4. GoodMem(mem)
  BY DEF PmapInv
<1>5. Remapped(mem, mem', de)
  BY <1>1, <1>2, <1>3, <1>4, Granted, SourceOrdinary, ShareRemaps
<1>. QED
  BY <1>1, <1>3, <1>5, RemapInv

\* sys_page_unmap.
LEMMA PageUnmapInv ==
    ASSUME CountsFit, Misuse = {}, PmapInv, NEW c \in CPU, NEW e \in Env, NEW va \in VA,
           SysPageUnmap(c, e, va)
    PROVE  PmapInv' /\ StillReadOnly(mem, mem')
<1>1. /\ InKernel(c) /\ e \in Mappable(c) /\ mem' = PageRemove(mem, e, va)
      /\ UNCHANGED <<envvars, booting>> /\ Return(c)
  BY DEF SysPageUnmap
<1>2. ~OnOtherCpu(c, e)
  BY <1>1, MappableNotElsewhere
<1>3. Remapped(mem, mem', e)
  BY <1>1, RemoveRemaps DEF PmapInv
<1>. QED
  BY <1>1, <1>2, <1>3, RemapInv

\* The page of sys_ipc_try_send goes to an environment that does not run.
LEMMA IpcTrySendInv ==
    ASSUME CountsFit, Misuse = {}, PmapInv, NEW c \in CPU, NEW e \in Env, NEW sva \in VA, NEW dva \in VA,
           NEW perm \in Perm, SysIpcTrySend(c, e, sva, dva, perm)
    PROVE  PmapInv' /\ StillReadOnly(mem, mem')
<1>1. /\ InKernel(c) /\ status[e] = "recv" /\ MayMap(curenv[c], sva, perm)
      /\ status' = [status EXCEPT ![e] = "ready"] /\ parent' = parent /\ booting' = booting
      /\ Return(c)
  BY DEF SysIpcTrySend
<1>. DEFINE p == PageLookup(mem, curenv[c], sva)
<1>2. PICK t \in PgdirWalk(mem, e, dva) : mem' = PageInsert(mem, e, dva, p, p, perm.access, t)
  BY Plain DEF SysIpcTrySend
<1>3. /\ curenv[c] \in Env /\ status[curenv[c]] = "ready" /\ ~booting /\ curenv[c] # e
      /\ status \in [Env -> Status] /\ status' \in [Env -> Status]
      /\ parent' \in [Env -> Env \cup {NoEnv}]
  BY <1>1 DEF InKernel, PmapInv, CpuInv, Status
<1>4. ~OnOtherCpu(c, e) /\ mem.at[Dir(e)] # NoPage
  <2>1. e # NoEnv
    BY PmapAssumption
  <2>. QED
    BY <1>1, <2>1 DEF OnOtherCpu, PmapInv, CpuInv, RunInv, DirInv
<1>5. GoodMem(mem)
  BY DEF PmapInv
<1>6. Remapped(mem, mem', e)
  BY <1>1, <1>2, <1>3, <1>4, <1>5, Granted, SourceOrdinary, ShareRemaps
<1>7. Handled(c)
  BY <1>1, <1>3, <1>4, <1>6, RemapHandled
<1>8. status'[curenv[c]] = "ready"
  BY <1>1, <1>3
<1>. QED
  BY <1>1, <1>6, <1>7, <1>8, ReturnLeaves DEF Remapped

\* env_free of an environment that runs on no other CPU.
LEMMA FreeHandled ==
    ASSUME CountsFit, PmapInv, NEW c \in CPU, ~booting, booting' = booting,
           NEW e \in Env, ~OnOtherCpu(c, e), mem' = EnvFree(mem, e), Gone(e)
    PROVE  Handled(c) /\ StillReadOnly(mem, mem')
<1>1. /\ Exact(mem', {}, NoPage) /\ Shape(mem')
      /\ \A q \in Place : mem'.at[q] = IF q \in PlacesOf(e) THEN NoPage ELSE mem.at[q]
      /\ mem'.wr = mem.wr \ PlacesOf(e)
  BY FreeOK DEF PmapInv, GoodMem
<1>2. /\ status' = [status EXCEPT ![e] = "free"]
      /\ parent' = [f \in Env |-> IF f = e \/ parent[f] = e THEN NoEnv ELSE parent[f]]
  BY DEF Gone
<1>3. /\ status \in [Env -> Status] /\ status' \in [Env -> Status]
      /\ parent' \in [Env -> Env \cup {NoEnv}]
  BY <1>2 DEF PmapInv, CpuInv, Status
<1>4. DirInv(mem', status')
  <2>. SUFFICES ASSUME NEW f \in Env
                PROVE  mem'.at[Dir(f)] # NoPage <=> status'[f] # "free"
    BY DEF DirInv
  <2>1. Dir(f) \in Place /\ (Dir(f) \in PlacesOf(e) <=> f = e)
    BY DirPlace
  <2>2. mem.at[Dir(f)] # NoPage <=> status[f] # "free"
    BY DEF PmapInv, CpuInv, DirInv
  <2>. QED
    BY <1>1, <1>2, <1>3, <2>1, <2>2
<1>5. OthersKept(c)
  <2>. SUFFICES ASSUME NEW d \in CPU \ {c}, curenv[d] # NoEnv
                PROVE  /\ status'[curenv[d]] \in {"ready", "dying"}
                       /\ mem'.at[Dir(curenv[d])] = mem.at[Dir(curenv[d])]
                       /\ \A va \in VA :
                             /\ mem'.at[Pte(curenv[d], va)] = mem.at[Pte(curenv[d], va)]
                             /\ Pte(curenv[d], va) \in mem'.wr <=> Pte(curenv[d], va) \in mem.wr
    BY DEF OthersKept
  <2>1. curenv[d] \in Env /\ status[curenv[d]] \in {"ready", "dying"} /\ curenv[d] # e
    BY DEF OnOtherCpu, PmapInv, CpuInv, RunInv
  <2>2. Dir(curenv[d]) \in Place /\ Dir(curenv[d]) \notin PlacesOf(e)
    BY <2>1, DirPlace
  <2>3. \A va \in VA : Pte(curenv[d], va) \in Place /\ Pte(curenv[d], va) \notin PlacesOf(e)
    BY <2>1, PlaceFacts
  <2>. QED
    BY <1>1, <1>2, <1>3, <2>1, <2>2, <2>3
<1>6. StillReadOnly(mem, mem')
  <2>1. mem.wr \subseteq Place
    BY PtePlaces DEF PmapInv, GoodMem, Exact, MemType
  <2>. QED
    BY <1>1, <2>1 DEF StillReadOnly, Writable
<1>. QED
  BY <1>1, <1>3, <1>4, <1>5, <1>6 DEF Handled, GoodMem, PmapInv, CpuInv

\* env_destroy.
LEMMA EnvDestroyInv ==
    ASSUME CountsFit, PmapInv, NEW c \in CPU, NEW e \in Env, EnvDestroy(c, e)
    PROVE  PmapInv' /\ StillReadOnly(mem, mem')
<1>1. /\ InKernel(c) /\ e \in Kin(c) /\ status[e] # "dying" /\ booting' = booting
      /\ curenv[c] \in Env /\ curenv[c] # NoEnv /\ status[curenv[c]] = "ready" /\ ~booting
      /\ status \in [Env -> Status]
  BY DEF EnvDestroy, InKernel, PmapInv, CpuInv
<1>2. CASE OnOtherCpu(c, e)
  <2>1. /\ status' = [status EXCEPT ![e] = "dying"] /\ mem' = mem /\ parent' = parent
        /\ Return(c)
    BY <1>2 DEF EnvDestroy
  <2>2. e # curenv[c]
    BY <1>1, <1>2 DEF OnOtherCpu, PmapInv, CpuInv, RunInv
  <2>3. /\ status' \in [Env -> Status] /\ parent' \in [Env -> Env \cup {NoEnv}]
        /\ status[e] # "free"
    BY <1>1, <2>1 DEF PmapInv, CpuInv, Status, Kin
  <2>4. Handled(c)
    BY <1>1, <2>1, <2>3, IdleHandled
  <2>5. status'[curenv[c]] = "ready"
    BY <1>1, <2>1, <2>2
  <2>. QED
    BY <1>1, <2>1, <2>4, <2>5, ReturnLeaves, SameReadOnly
<1>3. CASE ~OnOtherCpu(c, e)
  <2>1. mem' = EnvFree(mem, e) /\ Gone(e) /\ IF e = curenv[c] THEN SchedYield(c) ELSE Return(c)
    BY <1>3 DEF EnvDestroy
  <2>2. Handled(c) /\ StillReadOnly(mem, mem')
    BY <1>1, <1>3, <2>1, FreeHandled
  <2>3. CASE e = curenv[c]
    BY <2>1, <2>2, <2>3, YieldLeaves
  <2>4. CASE e # curenv[c]
    <3>1. status'[curenv[c]] = "ready"
      BY <1>1, <2>1, <2>4 DEF Gone
    <3>. QED
      BY <1>1, <2>1, <2>2, <2>4, <3>1, ReturnLeaves
  <2>. QED
    BY <2>3, <2>4
<1>. QED
  BY <1>2, <1>3

\* trap() reaps the zombie it came from.
LEMMA ReapZombieInv ==
    ASSUME CountsFit, PmapInv, NEW c \in CPU, ReapZombie(c)
    PROVE  PmapInv' /\ StillReadOnly(mem, mem')
<1>1. /\ ~booting /\ booting' = booting /\ curenv[c] # NoEnv /\ curenv[c] \in Env
      /\ mem' = EnvFree(mem, curenv[c]) /\ Gone(curenv[c]) /\ SchedYield(c)
  BY DEF ReapZombie, PmapInv, CpuInv
<1>2. ~OnOtherCpu(c, curenv[c])
  BY <1>1 DEF OnOtherCpu, PmapInv, CpuInv, RunInv
<1>3. Handled(c) /\ StillReadOnly(mem, mem')
  BY <1>1, <1>2, FreeHandled
<1>. QED
  BY <1>1, <1>3, YieldLeaves

\* Every step keeps the invariant and gives no write access back.
LEMMA NextInv ==
    ASSUME CountsFit, Misuse = {}, PmapInv, [Next]_vars
    PROVE  PmapInv' /\ StillReadOnly(mem, mem')
<1>1. CASE UNCHANGED vars
  BY <1>1, SameReadOnly DEF vars, envvars, cpuvars, PmapInv, CpuInv, RunInv, Cr3Live, TlbCoherent
<1>2. CASE BootDone
  BY <1>2, BootDoneInv, SameReadOnly DEF BootDone
<1>3. ASSUME NEW e \in Env, EnvCreate(e) \/ \E va \in VA : RegionAlloc(e, va)
      PROVE  PmapInv' /\ StillReadOnly(mem, mem')
  BY <1>3, EnvCreateInv, RegionAllocInv
<1>4. ASSUME NEW c \in CPU,
             \/ Wakeup(c) \/ Yield(c) \/ SysIpcRecv(c) \/ ReapZombie(c)
             \/ \E va \in VA : TlbFill(c, va)
      PROVE  PmapInv' /\ StillReadOnly(mem, mem')
  <2>1. CASE \E va \in VA : TlbFill(c, va)
    BY <2>1, TlbFillInv, SameReadOnly DEF TlbFill
  <2>. QED
    BY <1>4, <2>1, YieldInv, IpcRecvInv, ReapZombieInv
<1>5. ASSUME NEW c \in CPU, NEW e \in Env,
             \/ SysExofork(c, e) \/ SysEnvSetStatus(c, e) \/ EnvDestroy(c, e)
             \/ SysIpcTrySendValue(c, e)
             \/ \E va \in VA : SysPageUnmap(c, e, va)
             \/ \E va \in VA, perm \in Perm : SysPageAlloc(c, e, va, perm)
      PROVE  PmapInv' /\ StillReadOnly(mem, mem')
  BY <1>5, ExoforkInv, SetStatusInv, EnvDestroyInv, PageUnmapInv, PageAllocInv
<1>6. ASSUME NEW c \in CPU, NEW e \in Env, NEW sva \in VA, NEW dva \in VA, NEW perm \in Perm,
             \/ SysIpcTrySend(c, e, sva, dva, perm)
             \/ \E de \in Env : SysPageMap(c, e, sva, de, dva, perm)
      PROVE  PmapInv' /\ StillReadOnly(mem, mem')
  BY <1>6, IpcTrySendInv, PageMapInv
<1>. QED
  BY <1>1, <1>2, <1>3, <1>4, <1>5, <1>6 DEF Next

-----------------------------------------------------------------------------
(* The theorems.                                                           *)

\* The inductive invariant, behind the counts, the free list and the page tables of
\* kern/pmap.c and the cr3 and TLB discipline of env_run and sched_halt.
THEOREM PmapInvariant == ASSUME CountsFit, Misuse = {} PROVE Spec => []PmapInv
<1>1. Init => PmapInv
  BY InitInv
<1>2. PmapInv /\ [Next]_vars => PmapInv'
  BY NextInv
<1>. QED
  BY <1>1, <1>2, PTL DEF Spec

\* Every variable stays in its range.
THEOREM PmapTypeCorrect == ASSUME CountsFit, Misuse = {} PROVE Spec => []TypeOK
<1>1. PmapInv => TypeOK
  BY DEF PmapInv, GoodMem, Exact, CpuInv, TypeOK
<1>. QED
  BY <1>1, PmapInvariant, PTL

\* pp_ref is the number of words that point to the page.
THEOREM RefCorrect == ASSUME CountsFit, Misuse = {} PROVE Spec => []RefExact
<1>1. PmapInv => RefExact
  <2>. SUFFICES ASSUME PmapInv, NEW p \in Page
                PROVE  mem.pp_ref[p] = Cardinality(Refs(mem.at, p))
    BY DEF RefExact
  <2>1. p # NoPage /\ Cardinality(Refs(mem.at, p)) \in Nat
    BY PmapAssumption, RefsFinite
  <2>. QED
    BY <2>1 DEF PmapInv, GoodMem, Exact
<1>. QED
  BY <1>1, PmapInvariant, PTL

\* The free list holds exactly the pages nothing points to, and page_free never meets
\* its panic condition.
THEOREM FreeCorrect == ASSUME CountsFit, Misuse = {} PROVE Spec => []FreeExact
<1>1. PmapInv => FreeExact
  BY PmapAssumption DEF PmapInv, GoodMem, Exact, FreeExact
<1>. QED
  BY <1>1, PmapInvariant, PTL

\* Page directories and page tables are private to one environment.
THEOREM TablesCorrect == ASSUME CountsFit, Misuse = {} PROVE Spec => []TablesPrivate
<1>1. PmapInv => TablesPrivate
  BY DEF PmapInv, GoodMem, Shape, TablesPrivate
<1>. QED
  BY <1>1, PmapInvariant, PTL

\* An address space lives exactly as long as its environment and has no loose parts.
THEOREM TreesCorrect == ASSUME CountsFit, Misuse = {} PROVE Spec => []TreesWhole
<1>1. PmapInv => TreesWhole
  BY DEF PmapInv, CpuInv, DirInv, GoodMem, Shape, TreesWhole, TablesPrivate
<1>. QED
  BY <1>1, PmapInvariant, PTL

\* No CPU walks the page directory of an environment that is gone.
THEOREM Cr3Correct == ASSUME CountsFit, Misuse = {} PROVE Spec => []Cr3Live
<1>1. PmapInv => Cr3Live
  BY DEF PmapInv, CpuInv
<1>. QED
  BY <1>1, PmapInvariant, PTL

\* No CPU uses a translation its environment's page table does not have, although
\* nothing is ever invalidated on another CPU.
THEOREM TlbCorrect == ASSUME CountsFit, Misuse = {} PROVE Spec => []TlbCoherent
<1>1. PmapInv => TlbCoherent
  BY DEF PmapInv, CpuInv
<1>. QED
  BY <1>1, PmapInvariant, PTL

\* No sequence of maps and sends makes a page writable that was read-only everywhere,
\* as long as no program passes bits of a page number as part of the permission
\* (Misuse = {}): sys_page_map and sys_ipc_try_send do not check that, and with such
\* bits a program gets any page it likes.
THEOREM ReadOnlyCorrect == ASSUME CountsFit, Misuse = {} PROVE Spec => ReadOnlyStays
<1>. DEFINE A == \A p \in Page :
                    Refs(mem.at, p) # {} /\ ~Writable(mem, p) => ~Writable(mem', p)
<1>1. PmapInv /\ [Next]_vars => [A]_vars
  BY NextInv DEF StillReadOnly
<1>2. Spec /\ []PmapInv => [][A]_vars
  BY <1>1, PTL DEF Spec
<1>. QED
  BY <1>2, PmapInvariant, PTL DEF ReadOnlyStays
=============================================================================
