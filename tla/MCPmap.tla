------------------------------- MODULE MCPmap -------------------------------
(* Instances of Pmap for TLC: the addresses share a page table. *)
EXTENDS Pmap, TLC

CONSTANTS va1, va2, pd1

OneTable == (va1 :> pd1) @@ (va2 :> pd1)

Symm == Permutations(Page)
SymmAll == Permutations(Page) \cup Permutations(Env) \cup Permutations(CPU)
=============================================================================
