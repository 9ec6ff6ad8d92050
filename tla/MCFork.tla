------------------------------- MODULE MCFork -------------------------------
(* Instances of Fork for TLC: a code, a shared, a data and a stack page. *)
EXTENDS Fork, TLC

Pages4 == (0 :> "ro") @@ (1 :> "share") @@ (2 :> "rw") @@ (3 :> "rw")
Symm == Permutations(Page)
=============================================================================
