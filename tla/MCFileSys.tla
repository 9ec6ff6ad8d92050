----------------------------- MODULE MCFileSys -----------------------------
(* Instances of FileSys for TLC.  Names and data are words; the data 5 is  *)
(* also the number of a block.                                             *)
EXTENDS FileSys

TwoNames == {1, 2}
=============================================================================
