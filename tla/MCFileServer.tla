---------------------------- MODULE MCFileServer ----------------------------
(* Instances of FileServer for TLC. *)
EXTENDS FileServer

TwoFds == {1, 2}
OneFd == {1}
=============================================================================
