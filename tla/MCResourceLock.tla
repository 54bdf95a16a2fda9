--------------------------- MODULE MCResourceLock ---------------------------
(***************************************************************************)
(* A small instance of ResourceLock: the api and communication threads of  *)
(* a client and a second thread of the program.                            *)
(***************************************************************************)
EXTENDS ResourceLock
=============================================================================
