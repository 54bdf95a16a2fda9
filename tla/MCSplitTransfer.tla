-------------------------- MODULE MCSplitTransfer --------------------------
(***************************************************************************)
(* A command whose size is compared, one whose size is not and one of      *)
(* class simx_cmdnull; data of one chunk and of two.  A message has up to  *)
(* 4 packets, as many as a simxShort of three bits counts, and the clock   *)
(* wraps every 4 ms.                                                       *)
(***************************************************************************)
EXTENDS SplitTransfer

CONSTANTS sized, unsized, bare
=============================================================================
