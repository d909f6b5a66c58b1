---------------------------- MODULE MCKvmThread -----------------------------
(***************************************************************************)
(* KvmThread for TLC: the two blocks of the code and two calls per         *)
(* HostCall, on a debug build, which has every action of a release build   *)
(* and the output besides.                                                 *)
(***************************************************************************)
EXTENDS KvmThread
=============================================================================
