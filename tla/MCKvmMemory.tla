---------------------------- MODULE MCKvmMemory ----------------------------
(***************************************************************************)
(* KvmMemory for TLC: pages of two bytes, tables of two pages, two pages   *)
(* of break and three of mappings, so that requests straddle tables, they  *)
(* split into halves, and the host runs out at every point of a request.   *)
(***************************************************************************)
EXTENDS KvmMemory

MCBreaks == {0, 1, 2, 4, 5, 6}
MCAddrs == {4, 6, 8}
MCLens == {0, 2, 3, 6}
=============================================================================
