------------------------------ MODULE MCSgxHeap ------------------------------
(***************************************************************************)
(* Three pages of two bytes: room for a break area, a mapping and a hole   *)
(* between them, and for addresses and lengths off the page boundary.      *)
(* Addresses reach from before the heap to past its end.                   *)
(***************************************************************************)
EXTENDS SgxHeap

MCAddrs == {0, 2, 3, 4, 6, 8, 10}
MCLens == {0, 2, 3, 4}
MCProts == {"R", "RW", "WX"}
=============================================================================
