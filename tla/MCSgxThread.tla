---------------------------- MODULE MCSgxThread -----------------------------
(* TLC instance of SgxThread: the three SSA frames of layout.ld and up to   *)
(* three host calls per trapped syscall (mmap makes up to four; two are     *)
(* enough for a sally that follows an ERESUME).                             *)
EXTENDS SgxThread
=============================================================================
