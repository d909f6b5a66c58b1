----------------------------- MODULE HostLaunch -----------------------------
(***************************************************************************)
(* A launch and the certificate cache of the same host: once a keep of the *)
(* SEV backend runs, its guest asks for the VCEK, while updates of the     *)
(* cache run beside it.  A step on the cache touches nothing that a step   *)
(* of the launch touches or reads, so the orders in which the cache's      *)
(* steps come last are all there are to tell apart; and memory a keep asks *)
(* for changes nothing of this, so the cache is used by keeps that have    *)
(* asked for none.                                                         *)
(***************************************************************************)
EXTENDS KeepLaunch, VcekCache

host == <<launch, cache>>

HostInit == Init /\ CacheInit

HostNext ==
    \/ Next /\ CacheInit /\ UNCHANGED cache
    \/ /\ pc = "running" /\ tech = "sev" /\ balloons = 0
       /\ CacheNext /\ UNCHANGED launch

HostSpec == HostInit /\ [][HostNext]_host /\ WF_host(LaunchStep /\ CacheInit /\ UNCHANGED cache)
=============================================================================
