------------------------------ MODULE HostCall ------------------------------
(***************************************************************************)
(* What one sallyport promises the code inside the keep, whatever carries  *)
(* it (an SGX enclave transition, a KVM exit): a request handed to the     *)
(* host is executed exactly once before control comes back, nothing is     *)
(* executed on the host that was not handed over, and the keep may stop    *)
(* at any point (exit, error, panic) without returning.                    *)
(*                                                                         *)
(* The concrete transports implement this module under a refinement        *)
(* mapping (Service in SgxThread, SallyportBlock and KvmThread).           *)
(***************************************************************************)

VARIABLES
    phase,      \* who owns the request: "guest", "host" or "stopped"
    served      \* whether the host executed the request it owns

callVars == <<phase, served>>

CallTypeOK == phase \in {"guest", "host", "stopped"} /\ served \in BOOLEAN

Init == phase = "guest" /\ served = FALSE

\* The guest hands a request over.
Call == phase = "guest" /\ phase' = "host" /\ served' = FALSE

\* The host executes it.
Serve == phase = "host" /\ ~served /\ served' = TRUE /\ UNCHANGED phase

\* The guest gets control back with the results.
Return == phase = "host" /\ served /\ phase' = "guest" /\ served' = FALSE

\* The keep ends; nothing happens afterwards.
Stop == phase # "stopped" /\ phase' = "stopped" /\ served' = FALSE

Next == Call \/ Serve \/ Return \/ Stop

Spec == Init /\ [][Next]_callVars
=============================================================================
