------------------------------ MODULE MCSnpGuest ------------------------------
(***************************************************************************)
(* SnpGuest with 8 pages: the first four are under the 4 KiB table (the    *)
(* GHCB, another page, two block pages), the last four are one huge leaf   *)
(* with the message pages in its middle.                                   *)
(***************************************************************************)
EXTENDS SnpGuest

MCBlocks == {2, 3}
MCLeafSize == [p \in Pages |-> IF p < 4 THEN Small ELSE Huge]
\* Lengths on both sides of the one-octet and two-octet headers.
MCReportLens == {127, 128}
MCVcekLens == {0, 1, 3950}
MCBufLens == {16, 4000, 7950}
=============================================================================
