------------------------------ MODULE SnpReport ------------------------------
(***************************************************************************)
(* What the SNP shim hands to a workload that asks for its attestation:    *)
(* the report and the VCEK in one ASN.1 section.  Contents are abstracted  *)
(* to their lengths; the headers are kept byte by byte.                    *)
(***************************************************************************)
EXTENDS Naturals, Sequences

ASN_SECTION_CONSTRUCTED == 48
ASN_OCTET_STRING == 4

Byte(n, i) == (n \div (256 ^ i)) % 256

\* write_asn_header: a tag and a length in the fewest octets.
WriteAsnHeader(tag, len) ==
    IF len < 128 THEN <<tag, len>>
    ELSE IF len < 256 THEN <<tag, 129, len>>
    ELSE IF len < 65536 THEN <<tag, 130, Byte(len, 1), Byte(len, 0)>>
    ELSE IF len < 16777216 THEN <<tag, 131, Byte(len, 2), Byte(len, 1), Byte(len, 0)>>
    ELSE <<tag, 132, Byte(len, 3), Byte(len, 2), Byte(len, 1), Byte(len, 0)>>

\* calc_asn_header_len.
ShortHeaderLen(len) ==
    IF len <= 128 THEN 2 ELSE IF len < 256 THEN 3 ELSE IF len < 65536 THEN 4
    ELSE IF len < 16777216 THEN 5 ELSE 6
CalcAsnHeaderLen(len) ==
    IF len < 128 THEN 2 ELSE IF len < 256 THEN 3 ELSE IF len < 65536 THEN 4
    ELSE IF len < 16777216 THEN 5 ELSE 6

\* asn_wrap: where the body starts is computed, what the header takes is
\* written; the two are the same or the body is misplaced.
AsnWrap(tag, bodyLen) ==
    [header |-> WriteAsnHeader(tag, bodyLen), at |-> CalcAsnHeaderLen(bodyLen),
     body |-> bodyLen]
Total(wrapped) == wrapped.at + wrapped.body

\* asn1_encode_report_vcek: the section holds the VCEK and the report in an
\* octet string.
EncodeReportVcek(report, vcek) ==
    LET octets == AsnWrap(ASN_OCTET_STRING, report)
    IN [vcek |-> vcek, octets |-> octets,
        section |-> AsnWrap(ASN_SECTION_CONSTRUCTED, vcek + Total(octets))]

-----------------------------------------------------------------------------
(* The reference: how a DER decoder reads a header (X.690, 8.1.3 and 10.1). *)

OctetsOf(header) == IF header[2] < 128 THEN 0 ELSE header[2] - 128
DerLength(header) ==
    LET n == OctetsOf(header)
        value[i \in 0 .. n] == IF i = 0 THEN 0 ELSE 256 * value[i - 1] + header[2 + i]
    IN IF n = 0 THEN header[2] ELSE value[n]
Minimal(header) ==
    /\ Len(header) = 2 + OctetsOf(header)
    /\ OctetsOf(header) = 1 => header[3] >= 128
    /\ OctetsOf(header) > 1 => header[3] # 0

DecodesAs(wrapped, bodyLen) ==
    /\ Len(wrapped.header) = wrapped.at
    /\ Minimal(wrapped.header)
    /\ DerLength(wrapped.header) = bodyLen
=============================================================================
