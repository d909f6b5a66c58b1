------------------------------- MODULE SnpGuest -------------------------------
(***************************************************************************)
(* The SEV-SNP side of the KVM shim: how it starts, shares pages with the  *)
(* host (the GHCB, the sallyport blocks, the two message pages), leaves    *)
(* for the host through the GHCB, and asks the security processor for a    *)
(* derived key or an attestation report.                                   *)
(*                                                                         *)
(* There is one vCPU, so the guest is one thread of control: pc says where *)
(* it is and `then' what it goes on to when that is done.  Between the     *)
(* guest and the firmware stands the host, which carries every message.    *)
(* An honest host serves what it is asked, in as many goes as it likes;    *)
(* any other host may answer with an error, with nothing, with an earlier  *)
(* answer or with a damaged one.  The host is given the shared pages at a  *)
(* VMGEXIT and returns them: it does not write to them in between.         *)
(***************************************************************************)
EXTENDS ShimPaging, SnpReport, Integers, FiniteSets

CONSTANTS
    Ghcb,           \* the page of the GHCB
    Blocks,         \* the pages of the sallyport blocks, one after the other
    Request,        \* the page of GhcbExtHandle.request
    Response,       \* the page of GhcbExtHandle.response
    LeafSize,       \* the leaf every page is in when the shim starts
    MaxSeqno,       \* u32::MAX
    MaxCalls,       \* bound: calls the workload makes
    MaxStalls,      \* bound: exits in a row in which the host makes no progress
    PayloadLen,     \* SNP_GUEST_MSG_PAYLOAD_LEN = SNP_ATTESTATION_LEN_MAX
    KeyLen,         \* SNP_KEY_LEN
    HeaderLen,      \* size_of::<SnpReportResponseHeader>()
    ReportLens,     \* lengths a report may have
    VcekLens,       \* lengths the host may give for the VCEK (0: none)
    BufLens         \* buffer lengths the workload may pass

\* layout.ld puts the GHCB and the blocks under the 4 KiB table at 0xffe00000.
ASSUME LayoutAssumption ==
    /\ {Ghcb, Request, Response} \cup Blocks \subseteq Pages
    /\ Cardinality({Ghcb, Request, Response} \cup Blocks) = 3 + Cardinality(Blocks)
    /\ Blocks # {} /\ \A b \in Blocks : \A c \in Blocks : b .. c \subseteq Blocks
    /\ LeafSize \in [Pages -> LeafSizes]
    /\ \A p \in Blocks \cup {Ghcb} : LeafSize[p] = Small
    /\ \A p, q \in Pages : p \div LeafSize[p] = q \div LeafSize[p]
                               => LeafSize[q] = LeafSize[p]
ASSUME SizesAssumption ==
    /\ MaxSeqno \in Nat /\ MaxCalls \in Nat /\ MaxStalls \in Nat
    /\ PayloadLen \in Nat /\ KeyLen \in Nat
    /\ HeaderLen \in Nat /\ HeaderLen >= 12   \* 32: room for two ASN.1 headers
    /\ ReportLens \subseteq 0 .. PayloadLen - HeaderLen
    /\ VcekLens \subseteq Nat /\ BufLens \subseteq Nat
    /\ \A len \in VcekLens : PayloadLen + len < 2147483647  \* 4000 + 4096, as a u32

VARIABLES
    honest,     \* whether the host serves what it is asked
    pc,         \* where the guest is
    then,       \* where it goes on when that is done, innermost first
    snp,        \* snp_active(): there is a C-bit
    pt,         \* the shim's page table
    valid,      \* the pages the guest has validated (pvalidate)
    shared,     \* the pages the host's RMP has as shared
    range,      \* the pages set_memory_shared is working on
    locked,     \* GHCB is locked for writing
    fields,     \* the GHCB fields marked valid
    info,       \* what the host left in sw_exit_info1 and sw_exit_info2
    desc,       \* the page state change descriptor in the GHCB's buffer
    seen,       \* the entries read before the exit
    stalls,     \* exits in a row without progress
    extReady,   \* GHCB_EXT is initialised
    vcek,       \* SNP_VCEK: its length once it is asked for
    seqno,      \* SECRETS: os_area.msg_seqno_0
    call,       \* the workload's call under way
    calls,      \* calls made so far
    request,    \* the message in the request page
    response,   \* the message in the response page
    firmware,   \* the security processor: its sequence number and its answers
    sealed,     \* every message ever encrypted under VMPCK0, with its nonce
    ret,        \* what the last call returned
    why         \* why the keep ended

pageVars == <<pt, valid, shared, range>>
ghcbVars == <<locked, fields, info, desc, seen, stalls>>
msgVars == <<seqno, request, response, firmware, sealed>>
callVars == <<extReady, vcek, call, calls, ret>>
vars == <<honest, pc, then, snp, pageVars, ghcbVars, msgVars, callVars, why>>

NoMsg == [seqno |-> 0]      \* SnpGuestMsg::DEFAULT
NoCall == [id |-> 0, type |-> "none"]
NullBuf == -1               \* the workload's null buffer
Unasked == -2               \* SNP_VCEK before its first use
BadVcek == -1               \* SNP_VCEK holds an error
NoRet == [is |-> "none"]
NoAnswer == [err |-> FALSE, info2 |-> 0]

\* SnpMsgType: what is asked, and what answers it.
RspOf(type) == IF type = "KeyReq" THEN "KeyRsp" ELSE "ReportRsp"

-----------------------------------------------------------------------------
(* Control.                                                                *)

Goto(where) == pc' = where /\ UNCHANGED <<then, why>>
GoThen(where, next) == pc' = where /\ then' = next \o then /\ UNCHANGED why
Resume == pc' = Head(then) /\ then' = Tail(then) /\ UNCHANGED why

\* _early_debug_panic, panic! and expect: the keep is over.
End(reason) == pc' = "ended" /\ then' = << >> /\ why' = reason

\* A call returns to the workload.
Return(result) ==
    /\ ret' = result
    /\ call' = NoCall
    /\ pc' = "user" /\ then' = << >> /\ UNCHANGED why

-----------------------------------------------------------------------------
(* Start-up: the C-bit, the GHCB, the sallyport blocks.                    *)

\* The search of the CPUID page for leaf 0x8000001f: no entries mean no
\* encryption, entries without that leaf are fatal.
CBitOf(cpuid) ==
    IF cpuid = {} THEN "off" ELSE IF "8000001f" \in cpuid THEN "on" ELSE "missing"

\* ghcb_msr_make_page_shared, up to the host.
MakeGhcbShared ==
    /\ pt' = ClearCBit(Smash(pt, Ghcb), Ghcb, Ghcb + 1)
    /\ valid' = valid \ {Ghcb}
    /\ UNCHANGED <<shared, range>>

Start ==
    /\ pc = "reset"
    /\ \E cpuid \in SUBSET {"0", "8000001f"} :
        CASE CBitOf(cpuid) = "off" ->
               /\ snp' = FALSE /\ Goto("user") /\ UNCHANGED pageVars
          [] CBitOf(cpuid) = "missing" ->
               /\ End("cpuid") /\ UNCHANGED <<snp, pageVars>>
          [] CBitOf(cpuid) = "on" ->
               /\ snp' = TRUE /\ MakeGhcbShared /\ Goto("msrPsc")
    /\ UNCHANGED <<honest, ghcbVars, msgVars, callVars>>

\* vmgexit_msr: the page state change, then the registration of the GHCB; an
\* error, another response code or another address ends the keep.
MsrPsc ==
    /\ pc = "msrPsc"
    /\ \/ Goto("msrGpa") /\ shared' = shared \cup {Ghcb}
       \/ ~honest /\ End("host") /\ UNCHANGED shared
    /\ UNCHANGED <<honest, snp, pt, valid, range, ghcbVars, msgVars, callVars>>

MsrGpa ==
    /\ pc = "msrGpa"
    /\ \/ pc' = "share" /\ then' = <<"user">> /\ range' = Blocks /\ UNCHANGED why
       \/ ~honest /\ End("host") /\ UNCHANGED range
    /\ UNCHANGED <<honest, snp, pt, valid, shared, ghcbVars, msgVars, callVars>>

-----------------------------------------------------------------------------
(* Exits through the GHCB.                                                 *)

\* write(): with one vCPU, a lock that is held is never released.
Lock(next) == IF locked THEN Goto("spin") /\ UNCHANGED locked ELSE next /\ locked' = TRUE
Unlock == locked' = FALSE

\* vmgexit: the fields of this exit are valid, and no others.
FieldsBare(own) == fields' = own \cup {"info1", "info2"}
FieldsFor(own) == fields' = own \cup {"code", "info1", "info2"}

\* The host's answer to an exit; it refuses one whose fields are not valid.
Answers(need) ==
    IF honest THEN {[err |-> ~(need \subseteq fields), info2 |-> 0]}
    ELSE [err : BOOLEAN, info2 : {0, 1}]

\* do_io_out: every host call of the shim.
DoIoOut ==
    /\ pc = "io"
    /\ Lock(Goto("ioOut") /\ FieldsFor({"rax"}))
    /\ locked => UNCHANGED fields
    /\ UNCHANGED <<honest, snp, pageVars, info, desc, seen, stalls, msgVars, callVars>>

HostIo ==
    /\ pc = "ioOut"
    /\ info' \in Answers({"rax", "code"})
    /\ Goto("ioBack")
    /\ UNCHANGED <<honest, snp, pageVars, locked, fields, desc, seen, stalls, msgVars, callVars>>

IoBack ==
    /\ pc = "ioBack"
    /\ IF info.err THEN End("host") /\ UNCHANGED locked ELSE Resume /\ Unlock
    /\ UNCHANGED <<honest, snp, pageVars, fields, info, desc, seen, stalls, msgVars, callVars>>

-----------------------------------------------------------------------------
(* set_memory_shared.                                                      *)

First(pages) == CHOOSE p \in pages : \A q \in pages : p <= q

\* pvalidate(false): pages the guest no longer trusts.
Pvalidate(pages) == valid \ pages

\* Splitting a leaf takes a page from ALLOCATOR, which may have to ask the host
\* for memory first (balloon): a host call, before the GHCB is locked.
ShareTables ==
    /\ pc = "share"
    /\ \/ /\ \E p \in range : NeedsTable(pt, p)
          /\ GoThen("io", <<"shareLock">>)
       \/ Goto("shareLock")
    /\ UNCHANGED <<honest, snp, pageVars, ghcbVars, msgVars, callVars>>

\* The descriptor: one entry for each page, from the first to the last.
DescOf(pages) == [cur |-> 0, end |-> Cardinality(pages) - 1]
EntryPage(i) == First(range) + i

\* smash and pvalidate every page, clear the C-bit, then lock and describe.
SharePages ==
    /\ pc = "shareLock"
    /\ LET first == First(range)
           end == first + Cardinality(range)
       IN pt' = ClearCBit(SmashRange(pt, first, end), first, end)
    /\ valid' = Pvalidate(range)
    /\ Lock(desc' = DescOf(range) /\ Goto("psc"))
    /\ locked => UNCHANGED desc
    /\ UNCHANGED <<honest, snp, shared, range, fields, info, seen, stalls, msgVars, callVars>>

\* The loop's head: done when the host has passed the last entry.
PscDone == desc.cur > desc.end

PscLoop ==
    /\ pc = "psc"
    /\ IF PscDone THEN Resume /\ Unlock /\ UNCHANGED <<seen, fields>>
       ELSE /\ seen' = desc
            /\ FieldsFor({"scratch"})
            /\ Goto("pscOut")
            /\ UNCHANGED locked
    /\ UNCHANGED <<honest, snp, pageVars, info, desc, stalls, msgVars, callVars>>

\* The host changes some pages and moves on; another host writes anything.
HonestPsc(cur) ==
    /\ cur \in desc.cur .. desc.end + 1
    /\ shared' = shared \cup {EntryPage(i) : i \in desc.cur .. cur - 1}
    /\ desc' = [desc EXCEPT !.cur = cur]
HostPsc ==
    /\ pc = "pscOut"
    /\ info' \in Answers({"scratch", "code"})
    /\ \E cur, end \in 0 .. Cardinality(range) :
        /\ IF honest THEN end = desc.end /\ HonestPsc(cur)
           ELSE desc' = [cur |-> cur, end |-> end] /\ UNCHANGED shared
        /\ stalls' = IF cur > desc.cur THEN 0 ELSE IF cur < desc.cur THEN stalls
                     ELSE stalls + 1
        /\ stalls' <= MaxStalls
    /\ Goto("pscBack")
    /\ UNCHANGED <<honest, snp, pt, valid, range, locked, fields, seen, msgVars, callVars>>

\* An error, or entries that went the wrong way, end the keep.
WentBackUnchecked == desc.end > seen.end
WentBack == desc.end > seen.end \/ seen.cur > desc.cur
PscBack ==
    /\ pc = "pscBack"
    /\ IF info.err \/ info.info2 # 0 \/ WentBack THEN End("host") ELSE Goto("psc")
    /\ UNCHANGED <<honest, snp, pageVars, ghcbVars, msgVars, callVars>>

-----------------------------------------------------------------------------
(* The workload's calls, up to the message.                                *)

Fails(errno) == [is |-> "err", id |-> calls + 1, errno |-> errno]
Probed(len) == [is |-> "probe", id |-> calls + 1, len |-> len]

NewCall(type, buf, nonceOk) ==
    [id |-> calls + 1, type |-> type, buf |-> buf, nonceOk |-> nonceOk]

\* The guest goes on to the message, after the message pages if they are not
\* shared yet (lazy_ghcb_ext).
Continue == IF extReady THEN Goto("encrypt") ELSE Goto("extInit")

\* An ordinary host call.
Syscall ==
    /\ pc = "user" /\ calls < MaxCalls /\ snp
    /\ calls' = calls + 1
    /\ GoThen("io", <<"user">>)
    /\ UNCHANGED <<honest, snp, pageVars, ghcbVars, msgVars, extReady, vcek, call, ret>>

\* HostCall::get_key.
GetKey ==
    /\ pc = "user" /\ calls < MaxCalls
    /\ calls' = calls + 1
    /\ \E null \in BOOLEAN, len \in BufLens :
        IF ~snp THEN Return(Probed(0))
        ELSE IF null THEN Return(Probed(KeyLen))
        ELSE IF len < KeyLen THEN Return(Fails("EMSGSIZE"))
        ELSE /\ call' = NewCall("KeyReq", len, TRUE)
             /\ Continue
             /\ UNCHANGED ret
    /\ UNCHANGED <<honest, snp, pageVars, ghcbVars, msgVars, extReady, vcek>>

\* HostCall::get_attestation, up to the VCEK, which is asked for once.
GetAttestation ==
    /\ pc = "user" /\ calls < MaxCalls
    /\ calls' = calls + 1
    /\ \E null, nonceOk \in BOOLEAN, len \in BufLens :
        IF ~snp THEN Return(Probed(0))
        ELSE /\ call' = NewCall("ReportReq", IF null THEN NullBuf ELSE len, nonceOk)
             /\ IF vcek = Unasked THEN GoThen("io", <<"vcek">>) ELSE Goto("attest")
             /\ UNCHANGED ret
    /\ UNCHANGED <<honest, snp, pageVars, ghcbVars, msgVars, extReady, vcek>>

\* SNP_VCEK: the host's answer, or the error in its place, is kept for good.
FetchVcek ==
    /\ pc = "vcek"
    /\ vcek' \in {IF len = 0 THEN BadVcek ELSE len : len \in VcekLens}
    /\ Goto("attest")
    /\ UNCHANGED <<honest, snp, pageVars, ghcbVars, msgVars, extReady, call, calls, ret>>

\* The length get_attestation reports for a null buffer.
Probe(len) == PayloadLen + len

ThisFails(errno) == [is |-> "err", id |-> call.id, errno |-> errno]
Attest ==
    /\ pc = "attest"
    /\ IF vcek = BadVcek THEN Return(ThisFails("EIO"))
       ELSE IF call.buf = NullBuf
       THEN Return([is |-> "probe", id |-> call.id, len |-> Probe(vcek)])
       ELSE IF call.buf < PayloadLen THEN Return(ThisFails("EMSGSIZE"))
       ELSE IF ~call.nonceOk THEN Return(ThisFails("EINVAL"))
       ELSE Continue /\ UNCHANGED <<call, ret>>
    /\ UNCHANGED <<honest, snp, pageVars, ghcbVars, msgVars, extReady, vcek, calls>>

\* GhcbExtHandle::init.
ExtInit ==
    /\ pc = "extInit"
    /\ range' = {Request}
    /\ GoThen("share", <<"extResponse">>)
    /\ UNCHANGED <<honest, snp, pt, valid, shared, ghcbVars, msgVars, callVars>>
ExtResponse ==
    /\ pc = "extResponse"
    /\ range' = {Response}
    /\ extReady' = TRUE
    /\ GoThen("share", <<"encrypt">>)
    /\ UNCHANGED <<honest, snp, pt, valid, shared, ghcbVars, msgVars, vcek, call, calls, ret>>

-----------------------------------------------------------------------------
(* The message to the security processor and its answer.                   *)

\* enc_payload: the nonce is the sequence number; past u32 it panics.
EncPayload ==
    /\ pc = "encrypt"
    /\ LET no == seqno + 1
           msg == [seqno |-> no, type |-> call.type, id |-> call.id]
       IN IF no > MaxSeqno THEN End("seqno") /\ UNCHANGED <<request, sealed>>
          ELSE /\ request' = msg
               /\ sealed' = sealed \cup {[nonce |-> no, msg |-> msg]}
               /\ Goto("request")
    /\ UNCHANGED <<honest, snp, pageVars, ghcbVars, seqno, response, firmware, callVars>>

\* GhcbExtHandle::guest_req: the response page is reset, then GUEST_REQUEST.
GuestReq ==
    /\ pc = "request"
    /\ response' = NoMsg
    /\ Lock(Goto("reqOut") /\ FieldsFor({}))
    /\ locked => UNCHANGED fields
    /\ UNCHANGED <<honest, snp, pageVars, info, desc, seen, stalls,
                   seqno, request, firmware, sealed, callVars>>

\* The firmware takes the message with the number it expects, and answers
\* with the next; both have then moved by two.
Statuses == {"ok", "invalid", "other"}
AnswersOf(msg) ==
    [seqno : {msg.seqno + 1}, type : {RspOf(msg.type)}, id : {msg.id},
     status : Statuses, len : IF msg.type = "KeyReq" THEN {KeyLen} ELSE ReportLens,
     genuine : {TRUE}]
Expected(msg) == msg.seqno = firmware.seqno + 1
Deliver(rsp) ==
    /\ firmware' = [seqno |-> firmware.seqno + 2, answers |-> firmware.answers \cup {rsp}]
    /\ sealed' = sealed \cup {[nonce |-> rsp.seqno, msg |-> rsp]}

\* A damaged message: it may look like any answer, but its tag is wrong.
Damaged(rsp) == {[rsp EXCEPT !.genuine = FALSE, !.seqno = no] : no \in {rsp.seqno, request.seqno + 1}}

\* The host passes the message on and the answer back; or it reports an error
\* (before or after the firmware has answered); or it leaves the response page
\* empty, or puts an earlier or a damaged answer there.
HostRequest ==
    /\ pc = "reqOut"
    /\ \/ IF Expected(request)
          THEN /\ \E rsp \in AnswersOf(request) : Deliver(rsp) /\ response' = rsp
               /\ info' \in Answers({"info1", "info2"})
          ELSE /\ info' = [err |-> FALSE, info2 |-> 1]
               /\ UNCHANGED <<response, firmware, sealed>>
       \/ /\ ~honest
          /\ info' \in Answers({})
          /\ response' \in {NoMsg} \cup firmware.answers
                           \cup UNION {Damaged(rsp) : rsp \in firmware.answers}
          /\ UNCHANGED <<firmware, sealed>>
    /\ Goto("reqBack")
    /\ UNCHANGED <<honest, snp, pageVars, locked, fields, desc, seen, stalls,
                   seqno, request, callVars>>

\* guest_req's end: the number advances only if the exit succeeded, and a
\* request that failed ends the keep ("request failed").
Advance == seqno + 2
AfterRequestLenient ==
    IF info.err \/ info.info2 # 0 THEN Goto("user") /\ UNCHANGED seqno
    ELSE IF Advance > MaxSeqno THEN End("seqno") /\ UNCHANGED seqno
    ELSE seqno' = Advance /\ Goto("decrypt")
AfterRequest ==
    IF info.err \/ info.info2 # 0 THEN End("host") /\ UNCHANGED seqno
    ELSE IF Advance > MaxSeqno THEN End("seqno") /\ UNCHANGED seqno
    ELSE seqno' = Advance /\ Goto("decrypt")
ReqBack ==
    /\ pc = "reqBack"
    /\ AfterRequest
    /\ Unlock
    /\ UNCHANGED <<honest, snp, pageVars, fields, info, desc, seen, stalls,
                   request, response, firmware, sealed, callVars>>

\* dec_payload's checks of the header, against the request; the size is at
\* most what the caller has room for.
HeaderLoose(rsp) == rsp # NoMsg /\ rsp.type = RspOf(request.type)
HeaderOk(rsp) ==
    /\ rsp # NoMsg
    /\ rsp.seqno = request.seqno + 1
    /\ rsp.type = RspOf(request.type)

\* get_key's and get_attestation's end: what the answer says.
Done(rsp) == [is |-> "ok", id |-> call.id, rsp |-> rsp, vcek |-> vcek, buf |-> call.buf]
Encoded(rsp) == EncodeReportVcek(rsp.len, vcek)
DecPayload ==
    /\ pc = "decrypt"
    /\ IF ~HeaderOk(response) THEN End("header") /\ UNCHANGED <<call, ret>>
       ELSE IF ~response.genuine THEN End("tag") /\ UNCHANGED <<call, ret>>
       ELSE IF response.status = "invalid" THEN Return(ThisFails("EIO"))
       ELSE IF response.status = "other" THEN End("status") /\ UNCHANGED <<call, ret>>
       ELSE IF /\ call.type = "ReportReq"
               /\ Total(Encoded(response).section) > call.buf
       THEN End("buffer") /\ UNCHANGED <<call, ret>>
       ELSE Return(Done(response))
    /\ UNCHANGED <<honest, snp, pageVars, ghcbVars, msgVars, extReady, vcek, calls>>

-----------------------------------------------------------------------------
(* The specification.                                                      *)

Init ==
    /\ honest \in BOOLEAN
    /\ pc = "reset" /\ then = << >> /\ why = "none"
    /\ snp = FALSE
    /\ pt = OffsetTable(LeafSize)
    /\ valid = Pages /\ shared = {} /\ range = {}
    /\ locked = FALSE /\ fields = {} /\ info = NoAnswer
    /\ desc = [cur |-> 0, end |-> 0] /\ seen = desc /\ stalls = 0
    /\ extReady = FALSE /\ vcek = Unasked
    /\ seqno = 0 /\ request = NoMsg /\ response = NoMsg
    /\ firmware = [seqno |-> 0, answers |-> {}] /\ sealed = {}
    /\ call = NoCall /\ calls = 0 /\ ret = NoRet

\* The workload has stopped calling, or the keep is over.
Halted ==
    /\ pc = "ended" \/ (pc = "user" /\ calls = MaxCalls)
    /\ UNCHANGED vars

GuestStep ==
    \/ Start \/ MsrPsc \/ MsrGpa
    \/ DoIoOut \/ IoBack
    \/ ShareTables \/ SharePages \/ PscLoop \/ PscBack
    \/ FetchVcek \/ Attest \/ ExtInit \/ ExtResponse
    \/ EncPayload \/ GuestReq \/ ReqBack \/ DecPayload
HostStep == HostIo \/ HostPsc \/ HostRequest
Next == GuestStep \/ HostStep \/ Syscall \/ GetKey \/ GetAttestation \/ Halted

\* The guest runs, and the host comes back from every exit.
Spec == Init /\ [][Next]_vars /\ WF_vars(GuestStep) /\ WF_vars(HostStep)

-----------------------------------------------------------------------------
(* Properties.                                                             *)

\* No two different messages, the firmware's answers included, are ever
\* encrypted under one nonce of VMPCK0: the counter only advances when a
\* request succeeded, so every failure must be the keep's last (get_key and
\* get_report expect(), ghcb.rs).
NonceOnce == \A m, n \in sealed : m.nonce = n.nonce => m = n

\* What a call returns is the firmware's answer to that very call, never an
\* earlier one and never one the host made up (dec_payload).
AnswerIsThisCalls ==
    ret.is = "ok" =>
        /\ ret.rsp.id = ret.id
        /\ \E m \in sealed : m.msg = ret.rsp

\* Guest and firmware count together whenever the workload runs: neither a
\* lost answer nor a refused request leaves them apart (inc_msg_seqno_0).
CountersAgree == pc = "user" => seqno = firmware.seqno

\* Both together: the counter that is the nonce is never used twice and never
\* lost.
NoncesSound == NonceOnce /\ CountersAgree

\* Exactly the pages the shim shares are unencrypted and unvalidated, whatever
\* leaves they were in, no translation changes, and with an honest host the
\* pages are shared before they are used (smash, clear_c_bit_address_range,
\* set_memory_shared).
PagesAsAsked ==
    /\ \A p \in Pages : Translate(pt, p) = p /\ (pt[p].enc <=> p \in valid)
    /\ Pages \ valid \subseteq {Ghcb, Request, Response} \cup Blocks
    /\ shared \subseteq Pages \ valid
    /\ honest /\ snp /\ pc = "user" => Blocks \cup {Ghcb} \subseteq shared
    /\ honest /\ pc \in {"encrypt", "request", "reqOut", "reqBack", "decrypt"}
           => {Request, Response} \subseteq shared

\* A host that serves every exit is never taken for an attacker: the keep then
\* ends only over its CPUID page, the firmware's refusal, the end of the
\* sequence numbers or a buffer smaller than the length it was told.
HonestHostServes ==
    honest => why \in {"none", "cpuid", "status", "seqno", "buffer"}

\* A buffer of the length get_attestation reports holds the encoding, and the
\* encoding reads back as the VCEK and the report (asn1_encode_report_vcek).
ReportDecodes ==
    ret.is = "ok" /\ ret.rsp.type = "ReportRsp" =>
        LET e == EncodeReportVcek(ret.rsp.len, ret.vcek)
        IN /\ DecodesAs(e.octets, ret.rsp.len)
           /\ DecodesAs(e.section, ret.vcek + Len(e.octets.header) + ret.rsp.len)
           /\ Total(e.section) <= Probe(ret.vcek)

\* A call ends: the workload runs again or the keep is over, if the host comes
\* back from every exit and does not stop advancing through the page state
\* changes (the loop in set_memory_shared); no lock is waited for in vain.
CallsReturn == pc # "user" ~> pc \in {"user", "ended"}
=============================================================================
