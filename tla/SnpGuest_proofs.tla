--------------------------- MODULE SnpGuest_proofs ---------------------------
(***************************************************************************)
(* The messages to the security processor, for every page layout, every    *)
(* number of calls and every host.                                         *)
(*                                                                         *)
(* NonceOnce and AnswerIsThisCalls rest on where the two counters are at   *)
(* each stage of a request, which MsgInv says.  The stages are values of   *)
(* pc, and pc is taken off the stack `then' when a nested exit is over, so *)
(* that what the stack holds has to be part of the invariant (ControlOK).  *)
(***************************************************************************)
EXTENDS SnpGuest, SequenceTheorems, FiniteSetTheorems, TLAPS

IoPc == {"io", "ioOut", "ioBack"}
SharePc == {"share", "shareLock", "psc", "pscOut", "pscBack"}
FlatPc == {"reset", "msrPsc", "msrGpa", "user", "vcek", "attest", "extInit", "extResponse", "encrypt"}
MsgPc == {"request", "reqOut", "reqBack", "decrypt"}
Over == {"ended", "spin"}
IdlePc == IoPc \cup SharePc \cup FlatPc

\* What sharing pages goes on to.
AfterShare == {"user", "extResponse", "encrypt"}

ControlOK ==
    /\ pc \in IdlePc \cup MsgPc \cup Over
    /\ pc \in IoPc => \/ then = <<"user">> \/ then = <<"vcek">>
                      \/ \E x \in AfterShare : then = <<"shareLock", x>>
    /\ pc \in SharePc => \E x \in AfterShare : then = <<x>>
    /\ pc \in FlatPc \cup MsgPc => then = << >>

AnswerSet ==
    [seqno : Nat, type : {"KeyRsp", "ReportRsp"}, id : Nat, status : Statuses, len : Nat, genuine : {TRUE}]

\* The firmware's answers were sealed, under the numbers it has passed.
AnswersOK ==
    /\ firmware.seqno \in Nat
    /\ firmware.answers \subseteq AnswerSet
    /\ \A a \in firmware.answers : a.seqno <= firmware.seqno /\ \E m \in sealed : m.msg = a

\* No message was sealed under a number beyond n.
SealedUpTo(n) == \A m \in sealed : m.nonce <= n

\* The request of the call under way, which comes after the number n.
Asked(n) == request.seqno = n + 1 /\ request.id = call.id

\* What the response page may hold after an exit.
ResponseOK ==
    /\ response = NoMsg \/ response \in firmware.answers \/ response.genuine = FALSE
    /\ \A a \in firmware.answers : a.seqno = request.seqno + 1 => a.id = request.id

MsgInv ==
    /\ seqno \in Nat /\ (\A m \in sealed : m.nonce \in Nat) /\ NonceOnce /\ AnswersOK
    /\ pc \in IdlePc => firmware.seqno = seqno /\ SealedUpTo(seqno)
    /\ pc \in {"request", "reqOut"} => firmware.seqno = seqno /\ SealedUpTo(seqno + 1) /\ Asked(seqno)
    /\ pc = "reqBack" =>
          /\ Asked(seqno) /\ ResponseOK
          /\ firmware.seqno = seqno \/ (firmware.seqno = seqno + 2 /\ SealedUpTo(seqno + 2))
    /\ pc = "decrypt" =>
          /\ seqno >= 2 /\ Asked(seqno - 2) /\ ResponseOK
          /\ firmware.seqno = seqno - 2 \/ (firmware.seqno = seqno /\ SealedUpTo(seqno))

CallOK == calls \in Nat /\ call.id \in Nat

SnpInv == ControlOK /\ CallOK /\ MsgInv /\ AnswerIsThisCalls

LEMMA SnpInitInv == Init => SnpInv
<1> SUFFICES ASSUME Init PROVE SnpInv
  OBVIOUS
<1>1. ControlOK
  BY DEF Init, ControlOK, IdlePc, IoPc, SharePc, FlatPc, MsgPc, Over
<1>2. CallOK
  BY DEF Init, CallOK, NoCall
<1>3. MsgInv
  BY DEF Init, MsgInv, NonceOnce, AnswersOK, SealedUpTo, IdlePc, IoPc, SharePc, FlatPc
<1>4. AnswerIsThisCalls
  BY DEF Init, AnswerIsThisCalls, NoRet
<1> QED
  BY <1>1, <1>2, <1>3, <1>4 DEF SnpInv

-----------------------------------------------------------------------------
(* Steps that leave the messages alone. *)

\* A step between two stages that are not those of a request.
Quiet ==
    /\ pc \in IdlePc /\ pc' \in IdlePc \cup Over
    /\ UNCHANGED msgVars
    /\ CallOK'
    /\ ret' = ret \/ ret'.is # "ok"

LEMMA QuietKeeps ==
    ASSUME SnpInv, Quiet
    PROVE  MsgInv' /\ AnswerIsThisCalls'
<1>1. UNCHANGED <<seqno, request, response, firmware, sealed>>
  BY DEF Quiet, msgVars
<1>2. pc' \notin MsgPc
  BY DEF Quiet, IdlePc, IoPc, SharePc, FlatPc, MsgPc, Over
<1>3. MsgInv'
  BY <1>1, <1>2 DEF SnpInv, MsgInv, Quiet, NonceOnce, AnswersOK, SealedUpTo, MsgPc
<1>4. AnswerIsThisCalls'
  BY <1>1 DEF SnpInv, Quiet, AnswerIsThisCalls
<1> QED
  BY <1>3, <1>4

\* The stack of one and two entries.
LEMMA Stacks ==
    ASSUME NEW x, NEW y
    PROVE  /\ Head(<<x>>) = x /\ Tail(<<x>>) = << >>
           /\ Head(<<x, y>>) = x /\ Tail(<<x, y>>) = <<y>>
           /\ <<x>> \o <<y>> = <<x, y>> /\ <<x>> \o << >> = <<x>>
<1>1. Head(<<x>>) = x /\ Tail(<<x>>) = << >>
  OBVIOUS
<1>2. Head(<<x, y>>) = x /\ Tail(<<x, y>>) = <<y>>
  OBVIOUS
<1>3. <<x>> \o <<y>> = <<x, y>>
  <2>1. <<x>> \in Seq({x, y}) /\ <<y>> \in Seq({x, y}) /\ <<x, y>> \in Seq({x, y})
    OBVIOUS
  <2>2. /\ <<x>> \o <<y>> \in Seq({x, y}) /\ Len(<<x>> \o <<y>>) = 2
        /\ \A i \in 1..2 : (<<x>> \o <<y>>)[i] = <<x, y>>[i]
    BY <2>1, ConcatProperties
  <2> QED
    BY <2>1, <2>2, SeqEqual
<1>4. <<x>> \o << >> = <<x>>
  OBVIOUS
<1> QED
  BY <1>1, <1>2, <1>3, <1>4

LEMMA StartSteps ==
    ASSUME SnpInv, Start \/ MsrPsc \/ MsrGpa
    PROVE  ControlOK' /\ Quiet
<1> USE DEF SnpInv, CallOK, ControlOK, Quiet, IdlePc, IoPc, SharePc, FlatPc, MsgPc, Over, AfterShare,
            Goto, End, callVars
<1>1. CASE Start
  <2>1. pc = "reset" /\ UNCHANGED <<msgVars, callVars>>
    BY <1>1 DEF Start
  <2>2. pc' \in {"user", "ended", "msrPsc"} /\ then' = << >>
    BY <1>1 DEF Start, CBitOf
  <2> QED
    BY <2>1, <2>2
<1>2. CASE MsrPsc
  BY <1>2 DEF MsrPsc
<1>3. CASE MsrGpa
  BY <1>3 DEF MsrGpa
<1> QED
  BY <1>1, <1>2, <1>3

LEMMA IoSteps ==
    ASSUME SnpInv, DoIoOut \/ HostIo \/ IoBack
    PROVE  ControlOK' /\ Quiet
<1> USE DEF SnpInv, CallOK, ControlOK, Quiet, IdlePc, IoPc, SharePc, FlatPc, MsgPc, Over, AfterShare,
            Goto, GoThen, Resume, End, Return, callVars
<1>1. CASE DoIoOut
  <2>1. pc = "io" /\ pc' \in {"ioOut", "spin"} /\ UNCHANGED <<then, msgVars, callVars>>
    BY <1>1 DEF DoIoOut, Lock
  <2> QED
    BY <2>1
<1>2. CASE HostIo
  BY <1>2 DEF HostIo
<1>3. CASE IoBack
  <2>1. pc = "ioBack" /\ UNCHANGED <<msgVars, callVars>>
    BY <1>3 DEF IoBack
  <2>2. CASE pc' = "ended" /\ then' = << >>
    BY <2>1, <2>2
  <2>3. CASE pc' = Head(then) /\ then' = Tail(then)
    <3>2. CASE then = <<"user">> \/ then = <<"vcek">>
      <4>1. pc' \in {"user", "vcek"} /\ then' = << >>
        BY <2>3, <3>2, Stacks
      <4> QED
        BY <2>1, <4>1
    <3>3. ASSUME NEW x \in AfterShare, then = <<"shareLock", x>> PROVE ControlOK' /\ Quiet
      <4>1. pc' = "shareLock" /\ then' = <<x>>
        BY <2>3, <3>3, Stacks
      <4> QED
        BY <2>1, <4>1
    <3> QED
      BY <2>1, <3>2, <3>3
  <2> QED
    BY <1>3, <2>2, <2>3 DEF IoBack
<1> QED
  BY <1>1, <1>2, <1>3

LEMMA ShareSteps ==
    ASSUME SnpInv, ShareTables \/ SharePages \/ PscLoop \/ HostPsc \/ PscBack
    PROVE  ControlOK' /\ Quiet
<1> USE DEF SnpInv, CallOK, ControlOK, Quiet, IdlePc, IoPc, SharePc, FlatPc, MsgPc, Over, AfterShare,
            Goto, GoThen, Resume, End, Return, callVars
<1>1. CASE ShareTables
  <2>1. pc = "share" /\ UNCHANGED <<msgVars, callVars>>
    BY <1>1 DEF ShareTables
  <2>2. PICK x \in AfterShare : then = <<x>>
    BY <2>1
  <2>3. \/ pc' = "shareLock" /\ then' = then
        \/ pc' = "io" /\ then' = <<"shareLock">> \o then
    BY <1>1 DEF ShareTables
  <2>4. <<"shareLock">> \o <<x>> = <<"shareLock", x>>
    BY Stacks
  <2> QED
    BY <2>1, <2>2, <2>3, <2>4
<1>2. CASE SharePages
  <2>1. pc = "shareLock" /\ pc' \in {"psc", "spin"} /\ UNCHANGED <<then, msgVars, callVars>>
    BY <1>2 DEF SharePages, Lock
  <2> QED
    BY <2>1
<1>3. CASE PscLoop
  <2>1. pc = "psc" /\ UNCHANGED <<msgVars, callVars>>
    BY <1>3 DEF PscLoop
  <2>2. PICK x \in AfterShare : then = <<x>>
    BY <2>1
  <2>3. \/ pc' = "pscOut" /\ then' = then
        \/ pc' = Head(then) /\ then' = Tail(then)
    BY <1>3 DEF PscLoop
  <2>4. Head(<<x>>) = x /\ Tail(<<x>>) = << >>
    BY Stacks
  <2> QED
    BY <2>1, <2>2, <2>3, <2>4
<1>4. CASE HostPsc
  <2>1. pc = "pscOut" /\ pc' = "pscBack" /\ UNCHANGED <<then, msgVars, callVars>>
    BY <1>4 DEF HostPsc
  <2> QED
    BY <2>1
<1>5. CASE PscBack
  <2>1. pc = "pscBack" /\ UNCHANGED <<msgVars, callVars>>
    BY <1>5 DEF PscBack
  <2>2. (pc' = "psc" /\ then' = then) \/ (pc' = "ended" /\ then' = << >>)
    BY <1>5 DEF PscBack
  <2> QED
    BY <2>1, <2>2
<1> QED
  BY <1>1, <1>2, <1>3, <1>4, <1>5

LEMMA CallSteps ==
    ASSUME SnpInv, Syscall \/ GetKey \/ GetAttestation \/ FetchVcek \/ Attest \/ ExtInit \/ ExtResponse
    PROVE  ControlOK' /\ Quiet
<1> USE DEF SnpInv, CallOK, ControlOK, Quiet, IdlePc, IoPc, SharePc, FlatPc, MsgPc, Over, AfterShare,
            Goto, GoThen, Resume, End, Return, callVars
<1>1. CASE Syscall
  <2>1. pc = "user" /\ pc' = "io" /\ then' = <<"user">> \o then /\ calls' = calls + 1
        /\ UNCHANGED <<msgVars, call, ret>>
    BY <1>1 DEF Syscall
  <2>2. then' = <<"user">>
    BY <2>1
  <2> QED
    BY <2>1, <2>2
<1>2. CASE GetKey
  <2>1. pc = "user" /\ calls' = calls + 1 /\ calls' \in Nat /\ UNCHANGED msgVars /\ then = << >>
    BY <1>2 DEF GetKey
  <2>2. pc' \in {"user", "encrypt", "extInit"} /\ then' = << >>
    BY <1>2, <2>1 DEF GetKey, Continue
  <2>3. call'.id \in Nat /\ (ret' = ret \/ ret'.is # "ok")
    BY <1>2, <2>1 DEF GetKey, Continue, NewCall, NoCall, Probed, Fails
  <2> QED
    BY <2>1, <2>2, <2>3
<1>3. CASE GetAttestation
  <2>1. pc = "user" /\ calls' = calls + 1 /\ calls' \in Nat /\ UNCHANGED msgVars /\ then = << >>
    BY <1>3 DEF GetAttestation
  <2>2. \/ pc' \in {"user", "attest"} /\ then' = << >>
        \/ pc' = "io" /\ then' = <<"vcek">> \o then
    BY <1>3, <2>1 DEF GetAttestation
  <2>3. call'.id \in Nat /\ (ret' = ret \/ ret'.is # "ok")
    BY <1>3, <2>1 DEF GetAttestation, NewCall, NoCall, Probed
  <2>4. <<"vcek">> \o << >> = <<"vcek">>
    BY Stacks
  <2> QED
    BY <2>1, <2>2, <2>3, <2>4
<1>4. CASE FetchVcek
  BY <1>4 DEF FetchVcek
<1>5. CASE Attest
  <2>1. pc = "attest" /\ UNCHANGED <<calls, msgVars>> /\ then = << >>
    BY <1>5 DEF Attest
  <2>2. pc' \in {"user", "encrypt", "extInit"} /\ then' = << >>
    BY <1>5, <2>1 DEF Attest, Continue
  <2>3. call'.id \in Nat /\ (ret' = ret \/ ret'.is # "ok")
    BY <1>5, <2>1 DEF Attest, Continue, NoCall, ThisFails
  <2> QED
    BY <2>1, <2>2, <2>3
<1>6. CASE ExtInit
  <2>1. pc = "extInit" /\ pc' = "share" /\ then' = <<"extResponse">> \o then /\ UNCHANGED <<msgVars, callVars>>
    BY <1>6 DEF ExtInit
  <2>2. then' = <<"extResponse">>
    BY <2>1
  <2> QED
    BY <2>1, <2>2
<1>7. CASE ExtResponse
  <2>1. pc = "extResponse" /\ pc' = "share" /\ then' = <<"encrypt">> \o then
        /\ UNCHANGED <<msgVars, call, calls, ret>>
    BY <1>7 DEF ExtResponse
  <2>2. then' = <<"encrypt">>
    BY <2>1
  <2> QED
    BY <2>1, <2>2
<1> QED
  BY <1>1, <1>2, <1>3, <1>4, <1>5, <1>6, <1>7

-----------------------------------------------------------------------------
(* The steps of a request. *)

LEMMA EncPayloadStep ==
    ASSUME SnpInv, EncPayload
    PROVE  SnpInv'
<1> USE DEF SnpInv, IdlePc, IoPc, SharePc, FlatPc, MsgPc, Over
<1>0. pc = "encrypt" /\ then = << >> /\ UNCHANGED <<seqno, response, firmware, call, calls, ret>>
  BY DEF EncPayload, ControlOK, callVars
<1>1. CASE seqno + 1 > MaxSeqno
  <2>1. pc' = "ended" /\ then' = << >> /\ UNCHANGED <<request, sealed>>
    BY <1>1 DEF EncPayload, End
  <2>2. ControlOK' /\ CallOK'
    BY <1>0, <2>1 DEF ControlOK, CallOK
  <2>3. MsgInv'
    BY <1>0, <2>1 DEF MsgInv, NonceOnce, AnswersOK
  <2> QED
    BY <1>0, <2>1, <2>2, <2>3 DEF AnswerIsThisCalls
<1>2. CASE ~(seqno + 1 > MaxSeqno)
  <2> DEFINE msg == [seqno |-> seqno + 1, type |-> call.type, id |-> call.id]
             new == [nonce |-> seqno + 1, msg |-> msg]
  <2>1. pc' = "request" /\ then' = then /\ request' = msg /\ sealed' = sealed \cup {new}
    BY <1>2 DEF EncPayload, Goto
  <2>2. ControlOK' /\ CallOK'
    BY <1>0, <2>1 DEF ControlOK, CallOK
  <2>3. new.nonce = seqno + 1 /\ msg.seqno = seqno + 1 /\ msg.id = call.id
    OBVIOUS
  <2> HIDE DEF msg, new
  <2>4. seqno \in Nat /\ firmware.seqno = seqno /\ SealedUpTo(seqno) /\ \A m \in sealed : m.nonce \in Nat
    BY <1>0 DEF MsgInv
  <2>5. NonceOnce'
    BY <2>1, <2>3, <2>4 DEF MsgInv, NonceOnce, SealedUpTo
  <2>6. AnswersOK'
    BY <1>0, <2>1 DEF MsgInv, AnswersOK
  <2>7. (\A m \in sealed' : m.nonce \in Nat) /\ SealedUpTo(seqno + 1)' /\ Asked(seqno)'
    BY <1>0, <2>1, <2>3, <2>4 DEF SealedUpTo, Asked
  <2>8. MsgInv'
    BY <1>0, <2>1, <2>4, <2>5, <2>6, <2>7 DEF MsgInv
  <2>9. AnswerIsThisCalls'
    BY <1>0, <2>1 DEF AnswerIsThisCalls
  <2> QED
    BY <2>2, <2>8, <2>9
<1> QED
  BY <1>1, <1>2

LEMMA GuestReqStep ==
    ASSUME SnpInv, GuestReq
    PROVE  SnpInv'
<1> USE DEF SnpInv, IdlePc, IoPc, SharePc, FlatPc, MsgPc, Over
<1>1. /\ pc = "request" /\ pc' \in {"reqOut", "spin"} /\ then' = then
      /\ UNCHANGED <<seqno, request, firmware, sealed, call, calls, ret>>
  BY DEF GuestReq, Lock, Goto, callVars
<1>2. ControlOK' /\ CallOK'
  BY <1>1 DEF ControlOK, CallOK
<1>3. MsgInv'
  BY <1>1 DEF MsgInv, NonceOnce, AnswersOK, SealedUpTo, Asked
<1>4. AnswerIsThisCalls'
  BY <1>1 DEF AnswerIsThisCalls
<1> QED
  BY <1>2, <1>3, <1>4

\* What the firmware answers is an answer, to the request it was given.
LEMMA AnswersTyped ==
    ASSUME SnpInv, pc = "reqOut", NEW rsp \in AnswersOf(request)
    PROVE  rsp \in AnswerSet /\ rsp.seqno = seqno + 2 /\ rsp.id = request.id
<1>1. seqno \in Nat /\ request.seqno = seqno + 1 /\ request.id \in Nat
  BY DEF SnpInv, MsgInv, CallOK, Asked
<1>2. RspOf(request.type) \in {"KeyRsp", "ReportRsp"}
  BY DEF RspOf
<1>3. KeyLen \in Nat /\ ReportLens \subseteq Nat
  BY SizesAssumption DEF SizesAssumption
<1> DEFINE lens == IF request.type = "KeyReq" THEN {KeyLen} ELSE ReportLens
<1>4. lens \subseteq Nat
  BY <1>3
<1> HIDE DEF lens
<1>5. rsp \in [seqno : {request.seqno + 1}, type : {RspOf(request.type)}, id : {request.id},
               status : Statuses, len : lens, genuine : {TRUE}]
  BY DEF AnswersOf, lens
<1>6. request.seqno + 1 = seqno + 2 /\ seqno + 2 \in Nat
  BY <1>1
<1>7. rsp.seqno = seqno + 2 /\ rsp.id = request.id
  BY <1>5, <1>6
<1>8. rsp \in AnswerSet
  BY <1>1, <1>2, <1>4, <1>5, <1>6 DEF AnswerSet
<1> QED
  BY <1>7, <1>8

LEMMA HostRequestStep ==
    ASSUME SnpInv, HostRequest
    PROVE  SnpInv'
<1> USE DEF SnpInv, IdlePc, IoPc, SharePc, FlatPc, MsgPc, Over
<1>0. pc = "reqOut" /\ pc' = "reqBack" /\ then' = then /\ UNCHANGED <<seqno, request, call, calls, ret>>
  BY DEF HostRequest, Goto, callVars
<1>1. ControlOK' /\ CallOK'
  BY <1>0 DEF ControlOK, CallOK
<1>2. /\ seqno \in Nat /\ firmware.seqno = seqno /\ SealedUpTo(seqno + 1) /\ Asked(seqno)
      /\ (\A m \in sealed : m.nonce \in Nat) /\ AnswersOK /\ NonceOnce
  BY <1>0 DEF MsgInv
<1>3. ASSUME NEW rsp \in AnswersOf(request), Deliver(rsp), response' = rsp
      PROVE  MsgInv' /\ AnswerIsThisCalls'
  <2> DEFINE new == [nonce |-> rsp.seqno, msg |-> rsp]
  <2>1. rsp \in AnswerSet /\ rsp.seqno = seqno + 2 /\ rsp.id = request.id
    BY <1>0, AnswersTyped
  <2>2. sealed' = sealed \cup {new} /\ new.nonce = seqno + 2 /\ new.msg = rsp
    BY <1>3, <2>1 DEF Deliver
  <2>3. firmware'.seqno = seqno + 2 /\ firmware'.answers = firmware.answers \cup {rsp}
    BY <1>2, <1>3 DEF Deliver
  <2> HIDE DEF new
  <2>4. NonceOnce' /\ SealedUpTo(seqno + 2)' /\ \A m \in sealed' : m.nonce \in Nat
    BY <1>0, <1>2, <2>2 DEF NonceOnce, SealedUpTo
  <2>5. AnswersOK'
    <3>1. ASSUME NEW a \in firmware.answers PROVE a.seqno <= seqno + 2 /\ \E m \in sealed' : m.msg = a
      <4>1. a.seqno \in Nat
        BY <1>2, <3>1 DEF AnswersOK, AnswerSet
      <4>2. a.seqno <= seqno /\ \E m \in sealed : m.msg = a
        BY <1>2, <3>1 DEF AnswersOK
      <4> QED
        BY <1>2, <2>2, <4>1, <4>2
    <3>2. firmware.answers \cup {rsp} \subseteq AnswerSet
      BY <1>2, <2>1 DEF AnswersOK
    <3> QED
      BY <1>2, <2>1, <2>2, <2>3, <3>1, <3>2 DEF AnswersOK
  <2>6. ResponseOK'
    <3>1. \A a \in firmware.answers : a.seqno <= seqno /\ a.seqno \in Nat
      BY <1>2 DEF AnswersOK, AnswerSet
    <3>2. \A a \in firmware'.answers : a.seqno = seqno + 2 => a.id = request.id
      BY <1>2, <2>1, <2>3, <3>1
    <3>3. request.seqno + 1 = seqno + 2
      BY <1>2 DEF Asked
    <3> QED
      BY <1>0, <1>3, <2>3, <3>2, <3>3 DEF ResponseOK
  <2>7. MsgInv'
    BY <1>0, <1>2, <2>3, <2>4, <2>5, <2>6 DEF MsgInv, Asked
  <2>8. AnswerIsThisCalls'
    BY <1>0, <2>2 DEF AnswerIsThisCalls
  <2> QED
    BY <2>7, <2>8
<1>4. ASSUME UNCHANGED <<firmware, sealed>>,
             response' \in {NoMsg} \cup firmware.answers \cup UNION {Damaged(rsp) : rsp \in firmware.answers}
      PROVE  MsgInv' /\ AnswerIsThisCalls'
  <2>1. response' = NoMsg \/ response' \in firmware.answers \/ response'.genuine = FALSE
    <3>1. ASSUME NEW rsp \in firmware.answers, response' \in Damaged(rsp) PROVE response'.genuine = FALSE
      <4>1. rsp \in AnswerSet
        BY <1>2, <3>1 DEF AnswersOK
      <4>2. PICK no \in {rsp.seqno, request.seqno + 1} : response' = [rsp EXCEPT !.genuine = FALSE, !.seqno = no]
        BY <3>1 DEF Damaged
      <4> QED
        BY <4>1, <4>2 DEF AnswerSet
    <3> QED
      BY <1>4, <3>1
  <2>2. \A a \in firmware.answers : a.seqno <= seqno /\ a.seqno \in Nat
    BY <1>2 DEF AnswersOK, AnswerSet
  <2>3. \A a \in firmware.answers : a.seqno # request.seqno + 1
    BY <1>2, <2>2 DEF Asked
  <2>4. ResponseOK'
    BY <1>0, <1>4, <2>1, <2>3 DEF ResponseOK
  <2>5. MsgInv'
    BY <1>0, <1>2, <1>4, <2>4 DEF MsgInv, NonceOnce, AnswersOK, SealedUpTo, Asked
  <2> QED
    BY <1>0, <1>4, <2>5 DEF AnswerIsThisCalls
<1>5. Expected(request)
  BY <1>2 DEF Expected, Asked
<1> QED
  BY <1>1, <1>3, <1>4, <1>5 DEF HostRequest

LEMMA ReqBackStep ==
    ASSUME SnpInv, ReqBack
    PROVE  SnpInv'
<1> USE DEF SnpInv, IdlePc, IoPc, SharePc, FlatPc, MsgPc, Over
<1>0. pc = "reqBack" /\ then = << >> /\ UNCHANGED <<request, response, firmware, sealed, call, calls, ret>>
  BY DEF ReqBack, ControlOK, callVars
<1>1. \/ pc' = "ended" /\ then' = << >> /\ seqno' = seqno
      \/ pc' = "decrypt" /\ then' = then /\ seqno' = seqno + 2
  BY DEF ReqBack, AfterRequest, Advance, End, Goto
<1>2. ControlOK' /\ CallOK'
  BY <1>0, <1>1 DEF ControlOK, CallOK
<1>3. AnswerIsThisCalls'
  BY <1>0 DEF AnswerIsThisCalls
<1>4. seqno \in Nat /\ AnswersOK' /\ NonceOnce' /\ (\A m \in sealed' : m.nonce \in Nat)
  BY <1>0 DEF MsgInv, AnswersOK, NonceOnce
<1>5. CASE pc' = "ended" /\ seqno' = seqno
  BY <1>2, <1>3, <1>4, <1>5 DEF MsgInv
<1>6. CASE pc' = "decrypt" /\ seqno' = seqno + 2
  <2>1. Asked(seqno) /\ ResponseOK
    BY <1>0 DEF MsgInv
  <2>2. firmware.seqno = seqno \/ (firmware.seqno = seqno + 2 /\ SealedUpTo(seqno + 2))
    BY <1>0 DEF MsgInv
  <2>3. seqno' \in Nat /\ seqno' >= 2 /\ seqno' - 2 = seqno
    BY <1>4, <1>6
  <2>4. Asked(seqno - 2)' /\ ResponseOK'
    BY <1>0, <2>1, <2>3 DEF Asked, ResponseOK
  <2>5. (firmware.seqno = seqno - 2)' \/ ((firmware.seqno = seqno)' /\ SealedUpTo(seqno)')
    BY <1>0, <1>6, <2>2, <2>3 DEF SealedUpTo
  <2> QED
    BY <1>2, <1>3, <1>4, <1>6, <2>3, <2>4, <2>5 DEF MsgInv
<1> QED
  BY <1>1, <1>5, <1>6

LEMMA DecPayloadStep ==
    ASSUME SnpInv, DecPayload
    PROVE  SnpInv'
<1> USE DEF SnpInv, IdlePc, IoPc, SharePc, FlatPc, MsgPc, Over
<1>0. pc = "decrypt" /\ then = << >> /\ UNCHANGED <<seqno, request, response, firmware, sealed, calls>>
  BY DEF DecPayload, ControlOK, msgVars
<1>1. /\ seqno \in Nat /\ seqno >= 2 /\ Asked(seqno - 2) /\ ResponseOK /\ AnswersOK /\ NonceOnce
      /\ firmware.seqno = seqno - 2 \/ (firmware.seqno = seqno /\ SealedUpTo(seqno))
      /\ \A m \in sealed : m.nonce \in Nat
  BY <1>0 DEF MsgInv
<1>2. AnswersOK' /\ NonceOnce' /\ (\A m \in sealed' : m.nonce \in Nat)
  BY <1>0, <1>1 DEF AnswersOK, NonceOnce
<1>3. CASE pc' = "ended" /\ then' = << >> /\ UNCHANGED <<call, ret>>
  <2>1. ControlOK' /\ CallOK' /\ AnswerIsThisCalls'
    BY <1>0, <1>3 DEF ControlOK, CallOK, AnswerIsThisCalls
  <2> QED
    BY <1>0, <1>1, <1>2, <1>3, <2>1 DEF MsgInv
<1>4. CASE /\ HeaderOk(response) /\ response.genuine # FALSE
           /\ pc' = "user" /\ then' = << >> /\ call' = NoCall
           /\ ret'.is # "ok" \/ ret' = Done(response)
  <2>1. response \in firmware.answers /\ response.seqno = request.seqno + 1
    BY <1>1, <1>4 DEF ResponseOK, HeaderOk
  <2>2. response.seqno = seqno /\ response.seqno <= firmware.seqno /\ response.id = call.id
    BY <1>1, <2>1 DEF AnswersOK, Asked, ResponseOK
  <2>3. firmware.seqno = seqno /\ SealedUpTo(seqno)
    BY <1>1, <2>2
  <2>4. MsgInv'
    BY <1>0, <1>1, <1>2, <1>4, <2>3 DEF MsgInv, SealedUpTo
  <2>5. ControlOK' /\ CallOK'
    BY <1>0, <1>4 DEF ControlOK, CallOK, NoCall
  <2>6. AnswerIsThisCalls'
    BY <1>0, <1>1, <1>4, <2>1, <2>2 DEF AnswerIsThisCalls, Done, AnswersOK
  <2> QED
    BY <2>4, <2>5, <2>6
<1>5. ThisFails("EIO").is # "ok"
  BY DEF ThisFails
<1> QED
  BY <1>3, <1>4, <1>5 DEF DecPayload, End, Return

-----------------------------------------------------------------------------
LEMMA SnpNextInv == SnpInv /\ [Next]_vars => SnpInv'
<1> SUFFICES ASSUME SnpInv, [Next]_vars PROVE SnpInv'
  OBVIOUS
<1>1. ASSUME ControlOK', Quiet PROVE SnpInv'
  BY <1>1, QuietKeeps DEF SnpInv, Quiet
<1>2. CASE Start \/ MsrPsc \/ MsrGpa
  BY <1>1, <1>2, StartSteps
<1>3. CASE DoIoOut \/ HostIo \/ IoBack
  BY <1>1, <1>3, IoSteps
<1>4. CASE ShareTables \/ SharePages \/ PscLoop \/ HostPsc \/ PscBack
  BY <1>1, <1>4, ShareSteps
<1>5. CASE Syscall \/ GetKey \/ GetAttestation \/ FetchVcek \/ Attest \/ ExtInit \/ ExtResponse
  BY <1>1, <1>5, CallSteps
<1>6. CASE EncPayload \/ GuestReq \/ HostRequest \/ ReqBack \/ DecPayload
  BY <1>6, EncPayloadStep, GuestReqStep, HostRequestStep, ReqBackStep, DecPayloadStep
<1>7. CASE UNCHANGED vars
  BY <1>7 DEF vars, msgVars, callVars, SnpInv, ControlOK, CallOK, MsgInv, NonceOnce, AnswersOK, SealedUpTo, Asked,
              ResponseOK, AnswerIsThisCalls
<1> QED
  BY <1>2, <1>3, <1>4, <1>5, <1>6, <1>7 DEF Next, GuestStep, HostStep, Halted

LEMMA SnpAlways == Spec => []SnpInv
BY SnpInitInv, SnpNextInv, PTL DEF Spec

-----------------------------------------------------------------------------
(* Whatever the host does with the messages, a nonce of VMPCK0 encrypts one *)
(* message only, and guest and firmware count together whenever the         *)
(* workload runs (enc_payload, guest_req and inc_msg_seqno_0 in ghcb.rs).   *)
THEOREM NoncesAlwaysSound == Spec => []NoncesSound
<1>1. SnpInv => NoncesSound
  BY DEF SnpInv, MsgInv, NoncesSound, CountersAgree, IdlePc, FlatPc
<1> QED
  BY <1>1, SnpAlways, PTL

(* A key or a report that a call returns is what the firmware answered to   *)
(* that call, whatever the host put into the response page (dec_payload).   *)
THEOREM AnswerIsThisCallsAlways == Spec => []AnswerIsThisCalls
<1>1. SnpInv => AnswerIsThisCalls
  BY DEF SnpInv
<1> QED
  BY <1>1, SnpAlways, PTL

-----------------------------------------------------------------------------
(* The exits, and a host that serves them.                                  *)
(*                                                                          *)
(* That an honest host is never the reason the keep ends needs all of the   *)
(* exit protocol: that the GHCB is never locked twice (nobody spins), that  *)
(* the fields the host insists on are valid at the exit they belong to, and *)
(* that what the guest compares the descriptor with is what it held before. *)

\* The stages at which the guest holds the lock on the GHCB.
HoldsLock == {"ioOut", "ioBack", "psc", "pscOut", "pscBack", "reqOut", "reqBack"}

LockOK ==
    /\ pc # "spin"
    /\ pc \in HoldsLock => locked = TRUE
    /\ pc \notin HoldsLock \cup {"ended"} => locked = FALSE

FieldsOK ==
    /\ pc = "ioOut" => {"rax", "code"} \subseteq fields
    /\ pc = "pscOut" => {"scratch", "code"} \subseteq fields
    /\ pc = "reqOut" => {"info1", "info2"} \subseteq fields

DescOK == IsFiniteSet(range) /\ desc \in [cur : Int, end : Int]

ServedOK ==
    /\ pc \in {"ioBack", "pscBack", "reqBack"} => info.err = FALSE /\ info.info2 = 0
    /\ pc = "pscOut" => seen = desc
    /\ pc = "pscBack" => ~WentBack
    /\ pc \in {"reqBack", "decrypt"} => response \in AnswersOf(request)

ExitInv ==
    /\ LockOK /\ FieldsOK /\ DescOK
    /\ honest => ServedOK
    /\ HonestHostServes

LEMMA BlocksFinite == IsFiniteSet(Blocks)
<1>1. NumPages \in Nat
  BY PagingAssumption DEF PagingAssumption
<1>2. IsFiniteSet(Pages)
  BY <1>1, FS_Interval DEF Pages
<1>3. Blocks \in SUBSET Pages
  BY LayoutAssumption DEF LayoutAssumption
<1> QED
  BY <1>2, <1>3, FS_Subset

LEMMA ExitInitInv == Init => ExitInv
<1> SUFFICES ASSUME Init PROVE ExitInv
  OBVIOUS
<1>1. LockOK /\ FieldsOK /\ ServedOK
  BY DEF Init, LockOK, FieldsOK, ServedOK, HoldsLock
<1>2. DescOK
  BY FS_EmptySet DEF Init, DescOK
<1>3. HonestHostServes
  BY DEF Init, HonestHostServes
<1> QED
  BY <1>1, <1>2, <1>3 DEF ExitInv

\* Steps between stages at which the GHCB is not in use.
LEMMA FreeStepsKeep ==
    ASSUME SnpInv, ExitInv,
           \/ Start \/ MsrPsc \/ MsrGpa \/ ShareTables \/ Syscall \/ GetKey \/ GetAttestation
           \/ FetchVcek \/ Attest \/ ExtInit \/ ExtResponse \/ EncPayload
    PROVE  ExitInv'
<1> DEFINE Free == {"reset", "msrPsc", "msrGpa", "user", "share", "shareLock", "io", "vcek", "attest",
                    "extInit", "extResponse", "encrypt", "request"}
<1> USE DEF Goto, GoThen, End, Return, ghcbVars, pageVars
<1>1. ASSUME pc \in Free, pc' \in Free \cup {"ended"}, UNCHANGED <<honest, ghcbVars>>, IsFiniteSet(range'),
             why' = why \/ ~honest \/ why' \in {"cpuid", "seqno"}
      PROVE  ExitInv'
  <2>1. LockOK' /\ FieldsOK' /\ ServedOK'
    BY <1>1 DEF ExitInv, LockOK, FieldsOK, ServedOK, HoldsLock
  <2>2. DescOK'
    BY <1>1 DEF ExitInv, DescOK
  <2>3. HonestHostServes'
    BY <1>1 DEF ExitInv, HonestHostServes
  <2> QED
    BY <2>1, <2>2, <2>3 DEF ExitInv
<1>2. IsFiniteSet(range)
  BY DEF ExitInv, DescOK
<1>3. CASE Start
  <2>0. pc = "reset" /\ UNCHANGED <<honest, ghcbVars>>
    BY <1>3 DEF Start
  <2>1. UNCHANGED range
    BY <1>3 DEF Start, CBitOf, MakeGhcbShared
  <2>2. pc' \in {"user", "ended", "msrPsc"} /\ (why' = why \/ why' = "cpuid")
    BY <1>3 DEF Start, CBitOf
  <2> QED
    BY <1>1, <1>2, <2>0, <2>1, <2>2
<1>4. CASE MsrPsc
  <2>1. pc = "msrPsc" /\ UNCHANGED <<honest, ghcbVars, range>> /\ pc' \in {"msrGpa", "ended"}
        /\ (why' = why \/ ~honest)
    BY <1>4 DEF MsrPsc
  <2> QED
    BY <1>1, <1>2, <2>1
<1>5. CASE MsrGpa
  <2>1. pc = "msrGpa" /\ UNCHANGED <<honest, ghcbVars>> /\ pc' \in {"share", "ended"}
        /\ (why' = why \/ ~honest) /\ (range' = range \/ range' = Blocks)
    BY <1>5 DEF MsrGpa
  <2> QED
    BY <1>1, <1>2, <2>1, BlocksFinite
<1>6. CASE ShareTables
  BY <1>1, <1>2, <1>6 DEF ShareTables
<1>7. CASE Syscall
  BY <1>1, <1>2, <1>7 DEF Syscall
<1>8. CASE GetKey
  <2>1. pc = "user" /\ UNCHANGED <<honest, ghcbVars, range>>
    BY <1>8 DEF GetKey
  <2>2. pc' \in {"user", "encrypt", "extInit"} /\ why' = why
    BY <1>8 DEF GetKey, Continue
  <2> QED
    BY <1>1, <1>2, <2>1, <2>2
<1>9. CASE GetAttestation
  <2>1. pc = "user" /\ UNCHANGED <<honest, ghcbVars, range>>
    BY <1>9 DEF GetAttestation
  <2>2. pc' \in {"user", "attest", "io"} /\ why' = why
    BY <1>9 DEF GetAttestation
  <2> QED
    BY <1>1, <1>2, <2>1, <2>2
<1>10. CASE FetchVcek
  BY <1>1, <1>2, <1>10 DEF FetchVcek
<1>11. CASE Attest
  <2>1. pc = "attest" /\ UNCHANGED <<honest, ghcbVars, range>>
    BY <1>11 DEF Attest
  <2>2. pc' \in {"user", "encrypt", "extInit"} /\ why' = why
    BY <1>11 DEF Attest, Continue
  <2> QED
    BY <1>1, <1>2, <2>1, <2>2
<1>12. CASE ExtInit \/ ExtResponse
  <2>1. pc \in {"extInit", "extResponse"} /\ UNCHANGED <<honest, ghcbVars, why>> /\ pc' = "share"
    BY <1>12 DEF ExtInit, ExtResponse
  <2>2. range' = {Request} \/ range' = {Response}
    BY <1>12 DEF ExtInit, ExtResponse
  <2>3. IsFiniteSet(range')
    BY <2>2, FS_Singleton
  <2> QED
    BY <1>1, <2>1, <2>3
<1>13. CASE EncPayload
  <2>1. pc = "encrypt" /\ UNCHANGED <<honest, ghcbVars, range>>
    BY <1>13 DEF EncPayload
  <2>2. pc' \in {"request", "ended"} /\ (why' = why \/ why' = "seqno")
    BY <1>13 DEF EncPayload
  <2> QED
    BY <1>1, <1>2, <2>1, <2>2
<1> QED
  BY <1>3, <1>4, <1>5, <1>6, <1>7, <1>8, <1>9, <1>10, <1>11, <1>12, <1>13

\* An honest host returns no error from an exit whose fields are valid.
LEMMA HonestAnswers ==
    ASSUME NEW need, need \subseteq fields, honest, info' \in Answers(need)
    PROVE  info'.err = FALSE /\ info'.info2 = 0
<1>1. info' = [err |-> ~(need \subseteq fields), info2 |-> 0]
  BY DEF Answers
<1> QED
  BY <1>1

LEMMA IoStepsKeep ==
    ASSUME SnpInv, ExitInv, DoIoOut \/ HostIo \/ IoBack
    PROVE  ExitInv'
<1> USE DEF Goto, End, Resume, pageVars, ExitInv
<1>1. CASE DoIoOut
  <2>1. pc = "io" /\ locked = FALSE
    BY <1>1 DEF DoIoOut, LockOK, HoldsLock
  <2>2. /\ pc' = "ioOut" /\ locked' = TRUE /\ fields' = {"rax"} \cup {"code", "info1", "info2"}
        /\ UNCHANGED <<honest, why, range, desc>>
    BY <1>1, <2>1 DEF DoIoOut, Lock, FieldsFor
  <2>3. LockOK' /\ FieldsOK'
    BY <2>2 DEF LockOK, HoldsLock, FieldsOK
  <2> QED
    BY <2>2, <2>3 DEF DescOK, ServedOK, HonestHostServes
<1>2. CASE HostIo
  <2>1. /\ pc = "ioOut" /\ pc' = "ioBack" /\ info' \in Answers({"rax", "code"})
        /\ UNCHANGED <<honest, why, range, desc, locked, fields>>
    BY <1>2 DEF HostIo
  <2>2. honest => info'.err = FALSE /\ info'.info2 = 0
    BY <2>1, HonestAnswers DEF FieldsOK
  <2>3. LockOK' /\ FieldsOK'
    BY <2>1 DEF LockOK, HoldsLock, FieldsOK
  <2> QED
    BY <2>1, <2>2, <2>3 DEF DescOK, ServedOK, HonestHostServes
<1>3. CASE IoBack
  <2>1. pc = "ioBack" /\ UNCHANGED <<honest, range, fields, info, desc, seen, response, request>>
    BY <1>3 DEF IoBack, msgVars
  <2>2. CASE info.err
    <3>1. ~honest /\ pc' = "ended" /\ UNCHANGED locked
      BY <1>3, <2>1, <2>2 DEF IoBack, ServedOK
    <3> QED
      BY <2>1, <3>1 DEF LockOK, HoldsLock, FieldsOK, DescOK, HonestHostServes
  <2>3. CASE ~info.err
    <3>1. pc' = Head(then) /\ locked' = FALSE /\ why' = why
      BY <1>3, <2>3 DEF IoBack, Unlock
    <3>2. pc' \in {"user", "vcek", "shareLock"}
      <4>1. CASE then = <<"user">> \/ then = <<"vcek">>
        BY <3>1, <4>1, Stacks
      <4>2. ASSUME NEW x \in AfterShare, then = <<"shareLock", x>> PROVE pc' = "shareLock"
        BY <3>1, <4>2, Stacks
      <4> QED
        BY <2>1, <4>1, <4>2 DEF SnpInv, ControlOK, IoPc
    <3>3. LockOK' /\ FieldsOK' /\ ServedOK'
      BY <3>1, <3>2 DEF LockOK, HoldsLock, FieldsOK, ServedOK
    <3> QED
      BY <2>1, <3>1, <3>3 DEF DescOK, HonestHostServes
  <2> QED
    BY <2>2, <2>3
<1> QED
  BY <1>1, <1>2, <1>3

LEMMA PscStepsKeep ==
    ASSUME SnpInv, ExitInv, SharePages \/ PscLoop \/ HostPsc \/ PscBack
    PROVE  ExitInv'
<1> USE DEF Goto, End, Resume, pageVars, ghcbVars, ExitInv
<1>0. IsFiniteSet(range) /\ Cardinality(range) \in Nat /\ desc \in [cur : Int, end : Int]
  BY FS_CardinalityType DEF DescOK
<1>1. CASE SharePages
  <2>1. pc = "shareLock" /\ locked = FALSE
    BY <1>1 DEF SharePages, LockOK, HoldsLock
  <2>2. pc' = "psc" /\ locked' = TRUE /\ desc' = DescOf(range) /\ UNCHANGED <<honest, why, range, fields>>
    BY <1>1, <2>1 DEF SharePages, Lock
  <2>3. desc' \in [cur : Int, end : Int]
    BY <1>0, <2>2 DEF DescOf
  <2>4. LockOK' /\ FieldsOK' /\ ServedOK'
    BY <2>2 DEF LockOK, HoldsLock, FieldsOK, ServedOK
  <2> QED
    BY <1>0, <2>2, <2>3, <2>4 DEF DescOK, HonestHostServes
<1>2. CASE PscLoop
  <2>1. pc = "psc" /\ UNCHANGED <<honest, range, desc>>
    BY <1>2 DEF PscLoop
  <2>2. CASE PscDone
    <3>1. pc' = Head(then) /\ locked' = FALSE /\ why' = why
      BY <1>2, <2>2 DEF PscLoop, Unlock
    <3>2. pc' \in {"user", "extResponse", "encrypt"}
      <4>1. PICK x \in AfterShare : then = <<x>>
        BY <2>1 DEF SnpInv, ControlOK, SharePc
      <4> QED
        BY <3>1, <4>1, Stacks DEF AfterShare
    <3>3. LockOK' /\ FieldsOK' /\ ServedOK'
      BY <3>1, <3>2 DEF LockOK, HoldsLock, FieldsOK, ServedOK
    <3> QED
      BY <2>1, <3>1, <3>3 DEF DescOK, HonestHostServes
  <2>3. CASE ~PscDone
    <3>1. /\ pc' = "pscOut" /\ locked' = locked /\ why' = why /\ seen' = desc
          /\ fields' = {"scratch"} \cup {"code", "info1", "info2"}
      BY <1>2, <2>3 DEF PscLoop, FieldsFor
    <3>2. LockOK' /\ FieldsOK' /\ ServedOK'
      BY <2>1, <3>1 DEF LockOK, HoldsLock, FieldsOK, ServedOK
    <3> QED
      BY <2>1, <3>1, <3>2 DEF DescOK, HonestHostServes
  <2> QED
    BY <2>2, <2>3
<1>3. CASE HostPsc
  <2>1. /\ pc = "pscOut" /\ pc' = "pscBack" /\ info' \in Answers({"scratch", "code"})
        /\ UNCHANGED <<honest, why, range, locked, fields, seen>>
    BY <1>3 DEF HostPsc
  <2>2. PICK cur \in 0 .. Cardinality(range), end \in 0 .. Cardinality(range) :
            IF honest THEN HonestPsc(cur) ELSE desc' = [cur |-> cur, end |-> end]
    BY <1>3 DEF HostPsc
  <2>3. cur \in Int /\ end \in Int
    BY <1>0
  <2>4. honest => info'.err = FALSE /\ info'.info2 = 0
    BY <2>1, HonestAnswers DEF FieldsOK
  <2>5. honest => cur >= desc.cur /\ desc' = [desc EXCEPT !.cur = cur]
    BY <1>0, <2>2, <2>3 DEF HonestPsc
  <2>6. honest => desc'.cur = cur /\ desc'.end = desc.end /\ desc' \in [cur : Int, end : Int]
    BY <1>0, <2>3, <2>5
  <2>7. desc' \in [cur : Int, end : Int]
    BY <2>2, <2>3, <2>6
  <2>8. honest => seen' = desc
    BY <2>1 DEF ServedOK
  <2>9. honest => ~WentBack'
    BY <1>0, <2>3, <2>5, <2>6, <2>8 DEF WentBack
  <2>10. LockOK' /\ FieldsOK'
    BY <2>1 DEF LockOK, HoldsLock, FieldsOK
  <2>11. honest => ServedOK'
    BY <2>1, <2>4, <2>9 DEF ServedOK
  <2>12. HonestHostServes'
    BY <2>1 DEF HonestHostServes
  <2> QED
    BY <1>0, <2>1, <2>7, <2>10, <2>11, <2>12 DEF DescOK
<1>4. CASE PscBack
  <2>1. pc = "pscBack" /\ UNCHANGED <<honest, range, ghcbVars>>
    BY <1>4 DEF PscBack
  <2>2. CASE info.err \/ info.info2 # 0 \/ WentBack
    <3>1. ~honest /\ pc' = "ended"
      BY <1>4, <2>1, <2>2 DEF PscBack, ServedOK
    <3> QED
      BY <2>1, <3>1 DEF LockOK, HoldsLock, FieldsOK, DescOK, HonestHostServes
  <2>3. CASE ~(info.err \/ info.info2 # 0 \/ WentBack)
    <3>1. pc' = "psc" /\ why' = why
      BY <1>4, <2>3 DEF PscBack
    <3>2. LockOK' /\ FieldsOK' /\ ServedOK'
      BY <2>1, <3>1 DEF LockOK, HoldsLock, FieldsOK, ServedOK
    <3> QED
      BY <2>1, <3>1, <3>2 DEF DescOK, HonestHostServes
  <2> QED
    BY <2>2, <2>3
<1> QED
  BY <1>1, <1>2, <1>3, <1>4

\* What the firmware answers passes the checks of the header.
LEMMA AnswersPass ==
    ASSUME seqno \in Nat, NEW n \in Nat, request.seqno = n + 1, response \in AnswersOf(request)
    PROVE  HeaderOk(response) /\ response.genuine = TRUE
<1>1. /\ response.seqno = request.seqno + 1 /\ response.type = RspOf(request.type)
      /\ response.genuine = TRUE
  BY DEF AnswersOf
<1>2. response.seqno # 0
  BY <1>1
<1>3. response # NoMsg
  BY <1>2 DEF NoMsg
<1> QED
  BY <1>1, <1>3 DEF HeaderOk

LEMMA RequestStepsKeep ==
    ASSUME SnpInv, ExitInv, GuestReq \/ HostRequest \/ ReqBack \/ DecPayload
    PROVE  ExitInv'
<1> USE DEF Goto, End, Return, pageVars, ghcbVars, ExitInv
<1>1. CASE GuestReq
  <2>1. pc = "request" /\ locked = FALSE
    BY <1>1 DEF GuestReq, LockOK, HoldsLock
  <2>2. /\ pc' = "reqOut" /\ locked' = TRUE /\ fields' = {} \cup {"code", "info1", "info2"}
        /\ UNCHANGED <<honest, why, range, desc>>
    BY <1>1, <2>1 DEF GuestReq, Lock, FieldsFor
  <2>3. LockOK' /\ FieldsOK' /\ ServedOK'
    BY <2>2 DEF LockOK, HoldsLock, FieldsOK, ServedOK
  <2> QED
    BY <2>2, <2>3 DEF DescOK, HonestHostServes
<1>2. CASE HostRequest
  <2>1. pc = "reqOut" /\ pc' = "reqBack" /\ UNCHANGED <<honest, why, range, desc, locked, fields, request>>
    BY <1>2 DEF HostRequest
  <2>2. Expected(request)
    BY <2>1 DEF SnpInv, MsgInv, Expected, Asked
  <2>3. honest => response' \in AnswersOf(request) /\ info' \in Answers({"info1", "info2"})
    BY <1>2, <2>2 DEF HostRequest
  <2>4. honest => info'.err = FALSE /\ info'.info2 = 0
    BY <2>1, <2>3, HonestAnswers DEF FieldsOK
  <2>5. AnswersOf(request)' = AnswersOf(request)
    BY <2>1 DEF AnswersOf
  <2>6. honest => ServedOK'
    BY <2>1, <2>3, <2>4, <2>5 DEF ServedOK
  <2>7. LockOK' /\ FieldsOK'
    BY <2>1 DEF LockOK, HoldsLock, FieldsOK
  <2> QED
    BY <2>1, <2>6, <2>7 DEF DescOK, HonestHostServes
<1>3. CASE ReqBack
  <2>1. pc = "reqBack" /\ locked' = FALSE /\ UNCHANGED <<honest, range, desc, request, response>>
    BY <1>3 DEF ReqBack, Unlock
  <2>2. \/ pc' = "ended" /\ (why' = "seqno" \/ ~honest)
        \/ pc' = "decrypt" /\ why' = why
    BY <1>3, <2>1 DEF ReqBack, AfterRequest, ServedOK
  <2>3. AnswersOf(request)' = AnswersOf(request)
    BY <2>1 DEF AnswersOf
  <2>4. LockOK' /\ FieldsOK' /\ (honest => ServedOK')
    BY <2>1, <2>2, <2>3 DEF LockOK, HoldsLock, FieldsOK, ServedOK
  <2> QED
    BY <2>1, <2>2, <2>4 DEF DescOK, HonestHostServes
<1>4. CASE DecPayload
  <2>1. pc = "decrypt" /\ UNCHANGED <<honest, range, ghcbVars>>
    BY <1>4 DEF DecPayload
  <2>2. honest => HeaderOk(response) /\ response.genuine = TRUE
    <3>1. seqno \in Nat /\ seqno >= 2 /\ request.seqno = (seqno - 2) + 1
      BY <2>1 DEF SnpInv, MsgInv, Asked
    <3>2. seqno - 2 \in Nat
      BY <3>1
    <3> QED
      BY <2>1, <3>1, <3>2, AnswersPass DEF ServedOK
  <2>3. pc' \in {"user", "ended"} /\ (why' = why \/ why' \in {"status", "buffer"} \/ ~honest)
    BY <1>4, <2>2 DEF DecPayload
  <2>4. LockOK' /\ FieldsOK' /\ ServedOK'
    BY <2>1, <2>3 DEF LockOK, HoldsLock, FieldsOK, ServedOK
  <2> QED
    BY <2>1, <2>3, <2>4 DEF DescOK, HonestHostServes
<1> QED
  BY <1>1, <1>2, <1>3, <1>4

LEMMA ExitNextInv == SnpInv /\ ExitInv /\ [Next]_vars => ExitInv'
<1> SUFFICES ASSUME SnpInv, ExitInv, [Next]_vars PROVE ExitInv'
  OBVIOUS
<1>1. CASE UNCHANGED vars
  <2>1. UNCHANGED <<honest, pc, why, range, ghcbVars, request, response>>
    BY <1>1 DEF vars, msgVars, pageVars
  <2>2. LockOK' /\ FieldsOK' /\ DescOK' /\ HonestHostServes'
    BY <2>1 DEF ExitInv, ghcbVars, LockOK, FieldsOK, DescOK, HonestHostServes
  <2>3. honest => ServedOK'
    BY <2>1 DEF ExitInv, ghcbVars, ServedOK, WentBack, AnswersOf
  <2> QED
    BY <2>1, <2>2, <2>3 DEF ExitInv
<1> QED
  BY <1>1, FreeStepsKeep, IoStepsKeep, PscStepsKeep, RequestStepsKeep DEF Next, GuestStep, HostStep, Halted

LEMMA ExitAlways == Spec => []ExitInv
BY ExitInitInv, ExitNextInv, SnpAlways, PTL DEF Spec

(* A host that serves every exit never ends the keep: no exit leaves without *)
(* the fields it needs, the GHCB is never locked twice, the page state       *)
(* change loop takes every honest descriptor, and the firmware's answers     *)
(* pass dec_payload's checks (vmgexit, set_memory_shared and guest_req in    *)
(* ghcb.rs).                                                                 *)
THEOREM HonestHostAlwaysServes == Spec => []HonestHostServes
<1>1. ExitInv => HonestHostServes
  BY DEF ExitInv
<1> QED
  BY <1>1, ExitAlways, PTL

-----------------------------------------------------------------------------
(* Division and induction.  The library's induction theorems are about any  *)
(* predicate; these are about any set, which is as good: the set of the     *)
(* numbers that have the property.                                          *)

LEMMA DivMod ==
    ASSUME NEW n \in Nat, NEW s \in Nat \ {0}
    PROVE  n \div s \in Nat /\ n % s \in Nat /\ n % s < s /\ n = s * (n \div s) + (n % s)
OBVIOUS

LEMMA DivUnique ==
    ASSUME NEW s \in Nat \ {0}, NEW a \in Nat, NEW t \in Nat, t < s
    PROVE  (s * a + t) \div s = a /\ (s * a + t) % s = t
<1> DEFINE n == s * a + t
           b == n \div s
           u == n % s
<1>1. n \in Nat
  OBVIOUS
<1>2. b \in Nat /\ u \in Nat /\ u < s /\ n = s * b + u
  BY <1>1, DivMod
<1> HIDE DEF b, u
<1>3. s * a + t = s * b + u
  BY <1>2
<1>4. CASE a > b
  <2>1. PICK d \in Nat : a = b + 1 + d
    <3>1. a - b - 1 \in Nat /\ a = b + 1 + (a - b - 1)
      BY <1>2, <1>4
    <3> QED BY <3>1
  <2>2. s * a = s * b + s + s * d
    BY <1>2, <2>1
  <2>3. s * d \in Nat /\ s * b \in Nat
    BY <1>2
  <2> QED BY <1>2, <1>3, <2>2, <2>3
<1>5. CASE b > a
  <2>1. PICK d \in Nat : b = a + 1 + d
    <3>1. b - a - 1 \in Nat /\ b = a + 1 + (b - a - 1)
      BY <1>2, <1>5
    <3> QED BY <3>1
  <2>2. s * b = s * a + s + s * d
    BY <1>2, <2>1
  <2>3. s * d \in Nat /\ s * a \in Nat
    BY <1>2
  <2> QED BY <1>2, <1>3, <2>2, <2>3
<1>6. a = b
  BY <1>2, <1>4, <1>5
<1>7. t = u
  BY <1>2, <1>3, <1>6
<1> QED
  BY <1>6, <1>7 DEF b, u

\* Dividing by F*s is dividing by s and then by F.
LEMMA DivTwice ==
    ASSUME NEW n \in Nat, NEW s \in Nat \ {0}, NEW F \in Nat \ {0}
    PROVE  /\ n \div (F * s) = (n \div s) \div F
           /\ (n % (F * s)) \div s = (n \div s) % F
<1> DEFINE j == n \div s
           t == n % s
           k == j \div F
           i == j % F
<1>1. j \in Nat /\ t \in Nat /\ t < s /\ n = s * j + t
  BY DivMod
<1>2. k \in Nat /\ i \in Nat /\ i < F /\ j = F * k + i
  BY <1>1, DivMod
<1> HIDE DEF j, t, k, i
<1>3. F * s \in Nat \ {0} /\ s * i + t \in Nat
  BY <1>1, <1>2
<1>4. n = (F * s) * k + (s * i + t)
  <2>1. s * j = s * (F * k) + s * i
    BY <1>1, <1>2
  <2>2. s * (F * k) = (F * s) * k
    BY <1>2
  <2> QED BY <1>1, <1>2, <1>3, <2>1, <2>2
<1>5. s * i + t < F * s
  <2>1. PICK d \in Nat : F = i + 1 + d
    <3>1. F - i - 1 \in Nat /\ F = i + 1 + (F - i - 1)
      BY <1>2
    <3> QED BY <3>1
  <2>2. F * s = s * i + s + s * d
    BY <1>2, <2>1
  <2>3. s * d \in Nat /\ s * i \in Nat
    BY <1>2, <2>1
  <2> QED BY <1>1, <2>2, <2>3
<1>6. n \div (F * s) = k /\ n % (F * s) = s * i + t
  BY <1>2, <1>3, <1>4, <1>5, DivUnique
<1>7. (s * i + t) \div s = i
  BY <1>1, <1>2, DivUnique
<1> QED
  BY <1>6, <1>7 DEF j, k, i

\* A non-empty set of naturals has a least element.
LEMMA LeastNumber ==
    ASSUME NEW S, S \subseteq Nat, S # {}
    PROVE  \E n \in S : \A m \in S : n <= m
<1> DEFINE T == {0 .. n - 1 : n \in S}
<1>1. T \subseteq FiniteSubsetsOf(Nat) /\ T # {}
  <2>1. \A n \in S : IsFiniteSet(0 .. n - 1) /\ 0 .. n - 1 \subseteq Nat
    BY FS_Interval
  <2> QED
    BY <2>1 DEF FiniteSubsetsOf
<1>2. PICK x \in T : \A y \in T : ~(<<y, x>> \in StrictSubsetOrdering(Nat))
  BY <1>1, FS_StrictSubsetOrderingWellFounded, WFMin
<1>3. PICK n \in S : x = 0 .. n - 1
  BY <1>2
<1>4. ASSUME NEW m \in S, m < n PROVE FALSE
  <2>1. 0 .. m - 1 \in T
    OBVIOUS
  <2>2. 0 .. m - 1 \subseteq 0 .. n - 1 /\ m \in 0 .. n - 1 /\ m \notin 0 .. m - 1
    BY <1>4
  <2>3. <<0 .. m - 1, 0 .. n - 1>> \in StrictSubsetOrdering(Nat)
    BY <2>2 DEF StrictSubsetOrdering
  <2> QED
    BY <1>2, <1>3, <2>1, <2>3
<1> QED
  BY <1>4

\* Induction over the naturals, for a set rather than for a predicate.
LEMMA InductiveSet ==
    ASSUME NEW T, 0 \in T, \A n \in Nat : n \in T => n + 1 \in T
    PROVE  Nat \subseteq T
<1> SUFFICES ASSUME Nat \ T # {} PROVE FALSE
  OBVIOUS
<1>1. PICK n \in Nat \ T : \A m \in Nat \ T : n <= m
  BY LeastNumber
<1>2. n - 1 \in Nat /\ n - 1 \notin Nat \ T
  BY <1>1
<1>3. (n - 1) + 1 \in T
  BY <1>2
<1> QED
  BY <1>1, <1>3

\* A function defined by its first value and a step from each to the next.
Iterations(S, F, s0, a, n) ==
    {g \in [a .. a + n -> S] : g[a] = s0 /\ \A i \in a + 1 .. a + n : g[i] = F[i][g[i - 1]]}

LEMMA Iteration ==
    ASSUME NEW S, NEW F \in [Nat -> [S -> S]], NEW s0 \in S, NEW a \in Nat
    PROVE  \A n \in Nat : Iterations(S, F, s0, a, n) # {}
<1> DEFINE Upto(n, g) == g[a] = s0 /\ \A i \in a + 1 .. a + n : g[i] = F[i][g[i - 1]]
           T == {n \in Nat : \E g \in [a .. a + n -> S] : Upto(n, g)}
<1>1. 0 \in T
  <2> DEFINE g == [i \in a .. a + 0 |-> s0]
  <2>1. g \in [a .. a + 0 -> S] /\ g[a] = s0
    OBVIOUS
  <2>2. a + 1 .. a + 0 = {}
    OBVIOUS
  <2>3. Upto(0, g)
    BY <2>1, <2>2
  <2> QED
    BY <2>1, <2>3
<1>2. ASSUME NEW n \in Nat, n \in T PROVE n + 1 \in T
  <2>1. PICK g \in [a .. a + n -> S] : Upto(n, g)
    BY <1>2
  <2> DEFINE next == F[a + n + 1][g[a + n]]
             h == [i \in a .. a + (n + 1) |-> IF i = a + n + 1 THEN next ELSE g[i]]
  <2>2. next \in S
    <3>1. g[a + n] \in S /\ a + n + 1 \in Nat
      OBVIOUS
    <3>2. F[a + n + 1] \in [S -> S]
      BY <3>1
    <3> QED
      BY <3>1, <3>2
  <2> HIDE DEF next
  <2>3. h \in [a .. a + (n + 1) -> S]
    <3>1. ASSUME NEW i \in a .. a + (n + 1), i # a + n + 1 PROVE g[i] \in S
      <4>1. i \in a .. a + n
        BY <3>1
      <4> QED BY <4>1
    <3> QED
      BY <2>2, <3>1
  <2>4. h[a] = s0
    BY <2>1
  <2>5. ASSUME NEW i \in a + 1 .. a + (n + 1) PROVE h[i] = F[i][h[i - 1]]
    <3>1. CASE i = a + n + 1
      <4>1. h[i] = next /\ h[i - 1] = g[a + n]
        BY <3>1
      <4> QED
        BY <3>1, <4>1 DEF next
    <3>2. CASE i # a + n + 1
      <4>1. i \in a + 1 .. a + n /\ i - 1 \in a .. a + n /\ i \in a .. a + (n + 1) /\ i - 1 \in a .. a + (n + 1)
        BY <3>2
      <4>2. h[i] = g[i] /\ h[i - 1] = g[i - 1]
        BY <3>2, <4>1
      <4> QED
        BY <2>1, <4>1, <4>2
    <3> QED
      BY <3>1, <3>2
  <2> HIDE DEF h
  <2>6. Upto(n + 1, h)
    BY <2>4, <2>5
  <2> QED
    BY <2>3, <2>6
<1>3. Nat \subseteq T
  <2> HIDE DEF T
  <2> QED BY <1>1, <1>2, InductiveSet
<1> QED
  BY <1>3 DEF Iterations

\* Such a function stays where its steps stay.
LEMMA IterationStays ==
    ASSUME NEW S, NEW a \in Nat, NEW n \in Nat, NEW f, f[a] \in S,
           \A i \in a + 1 .. a + n : f[i - 1] \in S => f[i] \in S
    PROVE  \A i \in a .. a + n : f[i] \in S
<1> DEFINE T == {m \in Nat : m <= n => f[a + m] \in S}
<1>1. 0 \in T
  OBVIOUS
<1>2. ASSUME NEW m \in Nat, m \in T PROVE m + 1 \in T
  <2>1. CASE m + 1 <= n
    <3>1. a + m + 1 \in a + 1 .. a + n /\ (a + m + 1) - 1 = a + m /\ m <= n
      BY <2>1
    <3>2. f[a + m] \in S
      BY <1>2, <3>1
    <3>3. f[a + m + 1] \in S
      BY <3>1, <3>2
    <3>4. a + (m + 1) = a + m + 1
      OBVIOUS
    <3> QED BY <3>3, <3>4
  <2> QED BY <2>1
<1>3. Nat \subseteq T
  <2> HIDE DEF T
  <2> QED BY <1>1, <1>2, InductiveSet
<1> QED
  <2> SUFFICES ASSUME NEW i \in a .. a + n PROVE f[i] \in S
    OBVIOUS
  <2>1. i - a \in Nat /\ i - a <= n /\ a + (i - a) = i
    OBVIOUS
  <2> QED
    BY <1>3, <2>1

-----------------------------------------------------------------------------
(* The page table: what smash and clear_c_bit_address_range do to any table *)
(* that is in order, for every range of pages.                              *)

\* The pages of a leaf agree on it, and every page is at its own frame.
TableOK(tab) ==
    /\ tab \in Tables
    /\ \A p \in Pages : tab[p].frame = p - (p % tab[p].size)
    /\ \A p \in Pages : \A q \in LeafOf(tab, p) : tab[q].size = tab[p].size /\ tab[q].enc = tab[p].enc

Level(size) == IF size = Small THEN 0 ELSE IF size = Big THEN 1 ELSE 2

LEMMA Sizes ==
    ASSUME NEW size \in LeafSizes
    PROVE  /\ size \in Nat \ {0} /\ Level(size) \in 0 .. 2
           /\ size # Small => /\ size \div Fanout \in LeafSizes
                              /\ size = Fanout * (size \div Fanout)
                              /\ Level(size \div Fanout) = Level(size) - 1
<1>1. Fanout \in Nat /\ Fanout > 1 /\ Fanout * Fanout \in Nat /\ Fanout * Fanout > Fanout
  <2>1. Fanout \in Nat /\ Fanout > 1
    BY PagingAssumption DEF PagingAssumption
  <2>2. PICK d \in Nat : Fanout = 2 + d
    <3>1. Fanout - 2 \in Nat /\ Fanout = 2 + (Fanout - 2)
      BY <2>1
    <3> QED BY <3>1
  <2>3. Fanout * Fanout = 2 * Fanout + d * Fanout /\ d * Fanout \in Nat
    BY <2>1, <2>2
  <2> QED BY <2>1, <2>3
<1>2. Fanout \div Fanout = 1 /\ (Fanout * Fanout) \div Fanout = Fanout
  <2>1. (Fanout * 1 + 0) \div Fanout = 1 /\ (Fanout * Fanout + 0) \div Fanout = Fanout
    BY <1>1, DivUnique
  <2> QED
    BY <1>1, <2>1
<1>3. size \in Nat \ {0} /\ Level(size) \in 0 .. 2
  BY <1>1 DEF LeafSizes, Small, Big, Huge, Level
<1>4. CASE size = Big
  BY <1>1, <1>2, <1>3, <1>4 DEF LeafSizes, Small, Big, Huge, Level
<1>5. CASE size = Huge
  BY <1>1, <1>2, <1>3, <1>5 DEF LeafSizes, Small, Big, Huge, Level
<1> QED
  BY <1>3, <1>4, <1>5 DEF LeafSizes

LEMMA PagesNat == NumPages \in Nat /\ Pages \subseteq Nat /\ \A p \in Pages : 0 .. p \subseteq Pages
BY PagingAssumption DEF PagingAssumption, Pages

\* What TableOK says of one page.
LEMMA LeafTyped ==
    ASSUME NEW tab, TableOK(tab), NEW p \in Pages
    PROVE  /\ tab[p] = [size |-> tab[p].size, frame |-> tab[p].frame, enc |-> tab[p].enc]
           /\ tab[p].size \in LeafSizes /\ tab[p].size \in Nat \ {0}
           /\ tab[p].frame \in Pages /\ tab[p].enc \in BOOLEAN
<1>1. tab[p] \in [size : LeafSizes, frame : Pages, enc : BOOLEAN]
  BY DEF TableOK, Tables, Leaves
<1>2. tab[p].size \in LeafSizes
  BY <1>1
<1> QED
  BY <1>1, <1>2, Sizes

\* Where the frames of a split leaf start.
LEMMA SplitFrame ==
    ASSUME NEW p \in Nat, NEW q \in Nat, NEW s \in Nat \ {0}, NEW F \in Nat \ {0},
           q \div (F * s) = p \div (F * s)
    PROVE  (p - (p % (F * s))) + ((q % (F * s)) \div s) * s = q - (q % s)
<1> DEFINE S == F * s
           j == q \div s
<1>1. S \in Nat \ {0}
  OBVIOUS
<1>2. p - (p % S) = S * (q \div S)
  <2> HIDE DEF S
  <2>1. p \div S \in Nat /\ p % S \in Nat /\ p = S * (p \div S) + (p % S)
    BY <1>1, DivMod
  <2>2. q \div S = p \div S
    BY DEF S
  <2>3. S * (p \div S) \in Nat
    BY <1>1, <2>1
  <2> QED
    BY <2>1, <2>2, <2>3
<1>3. q \div S = j \div F /\ (q % S) \div s = j % F
  BY DivTwice
<1>4. j \in Nat /\ q % s \in Nat /\ q = s * j + (q % s)
  BY DivMod
<1>5. j \div F \in Nat /\ j % F \in Nat /\ j = F * (j \div F) + (j % F)
  BY <1>4, DivMod
<1> HIDE DEF j
<1> DEFINE k == j \div F
           i == j % F
<1>6. s * j = (F * s) * k + i * s
  <2> HIDE DEF k, i
  <2>1. k \in Nat /\ i \in Nat /\ j = F * k + i
    BY <1>5 DEF k, i
  <2>2. s * (F * k) = (F * s) * k
    BY <2>1
  <2>3. s * (F * k + i) = s * (F * k) + s * i /\ s * i = i * s
    BY <2>1
  <2> QED BY <2>1, <2>2, <2>3
<1>7. s * j \in Nat /\ q - (q % s) = s * j
  BY <1>4
<1> QED
  BY <1>2, <1>3, <1>6, <1>7

\* smash keeps the table in order and changes no C-bit; the leaf gets smaller.
LEMMA SmashKeeps ==
    ASSUME NEW tab, TableOK(tab), NEW p \in Pages
    PROVE  /\ TableOK(Smash(tab, p))
           /\ \A q \in Pages : Smash(tab, p)[q].enc = tab[q].enc
           /\ tab[p].size # Small => Smash(tab, p)[p].size = tab[p].size \div Fanout
<1>1. CASE tab[p].size = Small
  BY <1>1 DEF Smash
<1>2. CASE tab[p].size # Small
  <2> DEFINE S == tab[p].size
             s == S \div Fanout
             new == Smash(tab, p)
  <2>1. S \in LeafSizes /\ S \in Nat \ {0}
    BY LeafTyped
  <2>2. s \in LeafSizes /\ S = Fanout * s /\ s \in Nat \ {0} /\ Fanout \in Nat \ {0}
    BY <1>2, <2>1, Sizes, PagingAssumption DEF PagingAssumption
  <2>3. new = [q \in Pages |-> IF q \notin LeafOf(tab, p) THEN tab[q]
                               ELSE [size |-> s, frame |-> tab[p].frame + ((q % S) \div s) * s,
                                     enc |-> tab[p].enc]]
    BY <1>2 DEF Smash, SmashFrames
  <2>4. \A q \in Pages : q \in LeafOf(tab, p) <=> q \div S = p \div S
    BY DEF LeafOf
  <2> HIDE DEF new, s
  <2>5. ASSUME NEW q \in Pages, q \in LeafOf(tab, p)
        PROVE  /\ new[q] = [size |-> s, frame |-> q - (q % s), enc |-> tab[p].enc]
               /\ new[q].size = s /\ new[q].frame = q - (q % s) /\ new[q].enc = tab[p].enc
               /\ tab[q].size = S /\ tab[q].enc = tab[p].enc /\ q - (q % s) \in Pages
    <3>1. new[q] = [size |-> s, frame |-> tab[p].frame + ((q % S) \div s) * s, enc |-> tab[p].enc]
      BY <2>3, <2>5
    <3>2. tab[p].frame = p - (p % S)
      BY DEF TableOK
    <3>3. p \in Nat /\ q \in Nat /\ q \div S = p \div S
      BY <2>4, <2>5, PagesNat
    <3>4. (p - (p % S)) + ((q % S) \div s) * s = q - (q % s)
      <4> HIDE DEF S
      <4>1. q \div (Fanout * s) = p \div (Fanout * s)
        BY <2>2, <3>3
      <4>2. (p - (p % (Fanout * s))) + ((q % (Fanout * s)) \div s) * s = q - (q % s)
        BY <2>2, <3>3, <4>1, SplitFrame
      <4> QED
        BY <2>2, <4>2
    <3>5. q - (q % s) \in 0 .. q
      <4>1. q \div s \in Nat /\ q % s \in Nat /\ q = s * (q \div s) + (q % s)
        BY <2>2, <3>3, DivMod
      <4>2. s * (q \div s) \in Nat
        BY <2>2, <4>1
      <4> QED
        BY <3>3, <4>1, <4>2
    <3>6. tab[q].size = S /\ tab[q].enc = tab[p].enc
      BY <2>5 DEF TableOK
    <3>7. new[q] = [size |-> s, frame |-> q - (q % s), enc |-> tab[p].enc]
      BY <3>1, <3>2, <3>4
    <3>8. new[q].size = s /\ new[q].frame = q - (q % s) /\ new[q].enc = tab[p].enc
      BY <3>7
    <3> QED
      BY <3>5, <3>6, <3>7, <3>8, PagesNat
  <2>6. ASSUME NEW q \in Pages, q \notin LeafOf(tab, p) PROVE new[q] = tab[q]
    BY <2>3, <2>6
  <2>7. \A q \in Pages : new[q].enc = tab[q].enc
    BY <2>5, <2>6
  <2>8. p \in LeafOf(tab, p)
    BY <2>4
  <2>9. new[p].size = s
    BY <2>5, <2>8
  <2>10. new \in Tables
    <3>1. ASSUME NEW q \in Pages PROVE new[q] \in [size : LeafSizes, frame : Pages, enc : BOOLEAN]
      <4>1. tab[p].enc \in BOOLEAN /\ tab[q] \in [size : LeafSizes, frame : Pages, enc : BOOLEAN]
        BY LeafTyped DEF TableOK, Tables, Leaves
      <4>2. CASE q \in LeafOf(tab, p)
        <5>1. new[q] = [size |-> s, frame |-> q - (q % s), enc |-> tab[p].enc] /\ q - (q % s) \in Pages
          BY <2>5, <4>2
        <5> QED
          BY <2>2, <4>1, <5>1
      <4>3. CASE q \notin LeafOf(tab, p)
        BY <2>6, <4>1, <4>3
      <4> QED
        BY <4>2, <4>3
    <3>2. new = [q \in Pages |-> new[q]]
      BY <2>3
    <3> QED
      BY <3>1, <3>2 DEF Tables, Leaves
  <2>11. \A q \in Pages : new[q].frame = q - (q % new[q].size)
    BY <2>5, <2>6 DEF TableOK
  <2>12. ASSUME NEW q \in Pages, NEW r \in LeafOf(new, q)
         PROVE  new[r].size = new[q].size /\ new[r].enc = new[q].enc
    <3>1. r \in Pages /\ r \div new[q].size = q \div new[q].size
      BY DEF LeafOf
    <3>2. CASE q \in LeafOf(tab, p)
      <4>1. r \div s = q \div s
        BY <2>5, <3>1, <3>2
      <4>2. r \div S = q \div S
        <5> HIDE DEF S
        <5>1. r \in Nat /\ q \in Nat
          BY <3>1, PagesNat
        <5>2. r \div (Fanout * s) = (r \div s) \div Fanout /\ q \div (Fanout * s) = (q \div s) \div Fanout
          BY <2>2, <5>1, DivTwice
        <5> QED
          BY <2>2, <4>1, <5>2
      <4>3. r \in LeafOf(tab, p)
        BY <2>4, <3>1, <3>2, <4>2
      <4> QED
        BY <2>5, <3>1, <3>2, <4>3
    <3>3. CASE q \notin LeafOf(tab, p)
      <4>1. new[q] = tab[q]
        BY <2>6, <3>3
      <4>2. r \in LeafOf(tab, q)
        BY <3>1, <4>1 DEF LeafOf
      <4>3. tab[r].size = tab[q].size /\ tab[r].enc = tab[q].enc
        BY <4>2 DEF TableOK
      <4>4. r \notin LeafOf(tab, p)
        <5> SUFFICES ASSUME r \in LeafOf(tab, p) PROVE FALSE
          OBVIOUS
        <5>1. tab[r].size = S
          BY <2>5, <3>1
        <5>2. q \div S = p \div S
          BY <2>4, <3>1, <4>1, <4>3, <5>1
        <5> QED
          BY <2>4, <3>3, <5>2
      <4> QED
        BY <2>6, <3>1, <4>1, <4>3, <4>4
    <3> QED
      BY <3>2, <3>3
  <2>13. TableOK(new)
    BY <2>10, <2>11, <2>12 DEF TableOK
  <2> QED
    BY <2>7, <2>9, <2>13 DEF new, s
<1> QED
  BY <1>1, <1>2

\* Clearing the C-bit of a whole leaf keeps the table in order.
LEMMA DecryptKeeps ==
    ASSUME NEW tab, TableOK(tab), NEW c \in Pages
    PROVE  LET new == Decrypted(tab, LeafOf(tab, c)) IN
           /\ TableOK(new)
           /\ \A q \in Pages : new[q].enc = IF q \in LeafOf(tab, c) THEN FALSE ELSE tab[q].enc
<1> DEFINE new == Decrypted(tab, LeafOf(tab, c))
           leaf == LeafOf(tab, c)
<1>1. new = [q \in Pages |-> IF q \in leaf THEN [tab[q] EXCEPT !.enc = FALSE] ELSE tab[q]]
  BY DEF Decrypted
<1>2. \A q \in Pages : q \in leaf <=> q \div tab[c].size = c \div tab[c].size
  BY DEF LeafOf
<1>3. \A q \in leaf : tab[q].size = tab[c].size
  BY DEF TableOK
<1> HIDE DEF new, leaf
<1>4. ASSUME NEW q \in Pages
      PROVE  /\ new[q].size = tab[q].size /\ new[q].frame = tab[q].frame
             /\ new[q].enc = IF q \in leaf THEN FALSE ELSE tab[q].enc
             /\ new[q] \in [size : LeafSizes, frame : Pages, enc : BOOLEAN]
  <2>1. tab[q] \in [size : LeafSizes, frame : Pages, enc : BOOLEAN]
    BY DEF TableOK, Tables, Leaves
  <2>2. CASE q \in leaf
    <3>1. new[q] = [tab[q] EXCEPT !.enc = FALSE]
      BY <1>1, <2>2
    <3> QED
      BY <2>1, <2>2, <3>1
  <2>3. CASE q \notin leaf
    BY <1>1, <2>1, <2>3
  <2> QED
    BY <2>2, <2>3
<1>5. new \in Tables
  <2>1. new = [q \in Pages |-> new[q]]
    BY <1>1
  <2> QED
    BY <1>4, <2>1 DEF Tables, Leaves
<1>6. \A q \in Pages : new[q].frame = q - (q % new[q].size)
  BY <1>4 DEF TableOK
<1>7. ASSUME NEW q \in Pages, NEW r \in LeafOf(new, q)
      PROVE  new[r].size = new[q].size /\ new[r].enc = new[q].enc
  <2>1. r \in Pages /\ r \div tab[q].size = q \div tab[q].size
    BY <1>4 DEF LeafOf
  <2>2. r \in LeafOf(tab, q)
    BY <2>1 DEF LeafOf
  <2>3. tab[r].size = tab[q].size /\ tab[r].enc = tab[q].enc
    BY <2>2 DEF TableOK
  <2>4. q \in leaf <=> r \in leaf
    <3>1. ASSUME q \in leaf PROVE r \in leaf
      <4>1. tab[q].size = tab[c].size
        BY <1>3, <3>1
      <4> QED
        BY <1>2, <2>1, <3>1, <4>1
    <3>2. ASSUME r \in leaf PROVE q \in leaf
      <4>1. tab[q].size = tab[c].size
        BY <1>3, <2>3, <3>2
      <4> QED
        BY <1>2, <2>1, <3>2, <4>1
    <3> QED
      BY <3>1, <3>2
  <2> QED
    BY <1>4, <2>1, <2>3, <2>4
<1>8. TableOK(new)
  BY <1>5, <1>6, <1>7 DEF TableOK
<1> QED
  BY <1>4, <1>8 DEF new, leaf

\* The pages of a leaf that starts at c.
LEMMA AlignedLeaf ==
    ASSUME NEW tab, TableOK(tab), NEW c \in Pages, tab[c].size = Small \/ c % tab[c].size = 0
    PROVE  \A q \in Pages : q \in LeafOf(tab, c) <=> c <= q /\ q < c + tab[c].size
<1> DEFINE S == tab[c].size
<1>1. S \in Nat \ {0} /\ c \in Nat
  BY LeafTyped, PagesNat
<1>2. c = S * (c \div S) /\ c \div S \in Nat
  <2> HIDE DEF S
  <2>1. c \div S \in Nat /\ c % S \in Nat /\ c % S < S /\ c = S * (c \div S) + (c % S)
    BY <1>1, DivMod
  <2>2. c % S = 0
    BY <2>1 DEF Small, S
  <2>3. \A k \in Nat : S * k \in Nat
    BY <1>1
  <2> QED
    BY <2>1, <2>2, <2>3
<1>3. SUFFICES ASSUME NEW q \in Pages PROVE q \div S = c \div S <=> c <= q /\ q < c + S
  BY DEF LeafOf
<1> HIDE DEF S
<1>4. q \in Nat /\ q \div S \in Nat /\ q % S \in Nat /\ q % S < S /\ q = S * (q \div S) + (q % S)
  BY <1>1, DivMod, PagesNat
<1>5. ASSUME q \div S = c \div S PROVE c <= q /\ q < c + S
  BY <1>1, <1>2, <1>4, <1>5
<1>6. ASSUME c <= q, q < c + S PROVE q \div S = c \div S
  <2>1. q - c \in Nat /\ q - c < S /\ q = S * (c \div S) + (q - c)
    BY <1>1, <1>2, <1>4, <1>6
  <2>2. (S * (c \div S) + (q - c)) \div S = c \div S
    BY <1>1, <1>2, <2>1, DivUnique
  <2> QED
    BY <2>1, <2>2
<1> QED
  BY <1>5, <1>6

\* One turn of clear_c_bit_address_range: the pages before `current' are done.
Cleared(old, start, end) ==
    {x \in [tab : Tables, current : 0 .. NumPages] :
        /\ TableOK(x.tab) /\ start <= x.current /\ x.current <= end
        /\ \A p \in Pages : x.tab[p].enc = IF start <= p /\ p < x.current THEN FALSE ELSE old[p].enc}

TurnsLeft(x, end) == 3 * (end - x.current) - 2 + Level(x.tab[x.current].size)

LEMMA ClearStepKeeps ==
    ASSUME NEW old, NEW start \in Nat, NEW end \in Nat, end <= NumPages,
           NEW x \in Cleared(old, start, end)
    PROVE  /\ ClearStep(x, end) \in Cleared(old, start, end)
           /\ x.current < end => \/ ClearStep(x, end).current >= end
                                 \/ TurnsLeft(ClearStep(x, end), end) <= TurnsLeft(x, end) - 1
<1> DEFINE tab == x.tab
           c == x.current
           new == ClearStep(x, end)
<1>1. /\ x = [tab |-> tab, current |-> c] /\ c \in Nat /\ start <= c /\ c <= end /\ TableOK(tab)
      /\ \A p \in Pages : tab[p].enc = IF start <= p /\ p < c THEN FALSE ELSE old[p].enc
  <2>1. x \in [tab : Tables, current : 0 .. NumPages]
    BY DEF Cleared
  <2>2. x = [tab |-> tab, current |-> c] /\ c \in Nat
    BY <2>1, PagesNat
  <2> QED
    BY <2>2 DEF Cleared
<1>2. CASE c >= end
  BY <1>1, <1>2 DEF ClearStep
<1>3. CASE c < end
  <2>1. c \in Pages
    BY <1>1, <1>3, PagesNat DEF Pages
  <2> DEFINE S == tab[c].size
  <2>2. S \in LeafSizes /\ S \in Nat \ {0} /\ Level(S) \in 0 .. 2
    BY <1>1, <2>1, LeafTyped, Sizes
  <2>3. CASE CoversLeaf(tab, c, end)
    <3>1. new = [tab |-> Decrypted(tab, LeafOf(tab, c)), current |-> c + S]
      BY <1>1, <1>3, <2>3 DEF ClearStep
    <3> DEFINE t == Decrypted(tab, LeafOf(tab, c))
    <3>2. (S = Small \/ c % S = 0) /\ c + S <= end
      BY <1>1, <1>3, <2>3 DEF CoversLeaf, Small
    <3>3. TableOK(t) /\ \A q \in Pages : t[q].enc = IF q \in LeafOf(tab, c) THEN FALSE ELSE tab[q].enc
      BY <1>1, <2>1, DecryptKeeps
    <3>4. \A q \in Pages : q \in LeafOf(tab, c) <=> c <= q /\ q < c + S
      BY <1>1, <2>1, <3>2, AlignedLeaf
    <3> HIDE DEF t, S, new, tab, c
    <3>5. new.tab = t /\ new.current = c + S
      BY <3>1 DEF t
    <3>6. c + S \in 0 .. NumPages /\ start <= c + S
      BY <1>1, <2>2, <3>2, PagesNat
    <3>7. ASSUME NEW q \in Pages
          PROVE  t[q].enc = IF start <= q /\ q < c + S THEN FALSE ELSE old[q].enc
      <4>1. q \in Nat
        BY PagesNat
      <4>2. CASE c <= q /\ q < c + S
        <5>1. t[q].enc = FALSE
          BY <3>3, <3>4, <4>2
        <5>2. start <= q /\ q < c + S
          BY <1>1, <4>1, <4>2
        <5> QED
          BY <5>1, <5>2
      <4>3. CASE ~(c <= q /\ q < c + S)
        <5>1. t[q].enc = tab[q].enc
          BY <3>3, <3>4, <4>3
        <5>2. (start <= q /\ q < c + S) <=> (start <= q /\ q < c)
          BY <1>1, <2>2, <4>1, <4>3
        <5> QED
          BY <1>1, <5>1, <5>2
      <4> QED
        BY <4>2, <4>3
    <3>8. new \in [tab : Tables, current : 0 .. NumPages]
      BY <3>1, <3>3, <3>6 DEF t, TableOK
    <3>9. new \in Cleared(old, start, end)
      BY <3>2, <3>3, <3>5, <3>6, <3>7, <3>8 DEF Cleared
    <3>10. CASE c + S < end
      <4>1. c + S \in Pages
        BY <1>1, <2>2, <3>10, PagesNat DEF Pages
      <4>2. t[c + S].size \in LeafSizes
        BY <3>3, <4>1, LeafTyped
      <4>3. Level(t[c + S].size) \in 0 .. 2
        BY <4>2, Sizes
      <4>4. TurnsLeft(new, end) = 3 * (end - (c + S)) - 2 + Level(t[c + S].size)
        BY <3>5 DEF TurnsLeft
      <4>5. TurnsLeft(x, end) = 3 * (end - c) - 2 + Level(S)
        BY DEF TurnsLeft, S, tab, c
      <4> QED
        BY <1>1, <2>2, <3>9, <4>3, <4>4, <4>5 DEF new
    <3>11. CASE c + S >= end
      BY <3>5, <3>9, <3>11 DEF new
    <3> QED
      BY <1>1, <2>2, <3>10, <3>11
  <2>4. CASE ~CoversLeaf(tab, c, end)
    <3> DEFINE t == Smash(tab, c)
    <3>1. new = [tab |-> t, current |-> c]
      BY <1>1, <1>3, <2>4 DEF ClearStep
    <3>2. S # Small
      BY <2>4 DEF CoversLeaf
    <3>3. /\ TableOK(t) /\ t[c].size = S \div Fanout
          /\ \A q \in Pages : t[q].enc = tab[q].enc
      BY <1>1, <2>1, <3>2, SmashKeeps
    <3>4. Level(S \div Fanout) = Level(S) - 1
      BY <2>2, <3>2, Sizes
    <3> HIDE DEF t, S, new, tab, c
    <3>5. new.tab = t /\ new.current = c
      BY <3>1
    <3>6. c \in 0 .. NumPages
      BY <1>1, PagesNat
    <3>7. new \in [tab : Tables, current : 0 .. NumPages]
      BY <3>1, <3>3, <3>6 DEF TableOK
    <3>8. new \in Cleared(old, start, end)
      BY <1>1, <3>3, <3>5, <3>7 DEF Cleared
    <3>9. TurnsLeft(new, end) = 3 * (end - c) - 2 + (Level(S) - 1)
      BY <3>3, <3>4, <3>5 DEF TurnsLeft
    <3>10. TurnsLeft(x, end) = 3 * (end - c) - 2 + Level(S)
      BY DEF TurnsLeft, S, tab, c
    <3> QED
      BY <1>1, <2>2, <3>8, <3>9, <3>10 DEF new
  <2> QED
    BY <2>3, <2>4
<1> QED
  BY <1>1, <1>2, <1>3

\* clear_c_bit_address_range clears the C-bit of the pages of the range and of
\* no other page.
LEMMA ClearCBitClears ==
    ASSUME NEW old, TableOK(old), NEW start \in Nat, NEW end \in Nat, start <= end, end <= NumPages
    PROVE  /\ TableOK(ClearCBit(old, start, end))
           /\ \A p \in Pages : ClearCBit(old, start, end)[p].enc
                                   = IF start <= p /\ p < end THEN FALSE ELSE old[p].enc
<1> DEFINE S == Cleared(old, start, end)
           turns == 3 * (end - start)
           turn == [x \in [tab : Tables, current : 0 .. NumPages] |-> ClearStep(x, end)]
           s0 == [tab |-> old, current |-> start]
           Def(f) == [n \in 0 .. turns |-> IF n = 0 THEN s0 ELSE turn[f[n - 1]]]
           after == CHOOSE f : f = Def(f)
<1>1. turns \in Nat
  OBVIOUS
<1>2. s0 \in S
  <2>1. s0 \in [tab : Tables, current : 0 .. NumPages]
    BY PagesNat DEF TableOK
  <2>2. \A p \in Pages : ~(start <= p /\ p < start)
    BY PagesNat
  <2>3. s0.tab = old /\ s0.current = start
    OBVIOUS
  <2> HIDE DEF s0
  <2>4. TableOK(s0.tab) /\ start <= s0.current /\ s0.current <= end
    BY <2>3
  <2>5. \A p \in Pages : s0.tab[p].enc = IF start <= p /\ p < s0.current THEN FALSE ELSE old[p].enc
    BY <2>2, <2>3
  <2> QED
    BY <2>1, <2>4, <2>5 DEF Cleared
<1>3. \A x \in S : turn[x] = ClearStep(x, end) /\ turn[x] \in S
  <2>1. \A x \in S : x \in [tab : Tables, current : 0 .. NumPages]
    BY DEF Cleared
  <2>2. \A x \in S : ClearStep(x, end) \in S
    BY ClearStepKeeps
  <2> QED
    BY <2>1, <2>2
<1> HIDE DEF S, turn, s0, turns
<1>4. \E f : f = Def(f)
  <2> DEFINE F == [i \in Nat |-> [x \in S |-> turn[x]]]
  <2>1. F \in [Nat -> [S -> S]]
    BY <1>3
  <2>2. PICK g \in [0 .. 0 + turns -> S] :
            g[0] = s0 /\ \A i \in 0 + 1 .. 0 + turns : g[i] = F[i][g[i - 1]]
    <3> HIDE DEF F
    <3>1. Iterations(S, F, s0, 0, turns) # {}
      BY <1>1, <1>2, <2>1, Iteration
    <3> QED
      BY <3>1 DEF Iterations
  <2>3. ASSUME NEW n \in 0 .. turns PROVE g[n] = IF n = 0 THEN s0 ELSE turn[g[n - 1]]
    <3>1. CASE n # 0
      <4>1. n \in 0 + 1 .. 0 + turns /\ n \in Nat /\ n - 1 \in 0 .. 0 + turns
        BY <1>1, <3>1
      <4>2. g[n - 1] \in S
        BY <4>1
      <4> QED
        BY <2>2, <3>1, <4>1, <4>2
    <3> QED
      BY <2>2, <3>1
  <2>4. g = [n \in 0 .. turns |-> g[n]]
    BY <1>1
  <2>5. g = Def(g)
    BY <2>3, <2>4
  <2> QED
    BY <2>5
<1>5. after = Def(after)
  BY <1>4
<1>6. ClearCBit(old, start, end) = after[turns].tab
  BY DEF ClearCBit, turns, turn, s0
<1> HIDE DEF after
<1>7. after[0] = s0 /\ \A i \in 0 + 1 .. 0 + turns : after[i] = turn[after[i - 1]]
  <2>1. after[0] = s0
    BY <1>1, <1>5
  <2>2. ASSUME NEW i \in 0 + 1 .. 0 + turns PROVE after[i] = turn[after[i - 1]]
    <3>1. i \in 0 .. turns /\ i # 0
      BY <1>1
    <3> QED BY <1>5, <3>1
  <2> QED BY <2>1, <2>2
<1>8. \A i \in 0 .. 0 + turns : after[i] \in S
  BY <1>1, <1>2, <1>3, <1>7, IterationStays
<1> DEFINE T == {n \in Nat : n <= turns => \/ after[n].current >= end
                                           \/ TurnsLeft(after[n], end) <= turns - n}
<1>9. \A x \in S : /\ x.current \in Nat /\ x.current <= end
                   /\ x.current < end => TurnsLeft(x, end) \in 3 * (end - x.current) - 2 .. 3 * (end - x.current)
  <2> SUFFICES ASSUME NEW x \in S
               PROVE  /\ x.current \in Nat /\ x.current <= end
                      /\ x.current < end =>
                           TurnsLeft(x, end) \in 3 * (end - x.current) - 2 .. 3 * (end - x.current)
    OBVIOUS
  <2>1. x.current \in Nat /\ x.current <= end /\ TableOK(x.tab)
    BY PagesNat DEF S, Cleared
  <2>2. CASE x.current < end
    <3>1. x.current \in Pages
      BY <2>1, <2>2, PagesNat DEF Pages
    <3>2. Level(x.tab[x.current].size) \in 0 .. 2
      BY <2>1, <3>1, LeafTyped, Sizes
    <3> QED
      BY <2>1, <3>2 DEF TurnsLeft
  <2> QED
    BY <2>1, <2>2
<1>10. 0 \in T
  <2>1. s0.current = start
    BY DEF s0
  <2>2. CASE start < end
    <3>1. TurnsLeft(s0, end) <= 3 * (end - start) /\ TurnsLeft(s0, end) \in Int
      BY <1>2, <1>9, <2>1, <2>2
    <3> QED
      BY <1>1, <1>7, <3>1 DEF turns
  <2> QED
    BY <1>7, <2>1, <2>2
<1>11. ASSUME NEW n \in Nat, n \in T PROVE n + 1 \in T
  <2> SUFFICES ASSUME n + 1 <= turns
               PROVE  \/ after[n + 1].current >= end
                      \/ TurnsLeft(after[n + 1], end) <= turns - (n + 1)
    OBVIOUS
  <2>1. n \in 0 .. 0 + turns /\ n + 1 \in 0 + 1 .. 0 + turns /\ (n + 1) - 1 = n /\ n + 1 \in 0 .. 0 + turns
    BY <1>1
  <2>2. after[n] \in S /\ after[n + 1] \in S /\ after[n + 1] = ClearStep(after[n], end)
    BY <1>3, <1>7, <1>8, <2>1
  <2>3. CASE after[n].current >= end
    BY <2>2, <2>3 DEF ClearStep
  <2>4. CASE after[n].current < end
    <3>1. TurnsLeft(after[n], end) <= turns - n
      BY <1>1, <1>9, <1>11, <2>1, <2>2, <2>4
    <3>2. \/ after[n + 1].current >= end
          \/ TurnsLeft(after[n + 1], end) <= TurnsLeft(after[n], end) - 1
      BY <2>2, <2>4, ClearStepKeeps DEF S
    <3>3. TurnsLeft(after[n], end) \in Int
      BY <1>9, <2>2, <2>4
    <3>4. after[n + 1].current < end => TurnsLeft(after[n + 1], end) \in Int
      BY <1>9, <2>2
    <3>5. after[n + 1].current \in Nat
      BY <1>9, <2>2
    <3> QED
      BY <1>1, <3>1, <3>2, <3>3, <3>4, <3>5
  <2>5. after[n].current \in Nat
    BY <1>9, <2>2
  <2> QED
    BY <2>3, <2>4, <2>5
<1>12. turns \in T
  <2> HIDE DEF T
  <2>1. Nat \subseteq T
    BY <1>10, <1>11, InductiveSet
  <2> QED BY <1>1, <2>1
<1>13. after[turns] \in S
  BY <1>1, <1>8
<1>14. after[turns].current = end
  <2>1. after[turns].current \in Nat /\ after[turns].current <= end
    BY <1>9, <1>13
  <2>2. CASE after[turns].current < end
    <3>1. TurnsLeft(after[turns], end) \in 3 * (end - after[turns].current) - 2 .. 3 * (end - after[turns].current)
      BY <1>9, <1>13, <2>2
    <3>2. TurnsLeft(after[turns], end) <= 0
      BY <1>1, <1>12, <2>1, <2>2
    <3> QED
      BY <2>1, <2>2, <3>1, <3>2
  <2> QED
    BY <2>1, <2>2
<1> QED
  BY <1>6, <1>13, <1>14 DEF S, Cleared

\* Smashing every page of a range changes no C-bit.
LEMMA SmashRangeKeeps ==
    ASSUME NEW old, TableOK(old), NEW start \in Nat, NEW end \in Nat, start <= end, end <= NumPages
    PROVE  /\ TableOK(SmashRange(old, start, end))
           /\ \A p \in Pages : SmashRange(old, start, end)[p].enc = old[p].enc
<1> DEFINE S == {t \in Tables : TableOK(t) /\ \A p \in Pages : t[p].enc = old[p].enc}
           Def(f) == [p \in start .. end |-> IF p = start THEN old ELSE Smash(f[p - 1], p - 1)]
           to == CHOOSE f : f = Def(f)
           n == end - start
<1>1. n \in Nat /\ start + n = end
  OBVIOUS
<1>2. old \in S
  BY DEF TableOK
<1>3. ASSUME NEW t \in S, NEW i \in start + 1 .. end PROVE Smash(t, i - 1) \in S
  <2>1. i - 1 \in Pages
    BY PagesNat DEF Pages
  <2>2. TableOK(Smash(t, i - 1)) /\ \A p \in Pages : Smash(t, i - 1)[p].enc = t[p].enc
    BY <1>3, <2>1, SmashKeeps
  <2> QED
    BY <1>3, <2>2 DEF TableOK
<1> HIDE DEF S
<1>4. \E f : f = Def(f)
  <2> DEFINE F == [i \in Nat |-> [t \in S |-> IF i \in start + 1 .. end THEN Smash(t, i - 1) ELSE t]]
  <2>1. F \in [Nat -> [S -> S]]
    BY <1>3
  <2>2. PICK g \in [start .. start + n -> S] :
            g[start] = old /\ \A i \in start + 1 .. start + n : g[i] = F[i][g[i - 1]]
    <3> HIDE DEF F, n
    <3>1. Iterations(S, F, old, start, n) # {}
      BY <1>1, <1>2, <2>1, Iteration
    <3> QED
      BY <3>1 DEF Iterations
  <2>3. ASSUME NEW p \in start .. end PROVE g[p] = IF p = start THEN old ELSE Smash(g[p - 1], p - 1)
    <3>1. CASE p # start
      <4>1. p \in start + 1 .. end /\ p \in Nat /\ p - 1 \in start .. end /\ p \in start + 1 .. start + n
        BY <1>1, <3>1
      <4>2. g[p - 1] \in S
        BY <1>1, <4>1
      <4>3. F[p][g[p - 1]] = Smash(g[p - 1], p - 1)
        BY <4>1, <4>2
      <4> QED
        BY <2>2, <3>1, <4>1, <4>3
    <3> QED
      BY <2>2, <3>1
  <2>4. g = [p \in start .. end |-> g[p]]
    BY <1>1
  <2>5. g = Def(g)
    BY <2>3, <2>4
  <2> QED
    BY <2>5
<1>5. to = Def(to)
  BY <1>4
<1>6. SmashRange(old, start, end) = to[end]
  BY DEF SmashRange
<1> HIDE DEF to
<1>7. to[start] = old
  BY <1>5
<1>8. ASSUME NEW i \in start + 1 .. start + n, to[i - 1] \in S PROVE to[i] \in S
  <2>1. i \in start + 1 .. end /\ i \in start .. end /\ i # start
    BY <1>1
  <2>2. to[i] = Smash(to[i - 1], i - 1)
    BY <1>5, <2>1
  <2> QED
    BY <1>3, <1>8, <2>1, <2>2
<1>9. \A i \in start .. start + n : to[i] \in S
  <2> HIDE DEF n
  <2> QED BY <1>1, <1>2, <1>7, <1>8, IterationStays
<1>10. to[end] \in S
  BY <1>1, <1>9
<1> QED
  BY <1>6, <1>10 DEF S

-----------------------------------------------------------------------------
(* The pages the shim shares.                                               *)
(*                                                                          *)
(* The C-bit follows `valid' because set_memory_shared works on exactly the *)
(* pages of its range, whatever leaves they are in; that an honest host has *)
(* shared them when the guest goes on is a loop invariant of the page state *)
(* change: the entries before desc.cur are done.                            *)

EncOK ==
    /\ TableOK(pt)
    /\ \A p \in Pages : pt[p].enc = IF p \in valid THEN TRUE ELSE FALSE

Mine == {Ghcb, Request, Response} \cup Blocks

SetsOK == valid \subseteq Pages /\ Pages \ valid \subseteq Mine /\ shared \subseteq Pages \ valid

\* set_memory_shared is under way, and x comes after it.
Sharing(x) ==
    \/ pc \in SharePc /\ then = <<x>>
    \/ pc \in IoPc /\ then = <<"shareLock", x>>

PscPc == {"psc", "pscOut", "pscBack"}
UsesMsg == {"encrypt"} \cup MsgPc

RangeOK ==
    /\ Sharing("user") => range = Blocks
    /\ Sharing("extResponse") => range = {Request}
    /\ Sharing("encrypt") => range = {Response} /\ extReady = TRUE
    /\ pc \in PscPc => range \cap valid = {}
    /\ pc = "msrPsc" => Ghcb \notin valid
    /\ pc \in UsesMsg => extReady = TRUE

SharedOK ==
    /\ pc \in PscPc => /\ desc.end = Cardinality(range) - 1 /\ desc.cur \in 0 .. Cardinality(range)
                       /\ \A i \in 0 .. desc.cur - 1 : EntryPage(i) \in shared
    /\ snp /\ pc # "msrPsc" => Ghcb \in shared
    /\ snp /\ ~Sharing("user") /\ pc \notin {"msrPsc", "msrGpa", "ended"} => Blocks \subseteq shared
    /\ pc = "extResponse" \/ extReady = TRUE => Request \in shared
    /\ extReady = TRUE /\ ~Sharing("encrypt") /\ pc # "ended" => Response \in shared

PageInv == EncOK /\ SetsOK /\ RangeOK /\ (honest => SharedOK)

LEMMA LayoutFacts ==
    /\ Ghcb \in Pages /\ Request \in Pages /\ Response \in Pages /\ Blocks \subseteq Pages /\ Blocks # {}
    /\ \A b, c \in Blocks : b .. c \subseteq Blocks
    /\ LeafSize \in [Pages -> LeafSizes]
    /\ \A p, q \in Pages : p \div LeafSize[p] = q \div LeafSize[p] => LeafSize[q] = LeafSize[p]
BY LayoutAssumption DEF LayoutAssumption

LEMMA OffsetTableOK == TableOK(OffsetTable(LeafSize)) /\ \A p \in Pages : OffsetTable(LeafSize)[p].enc = TRUE
<1> DEFINE tab == OffsetTable(LeafSize)
<1>1. ASSUME NEW p \in Pages
      PROVE  /\ tab[p] = [size |-> LeafSize[p], frame |-> p - (p % LeafSize[p]), enc |-> TRUE]
             /\ LeafSize[p] \in LeafSizes /\ p - (p % LeafSize[p]) \in Pages
  <2>1. LeafSize[p] \in LeafSizes /\ p \in Nat
    BY LayoutFacts, PagesNat
  <2>2. LeafSize[p] \in Nat \ {0}
    BY <2>1, Sizes
  <2> DEFINE s == LeafSize[p]
  <2> HIDE DEF s
  <2>3. s \in Nat \ {0}
    BY <2>2 DEF s
  <2>4. p \div s \in Nat /\ p % s \in Nat /\ p = s * (p \div s) + (p % s)
    BY <2>1, <2>3, DivMod
  <2>5. \A k \in Nat : s * k \in Nat
    BY <2>3
  <2>6. p - (p % s) \in 0 .. p
    BY <2>1, <2>4, <2>5
  <2>7. p - (p % s) \in Pages
    BY <2>6, PagesNat
  <2> QED
    BY <2>1, <2>7 DEF OffsetTable, s
<1>2. tab = [p \in Pages |-> tab[p]]
  BY DEF OffsetTable
<1> HIDE DEF tab
<1>3. ASSUME NEW p \in Pages
      PROVE  /\ tab[p].size = LeafSize[p] /\ tab[p].frame = p - (p % LeafSize[p]) /\ tab[p].enc = TRUE
             /\ tab[p] \in [size : LeafSizes, frame : Pages, enc : BOOLEAN]
  <2>1. tab[p] = [size |-> LeafSize[p], frame |-> p - (p % LeafSize[p]), enc |-> TRUE]
    BY <1>1
  <2>2. tab[p].size = LeafSize[p] /\ tab[p].frame = p - (p % LeafSize[p]) /\ tab[p].enc = TRUE
    BY <2>1
  <2> QED
    BY <1>1, <2>1, <2>2
<1>4. tab \in Tables
  BY <1>2, <1>3 DEF Tables, Leaves
<1>5. \A p \in Pages : \A q \in LeafOf(tab, p) : tab[q].size = tab[p].size /\ tab[q].enc = tab[p].enc
  <2> SUFFICES ASSUME NEW p \in Pages, NEW q \in LeafOf(tab, p)
               PROVE  tab[q].size = tab[p].size /\ tab[q].enc = tab[p].enc
    OBVIOUS
  <2>1. q \in Pages /\ p \div LeafSize[p] = q \div LeafSize[p]
    BY <1>3 DEF LeafOf
  <2>2. LeafSize[q] = LeafSize[p]
    BY <2>1, LayoutFacts
  <2> QED
    BY <1>3, <2>1, <2>2
<1>6. TableOK(tab)
  BY <1>3, <1>4, <1>5 DEF TableOK
<1> QED
  BY <1>3, <1>6 DEF tab

LEMMA PageInitInv == Init => PageInv
<1> SUFFICES ASSUME Init PROVE PageInv
  OBVIOUS
<1>1. EncOK
  BY OffsetTableOK DEF Init, EncOK
<1>2. SetsOK
  BY DEF Init, SetsOK
<1>3. RangeOK
  BY DEF Init, RangeOK, Sharing, SharePc, IoPc, PscPc, UsesMsg, MsgPc
<1>4. SharedOK
  BY DEF Init, SharedOK, PscPc
<1> QED
  BY <1>1, <1>2, <1>3, <1>4 DEF PageInv

\* The three ranges are runs of pages.
LEMMA SetOfRun ==
    ASSUME NEW B, B \subseteq Pages, B # {}, \A b, c \in B : b .. c \subseteq B
    PROVE  \E a, z \in Pages : a <= z /\ B = a .. z
<1>0. NumPages \in Nat /\ Pages = 0 .. NumPages - 1 /\ B \subseteq Nat
  BY PagesNat DEF Pages
<1>1. PICK a \in B : \A b \in B : a <= b
  BY <1>0, LeastNumber
<1> DEFINE U == {n \in Nat : \A b \in B : b <= n}
<1>2. NumPages \in U
  BY <1>0
<1>3. PICK z \in U : \A n \in U : z <= n
  BY <1>2, LeastNumber
<1>4. z \in B
  <2> SUFFICES ASSUME z \notin B PROVE FALSE
    OBVIOUS
  <2>1. \A b \in B : b <= z /\ b # z /\ b \in Nat
    BY <1>0, <1>3
  <2>2. z \in Nat /\ a < z
    BY <1>0, <1>1, <1>3, <2>1
  <2>3. z - 1 \in U
    BY <2>1, <2>2
  <2> QED
    BY <1>3, <2>2, <2>3
<1>5. B \subseteq a .. z
  BY <1>0, <1>1, <1>3
<1>6. a .. z \subseteq B
  BY <1>1, <1>4
<1>7. a <= z
  BY <1>1, <1>4
<1> QED
  BY <1>1, <1>4, <1>5, <1>6, <1>7

LEMMA RunOf ==
    ASSUME NEW B, B = Blocks \/ B = {Request} \/ B = {Response}
    PROVE  /\ B \subseteq Pages /\ B \subseteq Mine
           /\ First(B) \in Pages /\ Cardinality(B) \in Nat /\ Cardinality(B) > 0
           /\ First(B) + Cardinality(B) <= NumPages
           /\ \A p \in Pages : p \in B <=> First(B) <= p /\ p < First(B) + Cardinality(B)
<1>1. B \subseteq Pages /\ B # {} /\ B \subseteq Mine /\ \A b, c \in B : b .. c \subseteq B
  <2>1. CASE B = Blocks
    BY <2>1, LayoutFacts DEF Mine
  <2>2. ASSUME NEW x \in Pages, B = {x} PROVE \A b, c \in B : b .. c \subseteq B
    BY <2>2, PagesNat
  <2> QED
    BY <2>1, <2>2, LayoutFacts DEF Mine
<1>2. PICK a, z \in Pages : a <= z /\ B = a .. z
  BY <1>1, SetOfRun
<1>3. a \in Nat /\ z \in Nat /\ z < NumPages /\ NumPages \in Nat
  BY PagesNat DEF Pages
<1>4. Cardinality(B) = z - a + 1
  BY <1>2, <1>3, FS_Interval
<1>5. First(B) = a
  <2>1. a \in B /\ \A q \in B : a <= q
    BY <1>2, <1>3
  <2>2. First(B) \in B /\ \A q \in B : First(B) <= q
    BY <2>1 DEF First
  <2>3. First(B) \in Nat
    BY <1>2, <1>3, <2>2
  <2> QED
    BY <1>3, <2>1, <2>2, <2>3
<1> QED
  BY <1>1, <1>2, <1>3, <1>4, <1>5, PagesNat

\* Sharing one thing or another.
LEMMA StacksDiffer ==
    ASSUME NEW x, NEW y
    PROVE  /\ (<<x>> = <<y>>) <=> x = y
           /\ (<<"shareLock", x>> = <<"shareLock", y>>) <=> x = y
           /\ <<x>> # <<"shareLock", y>> /\ <<x>> # << >> /\ <<"shareLock", x>> # << >>
<1>1. (<<x>> = <<y>>) <=> x = y
  BY Stacks
<1>2. ASSUME <<"shareLock", x>> = <<"shareLock", y>> PROVE x = y
  <2>1. <<x>> = <<y>>
    BY <1>2, Stacks
  <2> QED
    BY <1>1, <2>1
<1>3. <<x>> # <<"shareLock", y>> /\ <<x>> # << >> /\ <<"shareLock", x>> # << >>
  <2>1. Len(<<x>>) = 1 /\ Len(<<"shareLock", y>>) = 2 /\ Len(<<"shareLock", x>>) = 2 /\ Len(<< >>) = 0
    OBVIOUS
  <2> QED
    BY <2>1
<1> QED
  BY <1>1, <1>2, <1>3

\* A step that leaves the pages alone and does not start or end the sharing.
LEMMA SamePages ==
    ASSUME SnpInv, SnpInv', PageInv,
           pc' = "ended" \/ \A x \in AfterShare : Sharing(x)' <=> Sharing(x),
           pc \notin {"msrPsc", "msrGpa", "ended"},
           pc' \notin {"msrPsc", "msrGpa", "extResponse"} \cup PscPc,
           pc' \in UsesMsg => extReady = TRUE,
           UNCHANGED <<honest, snp, pt, valid, shared, range, extReady>>
    PROVE  PageInv'
<1>1. EncOK'
  BY DEF PageInv, EncOK, TableOK, LeafOf
<1>2. SetsOK'
  BY DEF PageInv, SetsOK
<1>3. CASE pc' = "ended"
  <2>1. \A x : ~Sharing(x)'
    BY <1>3 DEF Sharing, SharePc, IoPc
  <2>2. RangeOK'
    BY <1>3, <2>1 DEF RangeOK, PscPc, UsesMsg, MsgPc
  <2>3. honest => SharedOK'
    BY <1>3 DEF PageInv, SharedOK, PscPc
  <2> QED
    BY <1>1, <1>2, <2>2, <2>3 DEF PageInv
<1>4. CASE \A x \in AfterShare : Sharing(x)' <=> Sharing(x)
  <2>1. /\ Sharing("user")' <=> Sharing("user")
        /\ Sharing("extResponse")' <=> Sharing("extResponse")
        /\ Sharing("encrypt")' <=> Sharing("encrypt")
    BY <1>4 DEF AfterShare
  <2>2. RangeOK'
    BY <2>1 DEF PageInv, RangeOK
  <2>3. honest => SharedOK'
    BY <2>1 DEF PageInv, SharedOK
  <2> QED
    BY <1>1, <1>2, <2>2, <2>3 DEF PageInv
<1> QED
  BY <1>3, <1>4

\* Outside of host calls and of set_memory_shared nothing is being shared.
LEMMA NotSharing ==
    ASSUME pc \notin SharePc, pc \notin IoPc \/ then = <<"user">> \/ then = <<"vcek">>
    PROVE  \A x \in AfterShare : ~Sharing(x)
BY StacksDiffer DEF Sharing, SharePc, IoPc

LEMMA NotSharingNext ==
    ASSUME pc' \notin SharePc, pc' \notin IoPc \/ then' = <<"user">> \/ then' = <<"vcek">>
    PROVE  \A x \in AfterShare : ~Sharing(x)'
BY StacksDiffer DEF Sharing, SharePc, IoPc

LEMMA IoPages ==
    ASSUME SnpInv, SnpInv', ExitInv', PageInv, DoIoOut \/ HostIo \/ IoBack
    PROVE  PageInv'
<1> USE DEF Goto, End, Resume, pageVars, callVars
<1>1. UNCHANGED <<honest, snp, pt, valid, shared, range, extReady>> /\ pc \in IoPc
  BY DEF DoIoOut, HostIo, IoBack, IoPc
<1>2. CASE DoIoOut \/ HostIo
  <2>1. then' = then /\ pc' \in IoPc
    BY <1>2 DEF DoIoOut, HostIo, Lock, ExitInv, LockOK, IoPc
  <2>2. \A x \in AfterShare : Sharing(x)' <=> Sharing(x)
    BY <1>1, <2>1 DEF Sharing, SharePc, IoPc
  <2> QED
    BY <1>1, <2>1, <2>2, SamePages DEF IoPc, PscPc, UsesMsg, MsgPc
<1>3. CASE IoBack
  <2>1. pc' = "ended" \/ (pc' = Head(then) /\ then' = Tail(then))
    BY <1>3 DEF IoBack
  <2>2. CASE pc' = "ended"
    BY <1>1, <2>2, SamePages DEF IoPc, PscPc, UsesMsg, MsgPc
  <2>3. CASE pc' = Head(then) /\ then' = Tail(then) /\ (then = <<"user">> \/ then = <<"vcek">>)
    <3>1. pc' \in {"user", "vcek"}
      BY <2>3, Stacks
    <3>2. \A x \in AfterShare : ~Sharing(x)
      BY <1>1, <2>3, NotSharing DEF IoPc, SharePc
    <3>3. \A x \in AfterShare : ~Sharing(x)'
      BY <3>1, NotSharingNext DEF IoPc, SharePc
    <3> QED
      BY <1>1, <3>1, <3>2, <3>3, SamePages DEF IoPc, PscPc, UsesMsg, MsgPc
  <2>4. ASSUME pc' = Head(then), then' = Tail(then), NEW y \in AfterShare, then = <<"shareLock", y>>
        PROVE  PageInv'
    <3>1. pc' = "shareLock" /\ then' = <<y>>
      BY <2>4, Stacks
    <3>2. \A x : Sharing(x) <=> x = y
      BY <1>1, <2>4, StacksDiffer DEF Sharing, IoPc, SharePc
    <3>3. \A x : Sharing(x)' <=> x = y
      BY <3>1, StacksDiffer DEF Sharing, IoPc, SharePc
    <3> QED
      BY <1>1, <3>1, <3>2, <3>3, SamePages DEF IoPc, PscPc, UsesMsg, MsgPc
  <2> QED
    BY <1>1, <2>1, <2>2, <2>3, <2>4 DEF SnpInv, ControlOK
<1> QED
  BY <1>2, <1>3

LEMMA CallPages ==
    ASSUME SnpInv, SnpInv', ExitInv', PageInv,
           \/ Syscall \/ GetKey \/ GetAttestation \/ FetchVcek \/ Attest
           \/ EncPayload \/ GuestReq \/ HostRequest \/ ReqBack \/ DecPayload
    PROVE  PageInv'
<1> USE DEF Goto, GoThen, End, Return, pageVars, callVars
<1>1. ASSUME pc \in {"user", "vcek", "attest", "encrypt"} \cup MsgPc,
             pc' \in {"user", "vcek", "attest", "extInit", "encrypt", "ended"} \cup MsgPc
                 \/ (pc' = "io" /\ then' \in {<<"user">>, <<"vcek">>}),
             pc' \in UsesMsg => extReady = TRUE,
             UNCHANGED <<honest, snp, pt, valid, shared, range, extReady>>
      PROVE  PageInv'
  <2>1. \A x \in AfterShare : ~Sharing(x)
    BY <1>1, NotSharing DEF IoPc, SharePc, MsgPc
  <2>2. \A x \in AfterShare : ~Sharing(x)'
    BY <1>1, NotSharingNext DEF IoPc, SharePc, MsgPc
  <2>3. pc' \notin {"msrPsc", "msrGpa", "extResponse"} \cup PscPc /\ pc \notin {"msrPsc", "msrGpa", "ended"}
    BY <1>1 DEF PscPc, MsgPc
  <2> QED
    BY <1>1, <2>1, <2>2, <2>3, SamePages
<1>2. pc \in UsesMsg => extReady = TRUE
  BY DEF PageInv, RangeOK
<1>3. CASE Syscall
  <2>1. pc = "user" /\ pc' = "io" /\ then' = <<"user">> \o then /\ then = << >>
        /\ UNCHANGED <<honest, snp, pt, valid, shared, range, extReady>>
    BY <1>3 DEF Syscall, SnpInv, ControlOK, FlatPc
  <2>2. then' = <<"user">>
    BY <2>1, Stacks
  <2> QED
    BY <1>1, <2>1, <2>2 DEF UsesMsg, MsgPc
<1>4. CASE GetKey
  <2>1. pc = "user" /\ UNCHANGED <<honest, snp, pt, valid, shared, range, extReady>>
    BY <1>4 DEF GetKey
  <2>2. pc' \in {"user", "extInit"} \/ (pc' = "encrypt" /\ extReady = TRUE)
    BY <1>4 DEF GetKey, Continue
  <2> QED
    BY <1>1, <2>1, <2>2 DEF UsesMsg, MsgPc
<1>5. CASE GetAttestation
  <2>1. pc = "user" /\ UNCHANGED <<honest, snp, pt, valid, shared, range, extReady>> /\ then = << >>
    BY <1>5 DEF GetAttestation, SnpInv, ControlOK, FlatPc
  <2>2. \/ pc' \in {"user", "attest"}
        \/ pc' = "io" /\ then' = <<"vcek">> \o then
    BY <1>5 DEF GetAttestation
  <2>3. <<"vcek">> \o << >> = <<"vcek">>
    BY Stacks
  <2> QED
    BY <1>1, <2>1, <2>2, <2>3 DEF UsesMsg, MsgPc
<1>6. CASE FetchVcek
  BY <1>1, <1>6 DEF FetchVcek, UsesMsg, MsgPc
<1>7. CASE Attest
  <2>1. pc = "attest" /\ UNCHANGED <<honest, snp, pt, valid, shared, range, extReady>>
    BY <1>7 DEF Attest
  <2>2. pc' \in {"user", "extInit"} \/ (pc' = "encrypt" /\ extReady = TRUE)
    BY <1>7 DEF Attest, Continue
  <2> QED
    BY <1>1, <2>1, <2>2 DEF UsesMsg, MsgPc
<1>8. CASE EncPayload
  <2>1. pc = "encrypt" /\ UNCHANGED <<honest, snp, pt, valid, shared, range, extReady>>
        /\ pc' \in {"request", "ended"}
    BY <1>8 DEF EncPayload
  <2> QED
    BY <1>1, <1>2, <2>1 DEF UsesMsg, MsgPc
<1>9. CASE GuestReq
  <2>1. pc = "request" /\ UNCHANGED <<honest, snp, pt, valid, shared, range, extReady>> /\ pc' = "reqOut"
    BY <1>9 DEF GuestReq, Lock, ExitInv, LockOK
  <2> QED
    BY <1>1, <1>2, <2>1 DEF UsesMsg, MsgPc
<1>10. CASE HostRequest
  <2>1. pc = "reqOut" /\ UNCHANGED <<honest, snp, pt, valid, shared, range, extReady>> /\ pc' = "reqBack"
    BY <1>10 DEF HostRequest
  <2> QED
    BY <1>1, <1>2, <2>1 DEF UsesMsg, MsgPc
<1>11. CASE ReqBack
  <2>1. pc = "reqBack" /\ UNCHANGED <<honest, snp, pt, valid, shared, range, extReady>>
        /\ pc' \in {"decrypt", "ended"}
    BY <1>11 DEF ReqBack, AfterRequest
  <2> QED
    BY <1>1, <1>2, <2>1 DEF UsesMsg, MsgPc
<1>12. CASE DecPayload
  <2>1. pc = "decrypt" /\ UNCHANGED <<honest, snp, pt, valid, shared, range, extReady>>
    BY <1>12 DEF DecPayload
  <2>2. pc' \in {"user", "ended"}
    BY <1>12 DEF DecPayload
  <2> QED
    BY <1>1, <1>2, <2>1, <2>2 DEF UsesMsg, MsgPc
<1> QED
  BY <1>3, <1>4, <1>5, <1>6, <1>7, <1>8, <1>9, <1>10, <1>11, <1>12

\* What a range of pages does to the table and to valid.
LEMMA SharedRange ==
    ASSUME EncOK, SetsOK, NEW B, B \subseteq Mine, NEW first \in Nat, NEW end \in Nat,
           first <= end, end <= NumPages,
           \A p \in Pages : p \in B <=> first <= p /\ p < end,
           NEW tab, TableOK(tab), \A p \in Pages : tab[p].enc = pt[p].enc,
           pt' = ClearCBit(tab, first, end), valid' = valid \ B,
           shared' = shared
    PROVE  EncOK' /\ SetsOK'
<1>1. /\ TableOK(pt')
      /\ \A p \in Pages : pt'[p].enc = IF first <= p /\ p < end THEN FALSE ELSE tab[p].enc
  BY ClearCBitClears
<1>2. ASSUME NEW p \in Pages PROVE pt'[p].enc = IF p \in valid' THEN TRUE ELSE FALSE
  <2>1. CASE p \in B
    BY <1>1, <2>1
  <2>2. CASE p \notin B
    <3>1. pt'[p].enc = pt[p].enc
      BY <1>1, <2>2
    <3>2. p \in valid' <=> p \in valid
      BY <2>2
    <3> QED
      BY <3>1, <3>2 DEF EncOK
  <2> QED
    BY <2>1, <2>2
<1>3. TableOK(pt)'
  BY <1>1 DEF TableOK, LeafOf
<1>4. EncOK'
  BY <1>2, <1>3 DEF EncOK
<1>5. SetsOK'
  BY DEF SetsOK
<1> QED
  BY <1>4, <1>5

LEMMA StartPages ==
    ASSUME SnpInv, SnpInv', PageInv, Start \/ MsrPsc \/ MsrGpa
    PROVE  PageInv'
<1> USE DEF Goto, End, pageVars, callVars
<1>0. pc \in {"reset", "msrPsc", "msrGpa"} /\ then = << >>
  BY DEF Start, MsrPsc, MsrGpa, SnpInv, ControlOK, FlatPc
<1>1. CASE Start
  <2>0. pc = "reset" /\ UNCHANGED <<honest, extReady>>
    BY <1>1 DEF Start
  <2>1. \/ pc' = "user" /\ snp' = FALSE /\ UNCHANGED <<pt, valid, shared, range>>
        \/ pc' = "ended" /\ UNCHANGED <<snp, pt, valid, shared, range>>
        \/ pc' = "msrPsc" /\ MakeGhcbShared
    BY <1>1 DEF Start, CBitOf
  <2>2. \A x : ~Sharing(x)'
    BY <2>1 DEF Sharing, SharePc, IoPc
  <2>3. EncOK' /\ SetsOK' /\ (shared' = shared)
    <3>1. CASE UNCHANGED <<pt, valid, shared>>
      BY <3>1 DEF PageInv, EncOK, SetsOK, TableOK, LeafOf
    <3>2. CASE MakeGhcbShared
      <4>1. Ghcb \in Nat /\ Ghcb + 1 <= NumPages /\ Ghcb + 1 \in Nat /\ NumPages \in Nat
        BY LayoutFacts, PagesNat DEF Pages
      <4>2. TableOK(Smash(pt, Ghcb)) /\ \A p \in Pages : Smash(pt, Ghcb)[p].enc = pt[p].enc
        BY LayoutFacts, SmashKeeps DEF PageInv, EncOK
      <4>3. \A p \in Pages : p \in {Ghcb} <=> Ghcb <= p /\ p < Ghcb + 1
        BY <4>1, PagesNat
      <4>4. pt' = ClearCBit(Smash(pt, Ghcb), Ghcb, Ghcb + 1) /\ valid' = valid \ {Ghcb} /\ shared' = shared
        BY <3>2 DEF MakeGhcbShared
      <4>5. {Ghcb} \subseteq Mine /\ EncOK /\ SetsOK
        BY DEF Mine, PageInv
      <4> DEFINE B == {Ghcb}
                 end == Ghcb + 1
                 tab == Smash(pt, Ghcb)
      <4>6. /\ B \subseteq Mine /\ Ghcb \in Nat /\ end \in Nat /\ Ghcb <= end /\ end <= NumPages
            /\ \A p \in Pages : p \in B <=> Ghcb <= p /\ p < end
            /\ TableOK(tab) /\ \A p \in Pages : tab[p].enc = pt[p].enc
            /\ pt' = ClearCBit(tab, Ghcb, end) /\ valid' = valid \ B /\ shared' = shared
        BY <4>1, <4>2, <4>3, <4>4, <4>5
      <4> HIDE DEF B, end, tab
      <4>7. EncOK' /\ SetsOK'
        BY <4>5, <4>6, SharedRange
      <4> QED
        BY <4>4, <4>7
    <3> QED
      BY <2>1, <3>1, <3>2
  <2>4. RangeOK'
    BY <2>1, <2>2 DEF RangeOK, PscPc, UsesMsg, MsgPc, MakeGhcbShared
  <2>5. honest => SharedOK'
    <3>1. honest => SharedOK
      BY DEF PageInv
    <3>2. ~Sharing("encrypt")
      BY <2>0 DEF Sharing, SharePc, IoPc
    <3>3. ~Sharing("user")
      BY <2>0 DEF Sharing, SharePc, IoPc
    <3> QED
      BY <2>0, <2>1, <2>2, <2>3, <3>1, <3>2, <3>3 DEF SharedOK, PscPc
  <2> QED
    BY <2>0, <2>3, <2>4, <2>5 DEF PageInv
<1>2. CASE MsrPsc
  <2>1. pc = "msrPsc" /\ UNCHANGED <<honest, snp, extReady, pt, valid, range>>
    BY <1>2 DEF MsrPsc
  <2>2. \/ pc' = "msrGpa" /\ shared' = shared \cup {Ghcb}
        \/ pc' = "ended" /\ ~honest /\ shared' = shared
    BY <1>2 DEF MsrPsc
  <2>3. \A x : ~Sharing(x)' /\ ~Sharing(x)
    BY <2>1, <2>2 DEF Sharing, SharePc, IoPc
  <2>4. EncOK'
    BY <2>1 DEF PageInv, EncOK, TableOK, LeafOf
  <2>5. SetsOK'
    <3>1. Ghcb \in Pages \ valid
      BY <2>1, LayoutFacts DEF PageInv, RangeOK
    <3> QED
      BY <2>1, <2>2, <3>1 DEF PageInv, SetsOK
  <2>6. RangeOK'
    BY <2>1, <2>2, <2>3 DEF PageInv, RangeOK, PscPc, UsesMsg, MsgPc
  <2>7. honest => SharedOK'
    BY <2>1, <2>2, <2>3 DEF PageInv, SharedOK, PscPc
  <2> QED
    BY <2>1, <2>4, <2>5, <2>6, <2>7 DEF PageInv
<1>3. CASE MsrGpa
  <2>1. pc = "msrGpa" /\ UNCHANGED <<honest, snp, extReady, pt, valid, shared>>
    BY <1>3 DEF MsrGpa
  <2>2. \/ pc' = "share" /\ then' = <<"user">> /\ range' = Blocks
        \/ pc' = "ended" /\ ~honest
    BY <1>3 DEF MsrGpa
  <2>3. \A x : ~Sharing(x)
    BY <2>1 DEF Sharing, SharePc, IoPc
  <2>4. /\ pc' = "share" => \A x : Sharing(x)' <=> x = "user"
        /\ pc' = "ended" => \A x : ~Sharing(x)'
    BY <2>2, StacksDiffer DEF Sharing, SharePc, IoPc
  <2>5. EncOK' /\ SetsOK'
    BY <2>1 DEF PageInv, EncOK, SetsOK, TableOK, LeafOf
  <2>6. RangeOK'
    BY <2>1, <2>2, <2>4 DEF PageInv, RangeOK, PscPc, UsesMsg, MsgPc
  <2>7. honest => SharedOK'
    BY <2>1, <2>2, <2>3, <2>4 DEF PageInv, SharedOK, PscPc
  <2> QED
    BY <2>1, <2>5, <2>6, <2>7 DEF PageInv
<1> QED
  BY <1>1, <1>2, <1>3

\* While it is being shared, a range is one of the three.
LEMMA RangeShared ==
    ASSUME SnpInv, PageInv, pc \in SharePc
    PROVE  \E x \in AfterShare : /\ then = <<x>> /\ \A y : Sharing(y) <=> y = x
                                 /\ range = IF x = "user" THEN Blocks
                                            ELSE IF x = "extResponse" THEN {Request} ELSE {Response}
<1>1. PICK x \in AfterShare : then = <<x>>
  BY DEF SnpInv, ControlOK
<1>2. pc \notin IoPc
  BY DEF SharePc, IoPc
<1>3. \A y : Sharing(y) <=> y = x
  BY <1>1, <1>2, StacksDiffer DEF Sharing
<1> QED
  BY <1>1, <1>3 DEF AfterShare, PageInv, RangeOK

LEMMA SharePages1 ==
    ASSUME SnpInv, SnpInv', ExitInv, ExitInv', PageInv, ShareTables \/ SharePages
    PROVE  PageInv'
<1> USE DEF Goto, GoThen, pageVars, callVars
<1>0. pc \in {"share", "shareLock"}
  BY DEF ShareTables, SharePages
<1>1. PICK x \in AfterShare : /\ then = <<x>> /\ \A y : Sharing(y) <=> y = x
                              /\ range = IF x = "user" THEN Blocks
                                         ELSE IF x = "extResponse" THEN {Request} ELSE {Response}
  BY <1>0, RangeShared DEF SharePc
<1>2. CASE ShareTables
  <2>1. UNCHANGED <<honest, snp, pt, valid, shared, range, extReady>>
    BY <1>2 DEF ShareTables
  <2>2. \/ pc' = "shareLock" /\ then' = then
        \/ pc' = "io" /\ then' = <<"shareLock">> \o then
    BY <1>2 DEF ShareTables
  <2>3. <<"shareLock">> \o <<x>> = <<"shareLock", x>>
    BY Stacks
  <2>4. \A y : Sharing(y)' <=> y = x
    BY <1>1, <2>2, <2>3, StacksDiffer DEF Sharing, SharePc, IoPc
  <2> QED
    BY <1>0, <1>1, <2>1, <2>2, <2>4, SamePages DEF PscPc, UsesMsg, MsgPc
<1>3. CASE SharePages
  <2>1. locked = FALSE
    BY <1>0, <1>3 DEF ExitInv, LockOK, HoldsLock
  <2> DEFINE first == First(range)
             end == first + Cardinality(range)
             tab == SmashRange(pt, first, end)
  <2>2. /\ pc' = "psc" /\ then' = then /\ desc' = DescOf(range) /\ valid' = valid \ range
        /\ pt' = ClearCBit(tab, first, end)
        /\ UNCHANGED <<honest, snp, shared, range, extReady>>
    BY <1>3, <2>1 DEF SharePages, Lock, Pvalidate
  <2>3. /\ range \subseteq Pages /\ range \subseteq Mine
        /\ first \in Pages /\ Cardinality(range) \in Nat /\ Cardinality(range) > 0 /\ end <= NumPages
        /\ \A p \in Pages : p \in range <=> first <= p /\ p < end
    BY <1>1, RunOf
  <2> HIDE DEF first
  <2>4. first \in Nat /\ end \in Nat /\ first <= end
    <3>1. first \in Nat
      BY <2>3, PagesNat
    <3> QED
      BY <2>3, <3>1
  <2>5. EncOK /\ SetsOK /\ TableOK(pt)
    BY DEF PageInv, EncOK
  <2> HIDE DEF end
  <2>6. TableOK(tab) /\ \A p \in Pages : tab[p].enc = pt[p].enc
    BY <2>3, <2>4, <2>5, SmashRangeKeeps
  <2> HIDE DEF tab
  <2>7. EncOK' /\ SetsOK'
    BY <2>2, <2>3, <2>4, <2>5, <2>6, SharedRange
  <2>8. \A y : Sharing(y)' <=> y = x
    BY <1>1, <2>2, StacksDiffer DEF Sharing, SharePc, IoPc
  <2>9. RangeOK'
    <3>1. x = "encrypt" => extReady = TRUE
      BY <1>1 DEF PageInv, RangeOK
    <3> QED
      BY <1>1, <2>2, <2>8, <3>1 DEF RangeOK, UsesMsg, MsgPc, AfterShare
  <2>10. honest => SharedOK'
    <3>1. desc'.cur = 0 /\ desc'.end = Cardinality(range) - 1
      BY <2>2 DEF DescOf
    <3>2. 0 \in 0 .. Cardinality(range) /\ 0 .. 0 - 1 = {}
      BY <2>3
    <3>3. /\ desc'.end = Cardinality(range') - 1 /\ desc'.cur \in 0 .. Cardinality(range')
          /\ \A i \in 0 .. desc'.cur - 1 : EntryPage(i)' \in shared'
      BY <2>2, <3>1, <3>2
    <3> QED
      BY <1>0, <1>1, <2>2, <2>8, <3>3 DEF PageInv, SharedOK
  <2> QED
    BY <2>2, <2>7, <2>9, <2>10 DEF PageInv
<1> QED
  BY <1>2, <1>3

LEMMA PscPages ==
    ASSUME SnpInv, SnpInv', ExitInv, ExitInv', PageInv, PscLoop \/ HostPsc \/ PscBack
    PROVE  PageInv'
<1> USE DEF Goto, End, Resume, pageVars, callVars
<1>0. pc \in PscPc /\ UNCHANGED <<honest, snp, pt, valid, range, extReady>>
  BY DEF PscLoop, HostPsc, PscBack, PscPc
<1>1. PICK x \in AfterShare : /\ then = <<x>> /\ \A y : Sharing(y) <=> y = x
                              /\ range = IF x = "user" THEN Blocks
                                         ELSE IF x = "extResponse" THEN {Request} ELSE {Response}
  BY <1>0, RangeShared DEF SharePc, PscPc
<1>2. /\ First(range) \in Nat /\ Cardinality(range) \in Nat
      /\ \A p \in Pages : p \in range <=> First(range) <= p /\ p < First(range) + Cardinality(range)
      /\ First(range) + Cardinality(range) <= NumPages /\ range \subseteq Pages
  BY <1>1, RunOf, PagesNat
<1>3. x = "encrypt" => extReady = TRUE
  BY <1>1 DEF PageInv, RangeOK
<1>4. range \cap valid = {}
  BY <1>0 DEF PageInv, RangeOK
<1>5. EncOK'
  BY <1>0 DEF PageInv, EncOK, TableOK, LeafOf
<1>6. ASSUME pc' \in PscPc, then' = then PROVE RangeOK' /\ \A y : Sharing(y)' <=> y = x
  <2>1. \A y : Sharing(y)' <=> y = x
    BY <1>1, <1>6, StacksDiffer DEF Sharing, SharePc, IoPc, PscPc
  <2> QED
    BY <1>0, <1>1, <1>3, <1>4, <1>6, <2>1 DEF RangeOK, UsesMsg, MsgPc, PscPc, AfterShare
<1>7. CASE PscLoop
  <2>1. UNCHANGED <<shared, desc>> /\ pc = "psc"
    BY <1>7 DEF PscLoop
  <2>2. SetsOK'
    BY <1>0, <2>1 DEF PageInv, SetsOK
  <2>3. CASE PscDone
    <3>1. pc' = x /\ then' = << >>
      <4>1. pc' = Head(then) /\ then' = Tail(then)
        BY <1>7, <2>3 DEF PscLoop
      <4> QED
        BY <1>1, <4>1, Stacks
    <3>2. \A y : ~Sharing(y)'
      BY <3>1, StacksDiffer DEF Sharing, SharePc, IoPc, AfterShare
    <3>3. RangeOK'
      BY <1>0, <1>3, <3>1, <3>2 DEF RangeOK, UsesMsg, MsgPc, PscPc, AfterShare
    <3>4. ASSUME honest PROVE range \subseteq shared
      <4>1. /\ desc.end = Cardinality(range) - 1 /\ desc.cur \in 0 .. Cardinality(range)
            /\ \A i \in 0 .. desc.cur - 1 : EntryPage(i) \in shared
        BY <1>0, <3>4 DEF PageInv, SharedOK
      <4>2. desc.cur = Cardinality(range)
        BY <1>2, <2>3, <4>1 DEF PscDone
      <4>3. ASSUME NEW p \in range PROVE p \in shared
        <5>1. p \in Nat /\ First(range) <= p /\ p < First(range) + Cardinality(range)
          BY <1>2, PagesNat
        <5> DEFINE i == p - First(range)
        <5>2. i \in 0 .. desc.cur - 1 /\ First(range) + i = p
          BY <1>2, <4>2, <5>1
        <5>3. EntryPage(i) \in shared
          BY <4>1, <5>2
        <5> QED
          BY <5>2, <5>3 DEF EntryPage
      <4> QED
        BY <4>3
    <3>5. honest => SharedOK'
      <4>1. honest => SharedOK
        BY DEF PageInv
      <4>2. pc' \notin PscPc /\ pc' # "msrPsc" /\ pc' \in {"user", "extResponse", "encrypt"}
        BY <3>1 DEF PscPc, AfterShare
      <4>3. snp' /\ honest => Ghcb \in shared'
        BY <1>0, <2>1, <4>1 DEF SharedOK
      <4>4. snp' /\ honest => Blocks \subseteq shared'
        BY <1>0, <1>1, <2>1, <3>4, <4>1 DEF SharedOK
      <4>5. honest /\ (pc' = "extResponse" \/ extReady' = TRUE) => Request \in shared'
        BY <1>0, <1>1, <2>1, <3>1, <3>4, <4>1 DEF SharedOK
      <4>6. honest /\ extReady' = TRUE => Response \in shared'
        BY <1>0, <1>1, <2>1, <3>4, <4>1 DEF SharedOK, AfterShare
      <4> QED
        BY <4>2, <4>3, <4>4, <4>5, <4>6 DEF SharedOK
    <3> QED
      BY <1>0, <1>5, <2>2, <3>3, <3>5 DEF PageInv
  <2>4. CASE ~PscDone
    <3>1. pc' = "pscOut" /\ then' = then
      BY <1>7, <2>4 DEF PscLoop
    <3>2. RangeOK' /\ \A y : Sharing(y)' <=> y = x
      BY <1>6, <3>1 DEF PscPc
    <3>3. honest => SharedOK'
      BY <1>0, <1>1, <2>1, <3>1, <3>2 DEF PageInv, SharedOK, PscPc, EntryPage
    <3> QED
      BY <1>0, <1>5, <2>2, <3>2, <3>3 DEF PageInv
  <2> QED
    BY <2>3, <2>4
<1>8. CASE PscBack
  <2>1. UNCHANGED <<shared, desc>> /\ pc = "pscBack"
    BY <1>8 DEF PscBack, ghcbVars
  <2>2. SetsOK'
    BY <1>0, <2>1 DEF PageInv, SetsOK
  <2>3. CASE pc' = "ended"
    BY <1>0, <2>1, <2>3, SamePages DEF PscPc, UsesMsg, MsgPc
  <2>4. CASE pc' = "psc" /\ then' = then
    <3>2. RangeOK' /\ \A y : Sharing(y)' <=> y = x
      BY <1>6, <2>4 DEF PscPc
    <3>3. honest => SharedOK'
      BY <1>0, <1>1, <2>1, <2>4, <3>2 DEF PageInv, SharedOK, PscPc, EntryPage
    <3> QED
      BY <1>0, <1>5, <2>2, <3>2, <3>3 DEF PageInv
  <2> QED
    BY <1>8, <2>3, <2>4 DEF PscBack
<1>9. CASE HostPsc
  <2>1. pc' = "pscBack" /\ then' = then /\ pc = "pscOut"
    BY <1>9 DEF HostPsc
  <2>2. RangeOK' /\ \A y : Sharing(y)' <=> y = x
    BY <1>6, <2>1 DEF PscPc
  <2>3. CASE ~honest
    <3>1. shared' = shared
      BY <1>9, <2>3 DEF HostPsc
    <3>2. SetsOK'
      BY <1>0, <3>1 DEF PageInv, SetsOK
    <3> QED
      BY <1>0, <1>5, <2>2, <2>3, <3>2 DEF PageInv
  <2>4. CASE honest
    <3>1. PICK cur \in 0 .. Cardinality(range) : HonestPsc(cur)
      BY <1>9, <2>4 DEF HostPsc
    <3>2. /\ desc.end = Cardinality(range) - 1 /\ desc.cur \in 0 .. Cardinality(range)
          /\ \A i \in 0 .. desc.cur - 1 : EntryPage(i) \in shared
      BY <1>0, <2>4 DEF PageInv, SharedOK
    <3>3. cur \in Nat /\ desc.cur <= cur /\ cur <= Cardinality(range)
      BY <1>2, <3>1, <3>2 DEF HonestPsc
    <3>4. desc'.cur = cur /\ desc'.end = desc.end
      <4>1. desc \in [cur : Int, end : Int] /\ desc' = [desc EXCEPT !.cur = cur]
        BY <3>1 DEF HonestPsc, ExitInv, DescOK
      <4> QED
        BY <4>1
    <3>5. shared' = shared \cup {EntryPage(i) : i \in desc.cur .. cur - 1}
      BY <3>1 DEF HonestPsc
    <3>6. \A i \in 0 .. cur - 1 : EntryPage(i) \in shared'
      <4> SUFFICES ASSUME NEW i \in 0 .. cur - 1 PROVE EntryPage(i) \in shared'
        OBVIOUS
      <4>1. i \in 0 .. desc.cur - 1 \/ i \in desc.cur .. cur - 1
        BY <3>2, <3>3
      <4> QED
        BY <3>2, <3>5, <4>1
    <3>7. SetsOK'
      <4>1. ASSUME NEW i \in desc.cur .. cur - 1 PROVE EntryPage(i) \in Pages \ valid
        <5>1. i \in Nat /\ i < Cardinality(range)
          BY <1>2, <3>2, <3>3
        <5>2. First(range) + i \in Pages
          BY <1>2, <5>1, PagesNat DEF Pages
        <5>3. First(range) + i \in range
          BY <1>2, <5>1, <5>2
        <5> QED
          BY <1>4, <5>2, <5>3 DEF EntryPage
      <4> QED
        BY <1>0, <3>5, <4>1 DEF PageInv, SetsOK
    <3>8. \A i \in 0 .. desc'.cur - 1 : EntryPage(i)' \in shared'
      BY <1>0, <3>4, <3>6 DEF EntryPage
    <3>9. /\ desc'.end = Cardinality(range') - 1 /\ desc'.cur \in 0 .. Cardinality(range')
      BY <1>0, <1>2, <3>2, <3>3, <3>4
    <3>10. shared \subseteq shared'
      BY <3>5
    <3>11. SharedOK'
      BY <1>0, <1>1, <2>1, <2>2, <2>4, <3>8, <3>9, <3>10 DEF PageInv, SharedOK, PscPc
    <3> QED
      BY <1>5, <2>2, <3>7, <3>11 DEF PageInv
  <2> QED
    BY <2>3, <2>4
<1> QED
  BY <1>7, <1>8, <1>9

LEMMA ExtPages ==
    ASSUME SnpInv, PageInv, ExtInit \/ ExtResponse
    PROVE  PageInv'
<1> USE DEF GoThen, pageVars, callVars
<1>1. /\ pc \in {"extInit", "extResponse"} /\ pc' = "share" /\ then = << >>
      /\ UNCHANGED <<honest, snp, pt, valid, shared>>
  BY DEF ExtInit, ExtResponse, SnpInv, ControlOK, FlatPc
<1>2. EncOK' /\ SetsOK'
  BY <1>1 DEF PageInv, EncOK, SetsOK, TableOK, LeafOf
<1>3. \A y : ~Sharing(y)
  BY <1>1 DEF Sharing, SharePc, IoPc
<1>4. honest => SharedOK
  BY DEF PageInv
<1>5. CASE ExtInit
  <2>1. then' = <<"extResponse">> /\ range' = {Request} /\ extReady' = extReady
    <3>1. then' = <<"extResponse">> \o then
      BY <1>5 DEF ExtInit
    <3> QED
      BY <1>1, <1>5, <3>1, Stacks DEF ExtInit
  <2>2. \A y : Sharing(y)' <=> y = "extResponse"
    BY <1>1, <2>1, StacksDiffer DEF Sharing, SharePc, IoPc
  <2>3. RangeOK'
    BY <1>1, <2>1, <2>2 DEF RangeOK, PscPc, UsesMsg, MsgPc
  <2>4. honest => SharedOK'
    BY <1>1, <1>3, <1>4, <2>1, <2>2 DEF SharedOK, PscPc
  <2> QED
    BY <1>1, <1>2, <2>3, <2>4 DEF PageInv
<1>6. CASE ExtResponse
  <2>1. pc = "extResponse" /\ then' = <<"encrypt">> /\ range' = {Response} /\ extReady' = TRUE
    <3>1. then' = <<"encrypt">> \o then
      BY <1>6 DEF ExtResponse
    <3> QED
      BY <1>1, <1>6, <3>1, Stacks DEF ExtResponse
  <2>2. \A y : Sharing(y)' <=> y = "encrypt"
    BY <1>1, <2>1, StacksDiffer DEF Sharing, SharePc, IoPc
  <2>3. RangeOK'
    BY <1>1, <2>1, <2>2 DEF RangeOK, PscPc, UsesMsg, MsgPc
  <2>4. honest => SharedOK'
    BY <1>1, <1>3, <1>4, <2>1, <2>2 DEF SharedOK, PscPc
  <2> QED
    BY <1>1, <1>2, <2>3, <2>4 DEF PageInv
<1> QED
  BY <1>5, <1>6

LEMMA PageNextInv ==
    SnpInv /\ SnpInv' /\ ExitInv /\ ExitInv' /\ PageInv /\ [Next]_vars => PageInv'
<1> SUFFICES ASSUME SnpInv, SnpInv', ExitInv, ExitInv', PageInv, [Next]_vars PROVE PageInv'
  OBVIOUS
<1>1. CASE UNCHANGED vars
  <2>1. UNCHANGED <<honest, snp, pc, then, pt, valid, shared, range, extReady, desc>>
    BY <1>1 DEF vars, pageVars, callVars, ghcbVars
  <2>2. EncOK' /\ SetsOK'
    BY <2>1 DEF PageInv, EncOK, SetsOK, TableOK, LeafOf
  <2>3. RangeOK'
    BY <2>1 DEF PageInv, RangeOK, Sharing
  <2>4. honest => SharedOK'
    BY <2>1 DEF PageInv, SharedOK, Sharing, EntryPage
  <2> QED
    BY <2>1, <2>2, <2>3, <2>4 DEF PageInv
<1> QED
  BY <1>1, IoPages, CallPages, StartPages, SharePages1, PscPages, ExtPages
  DEF Next, GuestStep, HostStep, Halted

LEMMA PageAlways == Spec => []PageInv
BY PageInitInv, PageNextInv, SnpAlways, ExitAlways, PTL DEF Spec

(* Exactly the pages the shim shares are unencrypted and unvalidated, for    *)
(* every layout of the leaves and every host; no translation changes; and    *)
(* with an honest host the blocks, the GHCB and the message pages are shared *)
(* before they are used (smash, clear_c_bit_address_range and                *)
(* set_memory_shared).                                                       *)
THEOREM PagesAlwaysAsAsked == Spec => []PagesAsAsked
<1>1. SnpInv /\ PageInv => PagesAsAsked
  <2> SUFFICES ASSUME SnpInv, PageInv PROVE PagesAsAsked
    OBVIOUS
  <2>1. ASSUME NEW p \in Pages PROVE Translate(pt, p) = p /\ (pt[p].enc <=> p \in valid)
    <3>1. TableOK(pt) /\ pt[p].enc = IF p \in valid THEN TRUE ELSE FALSE
      BY DEF PageInv, EncOK
    <3>2. pt[p].frame = p - (p % pt[p].size) /\ pt[p].size \in Nat \ {0} /\ p \in Nat
      BY <3>1, LeafTyped, PagesNat DEF TableOK
    <3>3. p % pt[p].size \in Nat
      BY <3>2, DivMod
    <3>4. Translate(pt, p) = p
      BY <3>2, <3>3 DEF Translate
    <3> QED
      BY <3>1, <3>4
  <2>2. Pages \ valid \subseteq {Ghcb, Request, Response} \cup Blocks /\ shared \subseteq Pages \ valid
    BY DEF PageInv, SetsOK, Mine
  <2>3. honest /\ snp /\ pc = "user" => Blocks \cup {Ghcb} \subseteq shared
    BY DEF PageInv, SharedOK, Sharing, SharePc, IoPc
  <2>4. honest /\ pc \in {"encrypt", "request", "reqOut", "reqBack", "decrypt"}
            => {Request, Response} \subseteq shared
    BY DEF PageInv, RangeOK, SharedOK, Sharing, SharePc, IoPc, UsesMsg, MsgPc
  <2> QED
    BY <2>1, <2>2, <2>3, <2>4 DEF PagesAsAsked
<1> QED
  BY <1>1, SnpAlways, PageAlways, PTL
-----------------------------------------------------------------------------
(* What the workload gets for its attestation.                              *)
(*                                                                          *)
(* The lengths that meet in the encoding come from two calls: the report's  *)
(* from the firmware's answer, the VCEK's from the host's, perhaps calls    *)
(* ago.  A request for a report must not be under way without a VCEK.       *)

VcekGiven == VcekLens \ {0}

\* A message is being prepared or is under way.
Pending ==
    \/ pc \in {"extInit", "extResponse"} \cup UsesMsg
    \/ Sharing("extResponse") \/ Sharing("encrypt")

\* A report is asked for, and whether there is a VCEK is not known yet.
Attesting == pc \in {"vcek", "attest"} \/ (pc \in IoPc /\ then = <<"vcek">>)

\* The call that is made has all it needs.
CallReady == call.type = "KeyReq" \/ (call.type = "ReportReq" /\ vcek \in VcekGiven)

ReportInv ==
    /\ vcek \in {Unasked, BadVcek} \cup VcekGiven
    /\ pc = "attest" => vcek # Unasked
    /\ Attesting => call.type = "ReportReq"
    /\ Pending => CallReady
    /\ pc \in MsgPc => request.type = call.type
    /\ \A a \in firmware.answers : a.type = "ReportRsp" => a.len \in ReportLens
    /\ ret.is = "ok" /\ ret.rsp.type = "ReportRsp" => ret.rsp.len \in ReportLens /\ ret.vcek \in VcekGiven

LEMMA ReportInitInv == Init => ReportInv
BY DEF Init, ReportInv, Pending, Attesting, Sharing, SharePc, IoPc, UsesMsg, MsgPc, NoRet

\* Steps that do not begin a call, fetch the VCEK or move a message.
LEMMA SameReport ==
    ASSUME ReportInv, Pending' => Pending, Attesting' => Attesting, pc' # "attest", pc' \in MsgPc => pc \in MsgPc,
           UNCHANGED <<vcek, call, request, firmware>>,
           UNCHANGED ret \/ ret'.is # "ok"
    PROVE  ReportInv'
<1>1. (Pending => CallReady)'
  BY DEF ReportInv, CallReady
<1>2. (ret.is = "ok" /\ ret.rsp.type = "ReportRsp" => ret.rsp.len \in ReportLens /\ ret.vcek \in VcekGiven)'
  BY DEF ReportInv
<1> QED
  BY <1>1, <1>2 DEF ReportInv

\* A call that ends without a message, or a step to where there is none.
LEMMA NothingPending ==
    ASSUME pc' \in {"reset", "msrPsc", "msrGpa", "user", "vcek", "attest", "ended"}
               \/ (pc' \in SharePc /\ then' = <<"user">>)
               \/ (pc' \in IoPc /\ (then' = <<"user">> \/ then' = <<"vcek">>))
    PROVE  /\ ~Pending'
           /\ pc' \in {"vcek", "attest"} \/ (pc' \in IoPc /\ then' = <<"vcek">>) \/ ~Attesting'
<1>1. CASE pc' \in {"reset", "msrPsc", "msrGpa", "user", "vcek", "attest", "ended"}
  BY <1>1 DEF Pending, Attesting, Sharing, SharePc, IoPc, UsesMsg, MsgPc
<1>2. CASE pc' \in SharePc /\ then' = <<"user">>
  BY <1>2, StacksDiffer DEF Pending, Attesting, Sharing, SharePc, IoPc, UsesMsg, MsgPc
<1>3. CASE pc' \in IoPc /\ (then' = <<"user">> \/ then' = <<"vcek">>)
  BY <1>3, StacksDiffer DEF Pending, Attesting, Sharing, SharePc, IoPc, UsesMsg, MsgPc
<1> QED
  BY <1>1, <1>2, <1>3

LEMMA QuietReport ==
    ASSUME SnpInv, SnpInv', ExitInv', PageInv, ReportInv,
           \/ Start \/ MsrPsc \/ MsrGpa \/ DoIoOut \/ HostIo \/ IoBack
           \/ ShareTables \/ SharePages \/ PscLoop \/ HostPsc \/ PscBack \/ ExtInit \/ ExtResponse \/ Syscall
    PROVE  ReportInv'
<1> USE DEF Goto, GoThen, End, Resume, msgVars, callVars
<1>0. UNCHANGED <<vcek, call, request, firmware, ret>>
  BY DEF Start, MsrPsc, MsrGpa, DoIoOut, HostIo, IoBack, ShareTables, SharePages, PscLoop, HostPsc,
         PscBack, ExtInit, ExtResponse, Syscall
<1>1. SUFFICES /\ Pending' => Pending
               /\ Attesting' => Attesting
               /\ pc' # "attest" /\ (pc' \in MsgPc => pc \in MsgPc)
  BY <1>0, SameReport
<1>2. CASE Start
  <2>1. pc' \in {"user", "ended", "msrPsc"}
    BY <1>2 DEF Start, CBitOf
  <2> QED
    BY <2>1, NothingPending DEF MsgPc, IoPc
<1>3. CASE MsrPsc
  <2>1. pc' \in {"msrGpa", "ended"}
    BY <1>3 DEF MsrPsc
  <2> QED
    BY <2>1, NothingPending DEF MsgPc, IoPc
<1>4. CASE MsrGpa
  <2>1. pc' = "ended" \/ (pc' = "share" /\ then' = <<"user">>)
    BY <1>4 DEF MsrGpa
  <2> QED
    BY <2>1, NothingPending DEF MsgPc, SharePc, IoPc
<1>5. CASE Syscall
  <2>1. pc' = "io" /\ then' = <<"user">> \o then /\ then = << >>
    BY <1>5 DEF Syscall, SnpInv, ControlOK, FlatPc
  <2>2. then' = <<"user">>
    BY <2>1, Stacks
  <2> QED
    BY <2>1, <2>2, NothingPending DEF MsgPc, IoPc
<1>6. CASE DoIoOut \/ HostIo
  <2>1. pc \in IoPc /\ then' = then /\ pc' \in IoPc
    BY <1>6 DEF DoIoOut, HostIo, Lock, ExitInv, LockOK, IoPc
  <2> QED
    BY <2>1 DEF Pending, Attesting, Sharing, SharePc, IoPc, UsesMsg, MsgPc
<1>7. CASE IoBack
  <2>1. pc = "ioBack" /\ (pc' = "ended" \/ (pc' = Head(then) /\ then' = Tail(then)))
    BY <1>7 DEF IoBack
  <2>2. CASE pc' = "ended"
    BY <2>2, NothingPending DEF MsgPc, IoPc
  <2>3. CASE pc' = Head(then) /\ then' = Tail(then) /\ (then = <<"user">> \/ then = <<"vcek">>)
    <3>1. pc' = "user" \/ (pc' = "vcek" /\ then = <<"vcek">>)
      BY <2>3, Stacks
    <3> QED
      BY <2>1, <3>1, NothingPending DEF MsgPc, IoPc, Attesting
  <2>4. ASSUME pc' = Head(then), then' = Tail(then), NEW y \in AfterShare, then = <<"shareLock", y>>
        PROVE  /\ Pending' => Pending
               /\ Attesting' => Attesting
               /\ pc' # "attest" /\ (pc' \in MsgPc => pc \in MsgPc)
    <3>1. pc' = "shareLock" /\ then' = <<y>>
      BY <2>4, Stacks
    <3>2. Sharing(y) /\ \A x : Sharing(x)' => x = y
      BY <2>1, <2>4, <3>1, StacksDiffer DEF Sharing, IoPc, SharePc
    <3> QED
      BY <3>1, <3>2 DEF Pending, Attesting, IoPc, UsesMsg, MsgPc
  <2> QED
    BY <2>1, <2>2, <2>3, <2>4 DEF SnpInv, ControlOK, IoPc
<1>8. CASE ShareTables \/ SharePages \/ PscLoop \/ HostPsc \/ PscBack
  <2>1. pc \in SharePc
    BY <1>8 DEF ShareTables, SharePages, PscLoop, HostPsc, PscBack, SharePc
  <2>2. PICK x \in AfterShare : then = <<x>> /\ \A y : Sharing(y) <=> y = x
    BY <2>1, RangeShared
  <2>3. \/ pc' \in SharePc /\ then' = then
        \/ pc' = "io" /\ then' = <<"shareLock">> \o then
        \/ pc' = Head(then) /\ then' = Tail(then)
        \/ pc' = "ended"
    BY <1>8 DEF ShareTables, SharePages, PscLoop, HostPsc, PscBack, SharePc, Lock, ExitInv, LockOK
  <2>4. CASE pc' \in SharePc /\ then' = then
    BY <2>1, <2>4 DEF Pending, Attesting, Sharing, SharePc, IoPc, UsesMsg, MsgPc
  <2>5. CASE pc' = "io" /\ then' = <<"shareLock">> \o then
    <3>1. then' = <<"shareLock", x>>
      BY <2>2, <2>5, Stacks
    <3>2. \A y : Sharing(y)' => y = x
      BY <2>5, <3>1, StacksDiffer DEF Sharing, SharePc, IoPc
    <3> QED
      BY <2>2, <2>5, <3>1, <3>2, StacksDiffer DEF Pending, Attesting, UsesMsg, MsgPc
  <2>6. CASE pc' = Head(then) /\ then' = Tail(then)
    <3>1. pc' = x
      BY <2>2, <2>6, Stacks
    <3>2. x = "user" \/ Pending
      BY <2>2 DEF AfterShare, Pending
    <3> QED
      BY <2>2, <3>1, <3>2, NothingPending DEF AfterShare, Attesting, MsgPc, IoPc
  <2>7. CASE pc' = "ended"
    BY <2>7, NothingPending DEF MsgPc, IoPc
  <2> QED
    BY <2>3, <2>4, <2>5, <2>6, <2>7
<1>9. CASE ExtInit \/ ExtResponse
  <2>1. pc \in {"extInit", "extResponse"} /\ pc' = "share"
    BY <1>9 DEF ExtInit, ExtResponse
  <2> QED
    BY <2>1 DEF Pending, Attesting, IoPc, MsgPc
<1> QED
  BY <1>2, <1>3, <1>4, <1>5, <1>6, <1>7, <1>8, <1>9

LEMMA CallReport ==
    ASSUME SnpInv, ReportInv, GetKey \/ GetAttestation \/ FetchVcek \/ Attest
    PROVE  ReportInv'
<1> USE DEF Goto, GoThen, Return, msgVars
<1>0. VcekLens \subseteq Nat
  BY SizesAssumption DEF SizesAssumption
<1>1. UNCHANGED <<request, firmware>> /\ pc \in {"user", "vcek", "attest"} /\ then = << >>
  BY DEF GetKey, GetAttestation, FetchVcek, Attest, SnpInv, ControlOK, FlatPc
<1>2. ASSUME vcek' \in {Unasked, BadVcek} \cup VcekGiven, pc' = "attest" => vcek' # Unasked,
             Attesting' => call'.type = "ReportReq", Pending' => CallReady', pc' \notin MsgPc, UNCHANGED ret \/ ret'.is # "ok"
      PROVE  ReportInv'
  BY <1>1, <1>2 DEF ReportInv
<1>3. CASE GetKey
  <2>0. UNCHANGED vcek
    BY <1>3 DEF GetKey
  <2>1. ret' = ret \/ ret'.is # "ok"
    <3>1. Probed(0).is # "ok" /\ Probed(KeyLen).is # "ok" /\ Fails("EMSGSIZE").is # "ok"
      BY DEF Probed, Fails
    <3> QED
      BY <1>3, <3>1 DEF GetKey
  <2>2. pc' = "user" \/ (pc' \in {"encrypt", "extInit"} /\ call'.type = "KeyReq")
    BY <1>3 DEF GetKey, Continue, NewCall
  <2>3. (Pending' => CallReady') /\ ~Attesting'
    BY <2>2, NothingPending DEF CallReady, Attesting, IoPc
  <2> QED
    BY <1>2, <2>0, <2>1, <2>2, <2>3 DEF ReportInv, MsgPc
<1>4. CASE GetAttestation
  <2>1. UNCHANGED vcek /\ (UNCHANGED ret \/ ret'.is # "ok")
    BY <1>4 DEF GetAttestation, Probed
  <2>2. \/ pc' = "user"
        \/ /\ call'.type = "ReportReq"
           /\ (pc' = "attest" /\ vcek # Unasked) \/ (pc' = "io" /\ then' = <<"vcek">> \o then)
    BY <1>4 DEF GetAttestation, NewCall
  <2>3. ~Pending' /\ (Attesting' => call'.type = "ReportReq")
    <3>1. pc' = "io" => then' = <<"vcek">>
      BY <1>1, <2>2, Stacks
    <3> QED
      BY <2>2, <3>1, NothingPending DEF IoPc, Attesting
  <2> QED
    BY <1>2, <2>1, <2>2, <2>3 DEF ReportInv, MsgPc
<1>5. CASE FetchVcek
  <2>1. pc' = "attest" /\ UNCHANGED <<ret, call>> /\ call.type = "ReportReq"
    BY <1>5 DEF FetchVcek, ReportInv, Attesting
  <2>2. PICK len \in VcekLens : vcek' = IF len = 0 THEN BadVcek ELSE len
    BY <1>5 DEF FetchVcek
  <2>3. vcek' \in {BadVcek} \cup VcekGiven /\ vcek' # Unasked
    BY <1>0, <2>2 DEF VcekGiven, Unasked, BadVcek
  <2> QED
    BY <1>2, <2>1, <2>3, NothingPending DEF MsgPc, IoPc
<1>6. CASE Attest
  <2>1. pc = "attest" /\ UNCHANGED vcek /\ (UNCHANGED ret \/ ret'.is # "ok")
    BY <1>6 DEF Attest, ThisFails, Continue
  <2>2. pc' = "user" \/ (pc' \in {"encrypt", "extInit"} /\ vcek # BadVcek /\ UNCHANGED call)
    BY <1>6 DEF Attest, Continue
  <2>3. call.type = "ReportReq"
    BY <2>1 DEF ReportInv, Attesting
  <2>4. ~Attesting' /\ pc' \notin MsgPc /\ pc' # "attest"
    BY <2>2 DEF Attesting, IoPc, MsgPc
  <2>5. Pending' => CallReady'
    BY <2>1, <2>2, <2>3, NothingPending DEF ReportInv, CallReady
  <2> QED
    BY <1>2, <2>1, <2>4, <2>5 DEF ReportInv
<1> QED
  BY <1>3, <1>4, <1>5, <1>6
LEMMA EncReport ==
    ASSUME SnpInv, ReportInv, EncPayload \/ GuestReq \/ ReqBack
    PROVE  ReportInv'
<1> USE DEF Goto, End, callVars
<1>1. pc \in UsesMsg /\ UNCHANGED <<vcek, call, firmware, ret>>
  BY DEF EncPayload, GuestReq, ReqBack, UsesMsg, MsgPc
<1>2. CallReady
  BY <1>1 DEF ReportInv, Pending
<1>3. CASE EncPayload
  <2>1. pc' = "ended" \/ (pc' = "request" /\ request' = [seqno |-> seqno + 1, type |-> call.type, id |-> call.id])
    BY <1>3 DEF EncPayload
  <2>2. pc' = "ended" \/ (pc' = "request" /\ request'.type = call.type)
    BY <2>1
  <2>3. ~Attesting' /\ pc' # "attest"
    BY <2>2 DEF Attesting, IoPc
  <2>4. pc' \in MsgPc => request'.type = call'.type
    BY <1>1, <2>2 DEF MsgPc
  <2>5. CallReady'
    BY <1>1, <1>2 DEF CallReady
  <2> QED
    BY <1>1, <2>3, <2>4, <2>5 DEF ReportInv
<1>4. CASE GuestReq \/ ReqBack
  <2>1. pc \in MsgPc /\ pc' \notin {"vcek", "attest"} \cup IoPc /\ UNCHANGED request
    BY <1>4 DEF GuestReq, ReqBack, AfterRequest, Lock, MsgPc, IoPc
  <2> QED
    BY <1>1, <2>1, SameReport DEF Attesting, Pending, UsesMsg
<1> QED
  BY <1>3, <1>4

LEMMA HostReport ==
    ASSUME SnpInv, ReportInv, HostRequest
    PROVE  ReportInv'
<1> USE DEF Goto, callVars
<1>1. pc = "reqOut" /\ pc' = "reqBack" /\ UNCHANGED <<vcek, call, request, ret>>
  BY DEF HostRequest
<1>2. CallReady' /\ request'.type = call'.type /\ ~Attesting'
  BY <1>1 DEF ReportInv, Pending, UsesMsg, MsgPc, CallReady, Attesting, IoPc
<1>3. UNCHANGED firmware \/ \E rsp \in AnswersOf(request) : Deliver(rsp)
  BY DEF HostRequest
<1>4. ASSUME NEW a \in firmware'.answers, a.type = "ReportRsp" PROVE a.len \in ReportLens
  <2>1. CASE a \in firmware.answers
    BY <1>4, <2>1 DEF ReportInv
  <2>2. CASE a \notin firmware.answers
    <3>1. PICK rsp \in AnswersOf(request) : Deliver(rsp)
      BY <1>3, <2>2
    <3>2. firmware'.answers = firmware.answers \cup {rsp}
      BY <3>1 DEF Deliver
    <3>3. a \in AnswersOf(request)
      BY <2>2, <3>1, <3>2
    <3> DEFINE lens == IF request.type = "KeyReq" THEN {KeyLen} ELSE ReportLens
    <3>4. a.type = RspOf(request.type) /\ a.len \in lens
      <4> HIDE DEF lens
      <4>1. a \in [seqno : {request.seqno + 1}, type : {RspOf(request.type)}, id : {request.id},
                   status : Statuses, len : lens, genuine : {TRUE}]
        BY <3>3 DEF AnswersOf, lens
      <4> QED
        BY <4>1
    <3> QED
      BY <1>4, <3>4 DEF RspOf
  <2> QED
    BY <2>1, <2>2
<1> QED
  BY <1>1, <1>2, <1>4 DEF ReportInv

LEMMA DecReport ==
    ASSUME SnpInv, ReportInv, DecPayload
    PROVE  ReportInv'
<1> USE DEF End, Return, msgVars
<1>1. pc = "decrypt" /\ UNCHANGED <<vcek, request, firmware>>
  BY DEF DecPayload
<1>2. pc' \in {"user", "ended"}
  BY DEF DecPayload
<1>3. ~Pending' /\ ~Attesting' /\ pc' \notin MsgPc /\ pc' # "attest"
  BY <1>2, NothingPending DEF Attesting, IoPc, MsgPc
<1>4. \/ ret' = ret \/ ret'.is # "ok"
      \/ ret' = Done(response) /\ HeaderOk(response) /\ response.genuine # FALSE
  <2>1. ThisFails("EIO").is # "ok"
    BY DEF ThisFails
  <2> QED
    BY <2>1 DEF DecPayload
<1>5. ASSUME ret'.is = "ok", ret'.rsp.type = "ReportRsp"
      PROVE  ret'.rsp.len \in ReportLens /\ ret'.vcek \in VcekGiven
  <2>1. CASE ret' = ret
    BY <1>5, <2>1 DEF ReportInv
  <2>2. CASE ret' = Done(response) /\ HeaderOk(response) /\ response.genuine # FALSE
    <3>1. ret'.rsp = response /\ ret'.vcek = vcek
      BY <2>2 DEF Done
    <3>2. response \in firmware.answers
      BY <1>1, <2>2 DEF SnpInv, MsgInv, ResponseOK, HeaderOk
    <3>3. response.len \in ReportLens
      BY <1>5, <3>1, <3>2 DEF ReportInv
    <3>4. response.type = RspOf(request.type) /\ request.type = call.type /\ CallReady
      BY <1>1, <2>2 DEF HeaderOk, ReportInv, Pending, UsesMsg, MsgPc
    <3>5. vcek \in VcekGiven
      BY <1>5, <3>1, <3>4 DEF RspOf, CallReady
    <3> QED
      BY <3>1, <3>3, <3>5
  <2> QED
    BY <1>4, <1>5, <2>1, <2>2
<1> QED
  BY <1>1, <1>3, <1>5 DEF ReportInv

LEMMA ReportNextInv ==
    SnpInv /\ SnpInv' /\ ExitInv' /\ PageInv /\ ReportInv /\ [Next]_vars => ReportInv'
<1> SUFFICES ASSUME SnpInv, SnpInv', ExitInv', PageInv, ReportInv, [Next]_vars PROVE ReportInv'
  OBVIOUS
<1>1. CASE UNCHANGED vars
  <2>1. UNCHANGED <<pc, then, vcek, call, request, firmware, ret>>
    BY <1>1 DEF vars, msgVars, callVars
  <2>2. (Pending' <=> Pending) /\ (Attesting' <=> Attesting) /\ (CallReady' <=> CallReady)
    BY <2>1 DEF Pending, Attesting, Sharing, CallReady
  <2> QED
    BY <2>1, <2>2 DEF ReportInv
<1> QED
  BY <1>1, QuietReport, CallReport, EncReport, HostReport, DecReport
  DEF Next, GuestStep, HostStep, Halted

LEMMA ReportAlways == Spec => []ReportInv
BY ReportInitInv, ReportNextInv, SnpAlways, ExitAlways, PageAlways, PTL DEF Spec

\* What a decoder reads from a header with n length octets, up to four.
LEMMA DerLengthIs ==
    ASSUME NEW h, OctetsOf(h) \in 0 .. 4
    PROVE  /\ OctetsOf(h) = 0 => DerLength(h) = h[2]
           /\ OctetsOf(h) = 1 => DerLength(h) = 256 * 0 + h[3]
           /\ OctetsOf(h) = 2 => DerLength(h) = 256 * (256 * 0 + h[3]) + h[4]
           /\ OctetsOf(h) = 3 => DerLength(h) = 256 * (256 * (256 * 0 + h[3]) + h[4]) + h[5]
           /\ OctetsOf(h) = 4 =>
                DerLength(h) = 256 * (256 * (256 * (256 * 0 + h[3]) + h[4]) + h[5]) + h[6]
<1> DEFINE n == OctetsOf(h)
           D(v) == [i \in 0 .. n |-> IF i = 0 THEN 0 ELSE 256 * v[i - 1] + h[2 + i]]
           v1 == 256 * 0 + h[3]
           v2 == 256 * v1 + h[4]
           v3 == 256 * v2 + h[5]
           v4 == 256 * v3 + h[6]
           w == [i \in 0 .. n |-> IF i = 0 THEN 0 ELSE IF i = 1 THEN v1 ELSE IF i = 2 THEN v2
                                  ELSE IF i = 3 THEN v3 ELSE v4]
           g == CHOOSE v : v = D(v)
<1>1. DerLength(h) = IF n = 0 THEN h[2] ELSE g[n]
  BY DEF DerLength
<1>2. n \in 0 .. 4
  OBVIOUS
<1> HIDE DEF n, v1, v2, v3, v4
<1>3. w = D(w)
  <2>1. ASSUME NEW i \in 0 .. n PROVE w[i] = IF i = 0 THEN 0 ELSE 256 * w[i - 1] + h[2 + i]
    <3>1. i \in 0 .. 4
      BY <1>2
    <3>2. CASE i = 0
      BY <3>2
    <3>3. CASE i = 1
      BY <3>3, <2>1, <1>2 DEF v1
    <3>4. CASE i = 2
      BY <3>4, <2>1, <1>2 DEF v2
    <3>5. CASE i = 3
      BY <3>5, <2>1, <1>2 DEF v3
    <3>6. CASE i = 4
      BY <3>6, <2>1, <1>2 DEF v4
    <3> QED
      BY <3>1, <3>2, <3>3, <3>4, <3>5, <3>6
  <2> QED
    BY <2>1
<1>4. g = D(g)
  <2> HIDE DEF w
  <2>1. \E v : v = D(v)
    BY <1>3
  <2> QED
    BY <2>1
<1> HIDE DEF g
<1>5. \A i \in 0 .. n : g[i] = IF i = 0 THEN 0 ELSE 256 * g[i - 1] + h[2 + i]
  BY <1>4
<1>6. g[0] = 0 /\ (n >= 1 => g[1] = v1)
  BY <1>2, <1>5 DEF v1
<1>7. n >= 2 => g[2] = v2
  BY <1>2, <1>5, <1>6 DEF v2
<1>8. n >= 3 => g[3] = v3
  BY <1>2, <1>5, <1>7 DEF v3
<1>9. n >= 4 => g[4] = v4
  BY <1>2, <1>5, <1>8 DEF v4
<1> QED
  BY <1>1, <1>2, <1>6, <1>7, <1>8, <1>9 DEF n, v1, v2, v3, v4

\* A header reads back as the length it was written for, in the fewest
\* octets, and takes the room that was computed for it.
LEMMA HeaderReadsBack ==
    ASSUME NEW tag, NEW len \in Nat, len < 4294967296
    PROVE  DecodesAs(AsnWrap(tag, len), len) /\ CalcAsnHeaderLen(len) \in 2 .. 6
           /\ Len(WriteAsnHeader(tag, len)) = CalcAsnHeaderLen(len)
<1> DEFINE h == WriteAsnHeader(tag, len)
           b0 == Byte(len, 0)
           b1 == Byte(len, 1)
           b2 == Byte(len, 2)
           b3 == Byte(len, 3)
<1>0. /\ b0 = len % 256 /\ b1 = (len \div 256) % 256
      /\ b2 = (len \div 65536) % 256 /\ b3 = (len \div 16777216) % 256
  <2>1. 256 ^ 0 = 1 /\ 256 ^ 1 = 256 /\ 256 ^ 2 = 65536 /\ 256 ^ 3 = 16777216
    OBVIOUS
  <2>2. len \div 1 = len
    OBVIOUS
  <2> QED
    BY SMT, <2>1, <2>2 DEF Byte
<1>1. AsnWrap(tag, len).header = h /\ AsnWrap(tag, len).at = CalcAsnHeaderLen(len)
  BY DEF AsnWrap
<1> HIDE DEF b0, b1, b2, b3
<1>2. SUFFICES Len(h) = CalcAsnHeaderLen(len) /\ Len(h) \in 2 .. 6 /\ Minimal(h) /\ DerLength(h) = len
  BY <1>1 DEF DecodesAs
<1>3. CASE len < 128
  <2>1. h = <<tag, len>>
    BY <1>3 DEF WriteAsnHeader
  <2> HIDE DEF h
  <2>2. Len(h) = 2 /\ h[2] = len
    BY <2>1
  <2>3. OctetsOf(h) = 0
    BY <1>3, <2>2 DEF OctetsOf
  <2>4. DerLength(h) = len
    BY <2>2, <2>3, DerLengthIs
  <2> QED
    BY <1>3, <2>2, <2>3, <2>4 DEF Minimal, CalcAsnHeaderLen
<1>4. CASE len >= 128 /\ len < 256
  <2>1. h = <<tag, 129, len>>
    BY <1>4 DEF WriteAsnHeader
  <2> HIDE DEF h
  <2>2. Len(h) = 3 /\ h[2] = 129 /\ h[3] = len
    BY <2>1
  <2>3. OctetsOf(h) = 1
    BY <2>2 DEF OctetsOf
  <2>4. DerLength(h) = 256 * 0 + h[3]
    BY <2>3, DerLengthIs
  <2> QED
    BY <1>4, <2>2, <2>3, <2>4 DEF Minimal, CalcAsnHeaderLen
<1>5. CASE len >= 256 /\ len < 65536
  <2>1. h = <<tag, 130, b1, b0>>
    BY <1>5 DEF WriteAsnHeader, b0, b1
  <2> HIDE DEF h
  <2>2. Len(h) = 4 /\ h[2] = 130 /\ h[3] = b1 /\ h[4] = b0
    BY <2>1
  <2>3. OctetsOf(h) = 2
    BY <2>2 DEF OctetsOf
  <2>4. DerLength(h) = 256 * (256 * 0 + h[3]) + h[4]
    BY <2>3, DerLengthIs
  <2>5. b1 # 0 /\ 256 * (256 * 0 + b1) + b0 = len
    BY <1>0, <1>5
  <2> QED
    BY <1>5, <2>2, <2>3, <2>4, <2>5 DEF Minimal, CalcAsnHeaderLen
<1>6. CASE len >= 65536 /\ len < 16777216
  <2>1. h = <<tag, 131, b2, b1, b0>>
    BY <1>6 DEF WriteAsnHeader, b0, b1, b2
  <2> HIDE DEF h
  <2>2. Len(h) = 5 /\ h[2] = 131 /\ h[3] = b2 /\ h[4] = b1 /\ h[5] = b0
    BY <2>1
  <2>3. OctetsOf(h) = 3
    BY <2>2 DEF OctetsOf
  <2>4. DerLength(h) = 256 * (256 * (256 * 0 + h[3]) + h[4]) + h[5]
    BY <2>3, DerLengthIs
  <2>5. b2 # 0 /\ 256 * (256 * (256 * 0 + b2) + b1) + b0 = len
    BY <1>0, <1>6
  <2> QED
    BY <1>6, <2>2, <2>3, <2>4, <2>5 DEF Minimal, CalcAsnHeaderLen
<1>7. CASE len >= 16777216
  <2>1. h = <<tag, 132, b3, b2, b1, b0>>
    BY <1>7 DEF WriteAsnHeader, b0, b1, b2, b3
  <2> HIDE DEF h
  <2>2. Len(h) = 6 /\ h[2] = 132 /\ h[3] = b3 /\ h[4] = b2 /\ h[5] = b1 /\ h[6] = b0
    BY <2>1
  <2>3. OctetsOf(h) = 4
    BY <2>2 DEF OctetsOf
  <2>4. DerLength(h) = 256 * (256 * (256 * (256 * 0 + h[3]) + h[4]) + h[5]) + h[6]
    BY <2>3, DerLengthIs
  <2>5. b3 # 0 /\ 256 * (256 * (256 * (256 * 0 + b3) + b2) + b1) + b0 = len
    BY <1>0, <1>7
  <2> QED
    BY <1>7, <2>2, <2>3, <2>4, <2>5 DEF Minimal, CalcAsnHeaderLen
<1> QED
  BY <1>3, <1>4, <1>5, <1>6, <1>7

(* A buffer of the length get_attestation reports holds the encoding, and   *)
(* the encoding reads back as the VCEK and the report, for every length a   *)
(* report and a VCEK may have (asn1_encode_report_vcek, calc_asn_header_len *)
(* and write_asn_header).                                                   *)
THEOREM ReportAlwaysDecodes == Spec => []ReportDecodes
<1>1. ReportInv => ReportDecodes
  <2> SUFFICES ASSUME ReportInv, ret.is = "ok", ret.rsp.type = "ReportRsp"
               PROVE  LET e == EncodeReportVcek(ret.rsp.len, ret.vcek)
                      IN /\ DecodesAs(e.octets, ret.rsp.len)
                         /\ DecodesAs(e.section, ret.vcek + Len(e.octets.header) + ret.rsp.len)
                         /\ Total(e.section) <= Probe(ret.vcek)
    BY DEF ReportDecodes
  <2> DEFINE rep == ret.rsp.len
             cert == ret.vcek
             e == EncodeReportVcek(rep, cert)
             room == CalcAsnHeaderLen(rep)
             body == cert + (room + rep)
  <2>1. /\ rep \in 0 .. PayloadLen - HeaderLen /\ cert \in Nat /\ PayloadLen + cert < 2147483647
        /\ HeaderLen \in Nat /\ HeaderLen >= 12 /\ PayloadLen \in Nat
    <3>1. rep \in ReportLens /\ cert \in VcekLens
      BY DEF ReportInv, VcekGiven
    <3> HIDE DEF rep, cert
    <3> QED
      BY <3>1, SizesAssumption DEF SizesAssumption
  <2>2. e.octets = AsnWrap(ASN_OCTET_STRING, rep)
        /\ e.section = AsnWrap(ASN_SECTION_CONSTRUCTED, cert + Total(e.octets))
    BY DEF EncodeReportVcek
  <2> HIDE DEF rep, cert, e
  <2>3. Total(e.octets) = room + rep /\ e.octets.header = WriteAsnHeader(ASN_OCTET_STRING, rep)
    BY <2>2 DEF Total, AsnWrap
  <2>4. rep \in Nat /\ rep < 4294967296
    BY <2>1
  <2>5. /\ DecodesAs(AsnWrap(ASN_OCTET_STRING, rep), rep) /\ room \in 2 .. 6
        /\ Len(WriteAsnHeader(ASN_OCTET_STRING, rep)) = room
    BY <2>4, HeaderReadsBack
  <2> HIDE DEF room
  <2>6. body \in Nat /\ body < 4294967296 /\ body + 6 <= PayloadLen + cert
        /\ cert + room + rep = body
    BY <2>1, <2>4, <2>5
  <2> HIDE DEF body
  <2>7. /\ DecodesAs(AsnWrap(ASN_SECTION_CONSTRUCTED, body), body) /\ CalcAsnHeaderLen(body) \in 2 .. 6
    BY <2>6, HeaderReadsBack
  <2>8. e.section = AsnWrap(ASN_SECTION_CONSTRUCTED, body)
    BY <2>2, <2>3 DEF body
  <2>9. Total(e.section) = CalcAsnHeaderLen(body) + body
    BY <2>8 DEF Total, AsnWrap
  <2>10. Total(e.section) <= Probe(cert)
    BY <2>1, <2>6, <2>7, <2>9 DEF Probe
  <2>11. DecodesAs(e.octets, rep) /\ DecodesAs(e.section, cert + Len(e.octets.header) + rep)
    BY <2>2, <2>3, <2>5, <2>6, <2>7, <2>8
  <2> QED
    BY <2>10, <2>11 DEF e, rep, cert
<1> QED
  BY <1>1, ReportAlways, PTL
=============================================================================
