------------------------ MODULE SallyportBlock_proofs -----------------------
(***************************************************************************)
(* TLAPS proofs about SallyportBlock, for blocks of any size and any set   *)
(* of calls.                                                               *)
(***************************************************************************)
EXTENDS SallyportBlock, TLAPS

USE BlockAssumption DEF BlockAssumption, HeaderSize, Sections

\* Padding brings an address to the alignment, and costs less than a word.
LEMMA PadAligns ==
    ASSUME NEW p \in Nat, NEW a \in {1, 2, 4, 8}
    PROVE  Pad(p, a) \in 0 .. 7 /\ Pad(p, a) \in Nat /\ (p + Pad(p, a)) % a = 0
BY DEF Pad

\* An aligned address needs no padding.
LEMMA PadOfAligned ==
    ASSUME NEW p \in Nat, NEW a \in {1, 2, 4, 8}, p % a = 0
    PROVE  Pad(p, a) = 0
BY DEF Pad

\* A call's data is a sequence of layouts; only byte slices shrink.
LEMMA CallShape ==
    ASSUME NEW c \in Calls
    PROVE  /\ c.kind \in Kinds /\ c.data \in Seq(Layouts)
           /\ \A k \in DOMAIN c.data : c.data[k].max => c.data[k].align = 1
BY CallsAssumption DEF CallsAssumption

\* The fields of a staged reference.
LEMMA RefFields ==
    ASSUME NEW s \in Seq(Refs), NEW k \in DOMAIN s
    PROVE  s[k].lo \in Nat /\ s[k].size \in Nat /\ s[k].offset \in Nat /\ s[k].align \in {1, 2, 4, 8}
<1>1. s[k] \in Refs  OBVIOUS
<1> QED  BY <1>1 DEF Refs

\* Payloads are whole words.
LEMMA PayloadWords == \A k : PayloadSize(k) \in {48, 72}
BY DEF PayloadSize

\* The invariant holds of a fresh block.
LEMMA InitEstablishesInv == Init => BlockInv
BY DEF Init, BlockInv, TypeOK, StageInv, StagedInv, DataInv, HostInv, Addr, Headers, NoHeader, Refs

\* Execute preserves the invariant.
LEMMA ExecutePreserves ==
    ASSUME BlockInv, NEW c \in Calls, Execute(c) PROVE BlockInv'
<1> USE DEF BlockInv, DataBase, allocVars, hostVars
<1>0. resv' = 0 /\ free' = BlockLen - 16
  <2>1. BlockLen - 16 \in Nat /\ (BlockLen - 16) % 8 = 0  OBVIOUS
  <2>2. Pad(BlockLen - 16, 8) = 0  BY <2>1, PadOfAligned
  <2> QED  BY <2>2 DEF Execute
<1>a. mem' \in [Addr -> Headers]
  <2>1. \A h \in Headers : Aged(h) \in Headers
    BY DEF Aged, Headers
  <2>2. \A a \in Addr : mem[a] \in Headers  BY DEF TypeOK
  <2> QED  BY <2>1, <2>2 DEF Execute
<1>1. TypeOK'  BY <1>0, <1>a DEF TypeOK, Execute, Refs
<1>2. StageInv'  BY <1>0, <1>a, PayloadWords DEF TypeOK, StageInv, Execute, Refs
<1>3. StagedInv'  BY <1>0, <1>a, PayloadWords DEF TypeOK, StageInv, StagedInv, Execute, Refs
<1>4. DataInv'  BY <1>0, <1>a, PayloadWords DEF TypeOK, StageInv, StagedInv, DataInv, Execute, Refs
<1>5. HostInv'  BY <1>0, <1>a DEF TypeOK, StageInv, StagedInv, HostInv, Execute, Refs
<1> QED  BY <1>1, <1>2, <1>3, <1>4, <1>5 DEF BlockInv

\* StageHeader preserves the invariant.
LEMMA StageHeaderPreserves ==
    ASSUME BlockInv, StageHeader PROVE BlockInv'
<1> USE DEF BlockInv, DataBase, allocVars, hostVars
<1>0. Pad(ptr, 8) = 0  BY PadOfAligned DEF StageInv, StageHeader
<1>1. TypeOK'  BY <1>0 DEF TypeOK, StageHeader, Allocate, HasRoom
<1>2. StageInv'  BY <1>0, PayloadWords DEF TypeOK, StageInv, StageHeader, Allocate, HasRoom
<1>3. StagedInv'  BY <1>0, PayloadWords DEF TypeOK, StageInv, StagedInv, StageHeader, Allocate, HasRoom
<1>4. DataInv'  BY <1>0, PayloadWords DEF TypeOK, StageInv, StagedInv, DataInv, StageHeader, Allocate, HasRoom
<1>5. HostInv'  BY <1>0 DEF TypeOK, StageInv, StagedInv, HostInv, StageHeader, Allocate, HasRoom
<1> QED  BY <1>1, <1>2, <1>3, <1>4, <1>5 DEF BlockInv

\* StagePayload preserves the invariant.
LEMMA StagePayloadPreserves ==
    ASSUME BlockInv, StagePayload PROVE BlockInv'
<1> USE DEF BlockInv, DataBase, allocVars, hostVars
<1>0. Pad(ptr, 8) = 0  BY PadOfAligned DEF StageInv, StagePayload
<1>a. PayloadSize(call.kind) \in Nat  BY PayloadWords
<1>1. TypeOK'
  <2>1. ptr' \in Nat /\ free' \in Nat /\ off' \in [Sections -> Nat]
    BY <1>0, <1>a DEF TypeOK, StagePayload, Allocate, HasRoom
  <2> QED  BY <2>1 DEF TypeOK, StagePayload
<1>2. StageInv'  BY <1>0, PayloadWords DEF TypeOK, StageInv, StagePayload, Allocate, HasRoom
<1>3. StagedInv'  BY <1>0, PayloadWords DEF TypeOK, StageInv, StagedInv, StagePayload, Allocate, HasRoom
<1>4. DataInv'  BY <1>0, PayloadWords DEF TypeOK, StageInv, StagedInv, DataInv, StagePayload, Allocate, HasRoom
<1>5. HostInv'  BY <1>0, PayloadWords DEF TypeOK, StageInv, StagedInv, HostInv, StagePayload, Allocate, HasRoom
<1> QED  BY <1>1, <1>2, <1>3, <1>4, <1>5 DEF BlockInv

\* StageData preserves the invariant.
LEMMA StageDataPreserves ==
    ASSUME BlockInv, StageData PROVE BlockInv'
<1> USE DEF BlockInv, DataBase, allocVars, hostVars
<1> DEFINE l == NextLayout
           p == Pad(ptr, l.align)
           r == [lo |-> ptr + p, size |-> Fit(l), align |-> l.align, offset |-> OffsetOf(l.align)]
<1>a. l \in Layouts
  BY CallShape DEF StageData, NextLayout, TypeOK
<1>b. Fit(l) \in Nat /\ l.align \in {1, 2, 4, 8}
  BY <1>a DEF Fit, Layouts, TypeOK
<1>0. ptr \in Nat /\ free \in Nat /\ off["data"] \in Nat  BY DEF TypeOK
<1>c. p \in Nat  BY <1>b, <1>0, PadAligns
<1>h. (ptr + p) % l.align = 0  BY <1>b, <1>0, PadAligns
<1>d. /\ free >= p + Fit(l)
      /\ ptr' = ptr + (p + Fit(l)) /\ free' = free - (p + Fit(l))
      /\ off' = [off EXCEPT !["data"] = off["data"] + (p + Fit(l))]
      /\ data' = Append(data, r)
  BY DEF StageData, Allocate, HasRoom
<1>e. r \in Refs /\ r.lo = ptr + p /\ r.size = Fit(l) /\ r.align = l.align /\ r.offset = off["data"] + p
  BY <1>b, <1>c DEF Refs, TypeOK, OffsetOf
<1>f. DOMAIN data' = 1 .. Len(data) + 1 /\ DOMAIN data = 1 .. Len(data) /\ Len(data) \in Nat
  BY <1>d, <1>e DEF TypeOK
<1>g. data'[Len(data) + 1] = r /\ \A k \in DOMAIN data : data'[k] = data[k]
  BY <1>d, <1>e DEF TypeOK
<1>i. pc = "data" /\ UNCHANGED <<pc, call, resv, size, hdr, end, mem, hostVars, res>>  BY DEF StageData
<1> HIDE DEF l, p, r
<1>j. /\ ptr' \in Nat /\ free' \in Nat /\ ptr' + free' = ptr + free
      /\ off' \in [Sections -> Nat] /\ off'["data"] = off["data"] + (ptr' - ptr)
      /\ \A s \in Sections : s # "data" => off'[s] = off[s]
  <2> DEFINE q == p + Fit(l)
  <2>1. q \in Nat /\ free >= q  BY <1>b, <1>c, <1>d
  <2>2. ptr' = ptr + q /\ free' = free - q /\ off' = [off EXCEPT !["data"] = off["data"] + q]  BY <1>d
  <2> HIDE DEF q
  <2>3. ptr' \in Nat /\ free' \in Nat /\ ptr' + free' = ptr + free /\ ptr' - ptr = q  BY <1>0, <2>1, <2>2
  <2>4. off \in [Sections -> Nat]  BY DEF TypeOK
  <2> QED  BY <1>0, <2>1, <2>2, <2>3, <2>4
<1>k. data' \in Seq(Refs)  BY <1>d, <1>e DEF TypeOK
<1>1. TypeOK'  BY <1>0, <1>i, <1>j, <1>k DEF TypeOK, StageData
<1>2. StageInv'
  <2>1. /\ resv = 0 /\ ran = 0 /\ ptr + free = BlockLen - 16
        /\ call.kind # "stub" /\ off["block"] = 0 /\ hdr = 0 /\ off["item"] = 16
        /\ off["payload"] = PayloadSize(call.kind) /\ ptr = DataBase + off["data"]
    BY <1>i DEF StageInv
  <2>2. /\ off'["block"] = 0 /\ off'["item"] = 16 /\ off'["payload"] = PayloadSize(call.kind)
        /\ ptr' + free' = BlockLen - 16
    BY <2>1, <1>j
  <2>3. ptr' = DataBase + off'["data"]
    BY <2>1, <1>0, <1>j, PayloadWords
  <2>4. pc' = "data" /\ call' = call /\ resv' = resv /\ ran' = ran /\ hdr' = hdr
    BY <1>i
  <2> QED  BY <2>1, <2>2, <2>3, <2>4 DEF StageInv
<1>3. StagedInv'  BY <1>0, <1>i, <1>j, <1>k, PayloadWords DEF TypeOK, StageInv, StagedInv, StageData
<1>4. DataInv'
  <2>1. pc = "data" /\ pc' = "data" /\ call' = call  BY DEF StageData
  <2>2. ptr = DataBase + off["data"] /\ ptr' \in Nat  BY <2>1, <1>0, <1>b, <1>c, <1>d DEF StageInv
  <2>3. call.kind # "stub"  BY <2>1 DEF StageInv
  <2>4. \A k \in DOMAIN data :
           /\ data[k].lo = DataBase + data[k].offset
           /\ data[k].lo % data[k].align = 0
           /\ data[k].lo + data[k].size <= ptr
           /\ data[k].lo \in Nat /\ data[k].size \in Nat
           /\ \A m \in DOMAIN data : m < k => data[m].lo + data[m].size <= data[k].lo
    BY <2>1, <2>3, RefFields DEF DataInv, TypeOK
  <2>5. r.lo + r.size <= ptr' /\ ptr <= r.lo /\ ptr <= ptr'
    BY <1>0, <1>b, <1>c, <1>d, <1>e
  <2>10. r.lo = DataBase + r.offset
    BY <2>2, <1>0, <1>c, <1>e, PayloadWords
  <2>9. r.lo % r.align = 0  BY <1>e, <1>h
  <2>6. SUFFICES ASSUME NEW k \in DOMAIN data'
                 PROVE  /\ data'[k].lo = DataBase + data'[k].offset
                        /\ data'[k].lo % data'[k].align = 0
                        /\ data'[k].lo + data'[k].size <= ptr'
                        /\ \A m \in DOMAIN data' : m < k => data'[m].lo + data'[m].size <= data'[k].lo
    BY <2>1 DEF DataInv
  <2>7. CASE k \in DOMAIN data
    <3>1. \A m \in DOMAIN data' : m < k => m \in DOMAIN data  BY <2>7, <1>f
    <3> QED  BY <2>7, <3>1, <2>4, <2>5, <2>2, <1>0, <1>g
  <2>8. CASE k = Len(data) + 1
    <3>1. \A m \in DOMAIN data' : m < k => m \in DOMAIN data  BY <2>8, <1>f
    <3>2. \A m \in DOMAIN data : data[m].lo + data[m].size <= r.lo  BY <2>4, <2>5, <2>2, <1>0, <1>e, <1>c
    <3> QED  BY <2>8, <3>1, <3>2, <2>5, <2>9, <2>10, <1>g
  <2> QED  BY <2>7, <2>8, <1>f
<1>5. HostInv'  BY <1>0, <1>i, <1>j, <1>k DEF TypeOK, StageInv, StagedInv, HostInv, StageData
<1> QED  BY <1>1, <1>2, <1>3, <1>4, <1>5 DEF BlockInv

\* StageDone preserves the invariant.
LEMMA StageDonePreserves ==
    ASSUME BlockInv, StageDone PROVE BlockInv'
<1> USE DEF BlockInv, DataBase, allocVars, hostVars
<1>1. TypeOK'
  <2>1. off' \in [Sections -> Nat]  BY DEF TypeOK, StageDone, CloseSections, Sections
  <2>2. size' \in Nat  BY <2>1 DEF StageDone, Sections
  <2> QED  BY <2>1, <2>2 DEF TypeOK, StageDone
<1>a. /\ off'["payload"] = off["payload"] + off["data"]
      /\ off'["item"] = off["item"] + off["payload"] + off["data"]
      /\ off'["block"] = off["block"]
      /\ size' = off'["payload"]
  BY DEF TypeOK, StageDone, CloseSections, Sections
<1>b. PayloadSize(call.kind) \in Nat /\ off["data"] \in Nat  BY PayloadWords DEF TypeOK, Sections
<1>2. StageInv'
  <2>1. pc = "data" /\ pc' = "pad" /\ UNCHANGED <<call, ptr, free, resv, hdr, ran>>
    BY DEF StageDone
  <2> QED  BY <1>a, <1>b, <2>1 DEF StageInv
<1>3. StagedInv'  BY PayloadWords DEF TypeOK, StageInv, StagedInv, StageDone, CloseSections
<1>4. DataInv'  BY PayloadWords DEF TypeOK, StageInv, StagedInv, DataInv, StageDone, CloseSections
<1>5. HostInv'  BY DEF TypeOK, StageInv, StagedInv, HostInv, StageDone, CloseSections
<1> QED  BY <1>1, <1>2, <1>3, <1>4, <1>5 DEF BlockInv

\* StagePad preserves the invariant.
LEMMA StagePadPreserves ==
    ASSUME BlockInv, StagePad PROVE BlockInv'
<1> USE DEF BlockInv, DataBase, allocVars, hostVars
<1>0. PadBytes \in 0 .. 7 /\ (size + PadBytes) % 8 = 0
  BY DEF PadBytes, TypeOK
<1>a. free >= PadBytes
  BY <1>0 DEF StagePad, HasRoom, Pad, TypeOK
<1>b. ptr' = ptr + PadBytes /\ ptr \in Nat /\ pc = "pad" /\ pc' = "end" /\ UNCHANGED <<call, data>>
  BY DEF StagePad, TypeOK
<1>1. TypeOK'  BY <1>0, <1>a DEF TypeOK, StagePad
<1>2. StageInv'  BY <1>0, <1>a, PayloadWords DEF TypeOK, StageInv, StagePad
<1>3. StagedInv'  BY <1>0, <1>a, PayloadWords DEF TypeOK, StageInv, StagedInv, StagePad
<1>4. DataInv'
  <2>1. \A k \in DOMAIN data : data[k].lo \in Nat /\ data[k].size \in Nat  BY RefFields DEF TypeOK
  <2>2. \A k \in DOMAIN data : data[k].lo + data[k].size <= ptr => data[k].lo + data[k].size <= ptr'
    BY <2>1, <1>0, <1>b
  <2> QED  BY <1>b, <2>2 DEF DataInv
<1>5. HostInv'  BY <1>0, <1>a DEF TypeOK, StageInv, StagedInv, HostInv, StagePad
<1> QED  BY <1>1, <1>2, <1>3, <1>4, <1>5 DEF BlockInv

\* StageEnd preserves the invariant.
LEMMA StageEndPreserves ==
    ASSUME BlockInv, StageEnd PROVE BlockInv'
<1> USE DEF BlockInv, DataBase, allocVars, hostVars
<1>0. Pad(ptr, 8) = 0  BY PadOfAligned DEF StageInv, StageEnd, TypeOK
<1>1. TypeOK'
  <2>1. end' \in Nat /\ ptr' \in Nat /\ free' \in Nat /\ off' \in [Sections -> Nat]
    BY <1>0 DEF TypeOK, StageEnd
  <2> QED  BY <2>1 DEF TypeOK, StageEnd
<1>2. StageInv'  BY <1>0, PayloadWords DEF TypeOK, StageInv, StageEnd
<1>a. /\ pc = "end" /\ pc' = "commit" /\ end' = ptr /\ ptr' = ptr + HeaderSize
      /\ off'["block"] = off["block"] + HeaderSize
      /\ UNCHANGED <<call, size, hdr, data, ran>>
  <2>1. ptr \in Nat /\ off \in [Sections -> Nat] /\ "block" \in Sections  BY DEF TypeOK, Sections
  <2>2. off["block"] \in Nat  BY <2>1
  <2>3. pc = "end" /\ pc' = "commit" /\ UNCHANGED <<call, size, hdr, data, ran>>  BY DEF StageEnd
  <2>4. end' = ptr /\ ptr' = ptr + HeaderSize  BY <1>0, <2>1 DEF StageEnd
  <2>5. off["block"] + Pad(ptr, 8) + HeaderSize = off["block"] + HeaderSize  BY <1>0, <2>2
  <2>6. off' = [off EXCEPT !["block"] = off["block"] + HeaderSize]
    BY <2>5, Zenon DEF StageEnd
  <2> QED  BY <2>1, <2>3, <2>4, <2>6
<1>3. StagedInv'
  <2>1. ptr \in Nat /\ free \in Nat /\ BlockLen \in Nat  BY BlockAssumption DEF TypeOK, BlockAssumption
  <2> QED  BY <1>a, <2>1 DEF StageInv, StagedInv
<1>4. DataInv'  BY <1>a DEF DataInv
<1>5. HostInv'  BY <1>0 DEF TypeOK, StageInv, StagedInv, HostInv, StageEnd
<1> QED  BY <1>1, <1>2, <1>3, <1>4, <1>5 DEF BlockInv

\* StageFails preserves the invariant.
LEMMA StageFailsPreserves ==
    ASSUME BlockInv, StageFails PROVE BlockInv'
<1> USE DEF BlockInv, DataBase, allocVars, hostVars
<1>1. TypeOK'  BY DEF TypeOK, StageFails, Fail
<1>2. StageInv'  BY PayloadWords DEF TypeOK, StageInv, StageFails, Fail
<1>3. StagedInv'  BY PayloadWords DEF TypeOK, StageInv, StagedInv, StageFails, Fail
<1>4. DataInv'  BY PayloadWords DEF TypeOK, StageInv, StagedInv, DataInv, StageFails, Fail
<1>5. HostInv'  BY DEF TypeOK, StageInv, StagedInv, HostInv, StageFails, Fail
<1> QED  BY <1>1, <1>2, <1>3, <1>4, <1>5 DEF BlockInv

\* Commit preserves the invariant.
LEMMA CommitPreserves ==
    ASSUME BlockInv, Commit PROVE BlockInv'
<1> USE DEF BlockInv, DataBase, allocVars, hostVars
<1>0. /\ pc = "commit" /\ pc' = "host" /\ call.kind # "stub"
      /\ hdr = 0 /\ end \in Addr /\ 0 \in Addr /\ end # 0 /\ ran = 0
  BY DEF Commit, TypeOK, StagedInv, Addr
<1>a. mem' \in [Addr -> Headers]
  <2>1. [kind |-> call.kind, size |-> size, age |-> "now"] \in Headers
    BY CallShape DEF TypeOK, Headers
  <2>2. EndHeader \in Headers /\ NoHeader \in Headers  BY DEF EndHeader, NoHeader, Headers
  <2> QED  BY <2>1, <2>2 DEF Commit, Committed, TypeOK
<1>b. mem'[0] = [kind |-> call.kind, size |-> size, age |-> "now"] /\ mem'[end] = EndHeader
  BY <1>0 DEF Commit, Committed
<1>1. TypeOK'  BY <1>0, <1>a, <1>b DEF TypeOK, Commit
<1>2. StageInv'  BY <1>0, <1>a, <1>b, PayloadWords DEF TypeOK, StageInv, Commit
<1>3. StagedInv'  BY <1>0, <1>a, <1>b, PayloadWords DEF TypeOK, StageInv, StagedInv, Commit
<1>4. DataInv'  BY <1>0, <1>a, <1>b, PayloadWords DEF TypeOK, StageInv, StagedInv, DataInv, Commit
<1>5. HostInv'  BY <1>0, <1>a, <1>b DEF TypeOK, StageInv, StagedInv, HostInv, Commit
<1> QED  BY <1>1, <1>2, <1>3, <1>4, <1>5 DEF BlockInv

\* CommitStub preserves the invariant.
LEMMA CommitStubPreserves ==
    ASSUME BlockInv, CommitStub PROVE BlockInv'
<1> USE DEF BlockInv, DataBase, allocVars, hostVars
<1>1. TypeOK'  BY DEF TypeOK, CommitStub
<1>2. StageInv'  BY PayloadWords DEF TypeOK, StageInv, CommitStub
<1>3. StagedInv'  BY PayloadWords DEF TypeOK, StageInv, StagedInv, CommitStub
<1>4. DataInv'  BY PayloadWords DEF TypeOK, StageInv, StagedInv, DataInv, CommitStub
<1>5. HostInv'  BY DEF TypeOK, StageInv, StagedInv, HostInv, CommitStub
<1> QED  BY <1>1, <1>2, <1>3, <1>4, <1>5 DEF BlockInv

\* HostDone preserves the invariant.
LEMMA HostDonePreserves ==
    ASSUME BlockInv, HostDone PROVE BlockInv'
<1> USE DEF BlockInv, DataBase, allocVars, hostVars
<1>0. ran = 1
  <2>1. SUFFICES ASSUME ran = 0, cursor = 0 PROVE FALSE
    BY DEF HostDone, HostInv
  <2>2. mem[0].kind = call.kind /\ mem[0].size = size  BY DEF HostDone, HostInv
  <2>3. call.kind \in Kinds \ {"stub"}  BY CallShape DEF HostDone, StagedInv, TypeOK
  <2>4. size >= PayloadSize(call.kind) /\ size % 8 = 0 /\ HeaderSize <= BlockLen
    BY <2>3 DEF HostDone, StagedInv, TypeOK
  <2> QED  BY <2>1, <2>2, <2>3, <2>4, PayloadWords DEF HostDone, Exhausted, Kinds, TypeOK
<1>1. TypeOK'  BY <1>0 DEF TypeOK, HostDone
<1>2. StageInv'  BY <1>0, PayloadWords DEF TypeOK, StageInv, HostDone
<1>3. StagedInv'  BY <1>0, PayloadWords DEF TypeOK, StageInv, StagedInv, HostDone
<1>4. DataInv'  BY <1>0, PayloadWords DEF TypeOK, StageInv, StagedInv, DataInv, HostDone
<1>5. HostInv'  BY <1>0 DEF TypeOK, StageInv, StagedInv, HostInv, HostDone
<1> QED  BY <1>1, <1>2, <1>3, <1>4, <1>5 DEF BlockInv

\* HostItem preserves the invariant.
LEMMA HostItemPreserves ==
    ASSUME BlockInv, HostItem PROVE BlockInv'
<1> USE DEF BlockInv, DataBase, allocVars, hostVars
<1>0. pc = "host" /\ ran = 0 /\ cursor = 0
  <2>1. cursor # end  BY DEF HostItem, HostInv, Exhausted, EndHeader
  <2> QED  BY <2>1 DEF HostItem, HostInv
<1>a. /\ mem[0].kind = call.kind /\ mem[0].size = size /\ call.kind \in Kinds /\ call.kind # "stub"
      /\ end = HeaderSize + size /\ end + HeaderSize <= BlockLen /\ size \in Nat
      /\ size >= PayloadSize(call.kind)
  <2>1. mem[0].kind = call.kind /\ mem[0].size = size  BY <1>0 DEF HostInv
  <2>2. call.kind \in Kinds /\ size \in Nat  BY CallShape DEF TypeOK
  <2>3. /\ call.kind # "stub" /\ end = HeaderSize + size /\ end + HeaderSize <= BlockLen
        /\ size >= PayloadSize(call.kind)
    BY <1>0 DEF StagedInv
  <2> QED  BY <2>1, <2>2, <2>3
<1>b. ASSUME NEW k \in DOMAIN data PROVE DerefOk(data[k])
  <2> DEFINE d == data[k]
  <2>1. d.lo = DataBase + d.offset /\ d.lo % d.align = 0 /\ d.lo + d.size <= end
    BY <1>0, <1>a DEF DataInv
  <2>2. d.lo \in Nat /\ d.size \in Nat /\ d.offset \in Nat /\ d.align \in {1, 2, 4, 8}
    BY RefFields DEF TypeOK
  <2>3. Pad(d.lo, d.align) = 0  BY <2>1, <2>2, PadOfAligned
  <2> QED  BY <1>0, <1>a, <2>1, <2>2, <2>3, PayloadWords DEF DerefOk, DataLen
<1>c. pc' = "host" /\ cursor' = end /\ ran' = 1
  BY <1>0, <1>a, <1>b DEF HostItem
<1>1. TypeOK'  BY <1>0, <1>a, <1>c DEF TypeOK, HostItem
<1>2. StageInv'  BY <1>0, <1>a, <1>c, PayloadWords DEF TypeOK, StageInv, HostItem
<1>3. StagedInv'  BY <1>0, <1>a, <1>c, PayloadWords DEF TypeOK, StageInv, StagedInv, HostItem
<1>4. DataInv'  BY <1>0, <1>a, <1>c, PayloadWords DEF TypeOK, StageInv, StagedInv, DataInv, HostItem
<1>5. HostInv'  BY <1>0, <1>a, <1>c DEF TypeOK, StageInv, StagedInv, HostInv, HostItem
<1> QED  BY <1>1, <1>2, <1>3, <1>4, <1>5 DEF BlockInv

\* Collect preserves the invariant.
LEMMA CollectPreserves ==
    ASSUME BlockInv, Collect PROVE BlockInv'
<1> USE DEF BlockInv, DataBase, allocVars, hostVars
<1>1. TypeOK'  BY DEF TypeOK, Collect
<1>2. StageInv'  BY PayloadWords DEF TypeOK, StageInv, Collect
<1>3. StagedInv'  BY PayloadWords DEF TypeOK, StageInv, StagedInv, Collect
<1>4. DataInv'  BY PayloadWords DEF TypeOK, StageInv, StagedInv, DataInv, Collect
<1>5. HostInv'  BY DEF TypeOK, StageInv, StagedInv, HostInv, Collect
<1> QED  BY <1>1, <1>2, <1>3, <1>4, <1>5 DEF BlockInv

\* Every step of the guest and of the host preserves it.
LEMMA NextPreservesInv == BlockInv /\ [Next]_vars => BlockInv'
<1>1. BlockInv /\ UNCHANGED vars => BlockInv'
  BY DEF vars, allocVars, hostVars, BlockInv, TypeOK, StageInv, StagedInv, DataInv, HostInv, DataBase
<1> QED
  BY <1>1, ExecutePreserves, StageHeaderPreserves, StagePayloadPreserves, StageDataPreserves, StageDonePreserves, StagePadPreserves, StageEndPreserves, StageFailsPreserves, CommitPreserves, CommitStubPreserves, HostDonePreserves, HostItemPreserves, CollectPreserves DEF Next, Stage

\* The invariant holds in every reachable state.
THEOREM InvariantHolds == Spec => []BlockInv
BY InitEstablishesInv, NextPreservesInv, PTL DEF Spec

\* Type correctness (SallyportBlock!TypeOK): in particular the allocator's
\* position and free space never go below zero.
THEOREM TypeCorrect == Spec => []TypeOK
<1>1. BlockInv => TypeOK  BY DEF BlockInv
<1> QED  BY <1>1, InvariantHolds, PTL

\* The staged regions are aligned, disjoint, after the payload and before END,
\* which is inside the block, for every block size and every call.
THEOREM RefsAlwaysSound == Spec => []RefsSound
<1>1. ASSUME BlockInv, pc \in {"commit", "host", "collect"}, call.kind # "stub"
      PROVE  RefsSound
  <2>1. hdr = 0 /\ size \in Nat /\ size >= PayloadSize(call.kind) /\ end = HeaderSize + size
    BY <1>1 DEF BlockInv, TypeOK, StagedInv
  <2>2. end + HeaderSize <= BlockLen /\ end % 8 = 0  BY <1>1 DEF BlockInv, StagedInv
  <2>3. hdr + HeaderSize + PayloadSize(call.kind) <= end
    BY <2>1, PayloadWords DEF HeaderSize
  <2>4. ASSUME NEW k \in DOMAIN data
        PROVE  /\ data[k].lo % data[k].align = 0
               /\ data[k].lo >= hdr + HeaderSize + PayloadSize(call.kind)
               /\ data[k].lo + data[k].size <= end
               /\ \A m \in DOMAIN data : m < k => data[m].lo + data[m].size <= data[k].lo
    <3>1. /\ data[k].lo = DataBase + data[k].offset
          /\ data[k].lo % data[k].align = 0
          /\ data[k].lo + data[k].size <= end
          /\ \A m \in DOMAIN data : m < k => data[m].lo + data[m].size <= data[k].lo
      BY <1>1 DEF BlockInv, DataInv
    <3>2. data[k].offset \in Nat  BY <1>1, RefFields DEF BlockInv, TypeOK
    <3> QED  BY <2>1, <3>1, <3>2, PayloadWords DEF DataBase, HeaderSize
  <2> QED  BY <2>2, <2>3, <2>4 DEF RefsSound
<1>2. BlockInv => RefsSound  BY <1>1 DEF RefsSound
<1> QED  BY <1>2, InvariantHolds, PTL

\* Offsets sent to the host denote the regions staged by the guest.
THEOREM OffsetsAlwaysDenoteRefs == Spec => []OffsetsDenoteRefs
<1>1. BlockInv => OffsetsDenoteRefs
  BY DEF BlockInv, StagedInv, DataInv, OffsetsDenoteRefs, DataBase, TypeOK
<1> QED  BY <1>1, InvariantHolds, PTL

\* The host decodes the item of this call and its END, never a stale header,
\* and accepts every reference in it.
THEOREM HostAlwaysReadsThisCall == Spec => []HostReadsThisCall
<1>1. BlockInv => HostReadsThisCall
  BY PayloadWords DEF BlockInv, TypeOK, StagedInv, HostInv, HostReadsThisCall, EndHeader, Addr
<1> QED  BY <1>1, InvariantHolds, PTL

\* The guest's check of the returned block never fails.
THEOREM EfaultNeverReturned == Spec => []NeverEfault
<1>1. BlockInv => NeverEfault  BY DEF BlockInv, HostInv, NeverEfault
<1> QED  BY <1>1, InvariantHolds, PTL

\* Regions and offsets together.
THEOREM StagingAlwaysSound == Spec => []StagingSound
<1>1. RefsSound /\ OffsetsDenoteRefs => StagingSound  BY DEF StagingSound
<1> QED  BY <1>1, RefsAlwaysSound, OffsetsAlwaysDenoteRefs, PTL

\* Decoding on the host and the guest's check together.
THEOREM RoundTripAlwaysSound == Spec => []RoundTripSound
<1>1. HostReadsThisCall /\ NeverEfault => RoundTripSound  BY DEF RoundTripSound
<1> QED  BY <1>1, HostAlwaysReadsThisCall, EfaultNeverReturned, PTL

\* With the payload staged there is room for padding, for END and for any
\* slice that may shrink.
LEMMA FailsOnlyFixed ==
    ASSUME BlockInv, StageFails
    PROVE  \/ pc \in {"idle", "header", "payload"}
           \/ pc = "data" /\ Len(data) < Len(call.data) /\ ~NextLayout.max
<1>1. CASE pc = "pad"
  <2>1. ptr \in Nat /\ free \in Nat /\ size \in Nat /\ ptr = 16 + size /\ ptr + free = BlockLen - 16
    BY <1>1 DEF BlockInv, TypeOK, StageInv
  <2>2. free >= PadBytes  BY <2>1 DEF PadBytes
  <2>3. Pad(ptr, 1) = 0 /\ PadBytes \in Nat  BY <2>1, PadOfAligned DEF PadBytes
  <2>4. HasRoom(PadBytes, 1)  BY <2>1, <2>2, <2>3 DEF HasRoom
  <2> QED  BY <1>1, <2>4 DEF StageFails, Wanted
<1>2. CASE pc = "end"
  <2>1. Pad(ptr, 8) = 0  BY <1>2, PadOfAligned DEF BlockInv, TypeOK, StageInv
  <2> QED  BY <1>2, <2>1 DEF StageFails, EndFits, BlockInv, TypeOK
<1>3. CASE pc = "data" /\ NextLayout.max
  <2>1. NextLayout \in Layouts /\ NextLayout.align = 1
    BY <1>3, CallShape DEF StageFails, NextLayout, BlockInv, TypeOK
  <2>2. free \in Nat /\ ptr \in Nat  BY DEF BlockInv, TypeOK
  <2>3. Pad(ptr, 1) = 0  BY <2>2, PadOfAligned
  <2>4. Fit(NextLayout) \in Nat /\ free >= Fit(NextLayout)
    BY <1>3, <2>1, <2>2 DEF Fit, Layouts
  <2>5. HasRoom(Fit(NextLayout), NextLayout.align)  BY <2>1, <2>2, <2>3, <2>4 DEF HasRoom
  <2> QED  BY <1>3, <2>5 DEF StageFails, Wanted
<1> QED  BY <1>1, <1>2, <1>3 DEF StageFails

\* ENOMEM is only ever reported for a header, a payload or a fixed-size piece of
\* data: nothing fails after them.
THEOREM EnomemNeverLate == Spec => NoLateEnomem
<1> DEFINE A == (res' = "ENOMEM" /\ res # "ENOMEM") =>
                  \/ pc \in {"idle", "header", "payload"}
                  \/ pc = "data" /\ Len(data) < Len(call.data) /\ ~NextLayout.max
<1>1. ASSUME BlockInv, Next PROVE A
  <2>1. CASE StageFails  BY <1>1, <2>1, FailsOnlyFixed
  <2>2. CASE ~StageFails
    <3>1. res' # "ENOMEM" \/ res' = res
      BY <1>1, <2>2 DEF Next, Stage, Execute, StageHeader, StagePayload, StageData, StageDone, StagePad,
         StageEnd, Commit, CommitStub, HostDone, HostItem, Collect
    <3> QED  BY <3>1
  <2> QED  BY <2>1, <2>2
<1>2. BlockInv /\ [Next]_vars => [A]_vars  BY <1>1
<1> QED  BY <1>2, InvariantHolds, PTL DEF Spec, NoLateEnomem

\* A step of guest and host is a step of HostCall or leaves it unchanged.
LEMMA StepSimulates == BlockInv /\ [Next]_vars => [Service!Next]_(Service!callVars)
<1> SUFFICES ASSUME BlockInv, [Next]_vars PROVE [Service!Next]_(Service!callVars)
  OBVIOUS
<1> USE DEF Service!Next, Service!Call, Service!Serve, Service!Return, Service!Stop, Service!callVars
<1>1. CASE Stage
  BY <1>1 DEF Stage, Execute, StageHeader, StagePayload, StageData, StageDone, StagePad, StageEnd,
     StageFails, Fail
<1>2. CASE Commit \/ CommitStub
  BY <1>2 DEF Commit, CommitStub, BlockInv, StagedInv, hostVars
<1>3. CASE HostDone
  BY <1>3 DEF HostDone, hostVars
<1>4. CASE HostItem
  <2>1. BlockInv'  BY <1>4, HostItemPreserves
  <2>2. pc = "host" /\ ran = 0
    BY <1>4 DEF HostItem, BlockInv, HostInv, Exhausted, EndHeader
  <2>3. pc' \in {"host", "lost", "failed"} /\ ran' \in {0, 1}
    BY <1>4, <2>2 DEF HostItem
  <2>4. pc' = "host"  BY <2>1, <2>3 DEF BlockInv, HostInv
  <2> QED  BY <2>2, <2>3, <2>4
<1>5. CASE Collect
  BY <1>5 DEF Collect, BlockInv, HostInv, hostVars
<1>6. CASE UNCHANGED vars
  BY <1>6 DEF vars, hostVars
<1> QED  BY <1>1, <1>2, <1>3, <1>4, <1>5, <1>6 DEF Next

\* One execute() is one exactly-once host call, or none (SallyportBlock
\* implements HostCall), for every block size and every sequence of calls.
THEOREM ImplementsHostCall == Spec => ServiceSpec
<1>1. Init => Service!Init  BY DEF Init, Service!Init
<1> QED  BY <1>1, StepSimulates, InvariantHolds, PTL DEF Spec, ServiceSpec, Service!Spec
=============================================================================
