----------------------------- MODULE Sgx_proofs ------------------------------
(***************************************************************************)
(* TLAPS proofs about the SGX keep.                                        *)
(*                                                                         *)
(* The thread (SgxThread), for any bound on the host calls of one trap:    *)
(* the inductive invariant ThreadInv, the safety properties it implies,    *)
(* and that the thread implements the abstract HostCall service.           *)
(*                                                                         *)
(* The memory (SgxHeap), for every heap size, page size, ledger capacity   *)
(* and set of requests: HeapInv is inductive and the safety properties     *)
(* follow from it.  Fits (the ledger's capacity) is never expanded.        *)
(***************************************************************************)
EXTENDS SgxThread, SgxHeap, FiniteSetTheorems, TLAPS

-----------------------------------------------------------------------------
(* The memory.                                                             *)

\* Pages and addresses computed from requests are natural numbers.
LEMMA DivNat == \A b \in Nat : b \div PageSize \in Nat
BY PageSizeAssumption, SMT DEF PageSizeAssumption
LEMMA PageUpNat == \A b \in Nat : PageUp(b) \in Nat
BY PageSizeAssumption, DivNat DEF PageSizeAssumption, PageUp

\* A ledger that claims nothing fits.
LEMMA EmptyFits == Fits([p \in Pages |-> "none"])
<1>1. Records([p \in Pages |-> "none"]) = {}  BY DEF Records
<1> QED  BY <1>1, FS_EmptySet, CapacityAssumption DEF Fits, CapacityAssumption

\* The empty heap satisfies the invariant.
LEMMA HeapInitEstablishesInv == HeapInit => HeapInv
<1> SUFFICES ASSUME HeapInit PROVE HeapInv  OBVIOUS
<1> USE NPagesAssumption DEF NPagesAssumption, HeapInit, NoOp, Busy, OpSpan, Span, Pages, Start, End
<1>1. HeapTypeOK  BY DEF HeapTypeOK, Names, Accesses, Errors, EpcStates
<1>2. OpInv /\ BusyInv /\ SettledInv /\ LostInv /\ HoleInv /\ OwnInv
  BY DEF OpInv, BusyInv, SettledInv, LostInv, HoleInv, OwnInv
<1>3. RoomInv  BY EmptyFits DEF RoomInv
<1> QED  BY <1>1, <1>2, <1>3 DEF HeapInv

\* BrkMove preserves the invariant.
LEMMA BrkMovePreserves ==
    ASSUME HeapInv, NEW a \in Addrs, BrkMove(a) PROVE HeapInv'
<1> USE NPagesAssumption DEF HeapInv, NPagesAssumption, Pages, Start, End, OpSpan, Span, Busy, heapVars, enclaveVars, histVars, Unmapping
<1> DEFINE next == PageUp(a)
<1>0. /\ pc = "idle" /\ pc' = "idle" /\ op' = NoOp /\ ret' = "none"
      /\ next \in Nat /\ next >= Start /\ next < End /\ next <= brkMax
      /\ brk' = next
      /\ own' = [p \in Pages |-> IF p < next THEN IF own[p] = "none" THEN "brk" ELSE own[p]
                                ELSE IF own[p] = "brk" THEN "none" ELSE own[p]]
      /\ UNCHANGED <<brkMax, ledger, vma, epc, lost, holes>>
  BY PageUpNat, RequestsAssumption DEF BrkMove, InHeap, BreakAt, HeapFinish, RequestsAssumption
<1> HIDE DEF next
<1>1. HeapTypeOK'
  <2>1. own' \in [Pages -> {"none", "brk", "map"}]  BY <1>0 DEF HeapTypeOK
  <2> QED  BY <1>0, <2>1 DEF HeapTypeOK, NoOp, Names, Accesses, Errors
<1>2. OpInv'  BY <1>0 DEF OpInv, NoOp
<1>3. BusyInv'  BY <1>0 DEF BusyInv
<1>4. SettledInv'  BY <1>0 DEF SettledInv
<1>5. LostInv'  BY <1>0 DEF HeapTypeOK, LostInv
<1>6. OwnInv'  BY <1>0 DEF HeapTypeOK, OwnInv
<1>7. RoomInv'  BY <1>0 DEF RoomInv, Fits, Records
<1>8. HoleInv'  BY <1>0 DEF HeapTypeOK, OwnInv, HoleInv
<1> QED  BY <1>1, <1>2, <1>3, <1>4, <1>5, <1>6, <1>7, <1>8

\* BrkGrow preserves the invariant.
LEMMA BrkGrowPreserves ==
    ASSUME HeapInv, NEW a \in Addrs, BrkGrow(a) PROVE HeapInv'
<1> USE NPagesAssumption DEF HeapInv, NPagesAssumption, Pages, Start, End, OpSpan, Span, Busy, heapVars, enclaveVars, histVars, Unmapping
<1> DEFINE next == PageUp(a)
           n == next - brkMax
<1>0. /\ pc = "idle" /\ pc' = "mmapHost" /\ ret' = "none"
      /\ op' = [name |-> "brk", lo |-> brkMax, n |-> n, prot |-> "RW", err |-> "none"]
      /\ next \in Nat /\ next < End /\ next > brkMax /\ brkMax' = next
      /\ \A p \in Span(brkMax, n) : p \in Pages => ledger[p] = "none"
      /\ Fits(ledger')
      /\ ledger' = [p \in Pages |-> IF p \in Span(brkMax, n) THEN "RW" ELSE ledger[p]]
      /\ UNCHANGED <<brk, vma, epc, own, lost, holes>>
  BY PageUpNat, RequestsAssumption DEF BrkGrow, InHeap, Go, Overlaps, WithAccess, RequestsAssumption
<1> HIDE DEF next
<1>a. n \in Nat /\ brkMax \in Nat /\ brkMax + n = next /\ OpSpan' = Span(brkMax, n)
      /\ Span(brkMax, n) \subseteq Pages
      /\ \A p \in Pages : p < next => p < brkMax \/ p \in Span(brkMax, n)
  <2>1. brkMax \in Nat /\ brkMax >= Start /\ n \in Nat /\ brkMax + n = next  BY <1>0 DEF HeapTypeOK
  <2>2. op'.lo = brkMax /\ op'.n = n  BY <1>0
  <2> HIDE DEF n
  <2> QED  BY <1>0, <2>1, <2>2
<1> HIDE DEF n
<1>1. HeapTypeOK'
  <2>1. ledger' \in [Pages -> Accesses \cup {"none"}]  BY <1>0 DEF HeapTypeOK, Accesses
  <2>2. op' \in [name : Names, lo : Nat, n : Nat, prot : Accesses, err : Errors]
    BY <1>0, <1>a DEF Names, Accesses, Errors
  <2> QED  BY <1>0, <2>1, <2>2 DEF HeapTypeOK, Errors
<1>2. OpInv'  BY <1>0, <1>a DEF OpInv
<1>3. BusyInv'  BY <1>0, <1>a DEF HeapTypeOK, BusyInv, SettledInv
<1>4. SettledInv'  BY <1>0, <1>a DEF HeapTypeOK, SettledInv
<1>5. LostInv'  BY <1>0, <1>a DEF HeapTypeOK, LostInv
<1>6. OwnInv'  BY <1>0, <1>a DEF HeapTypeOK, OwnInv
<1>7. RoomInv'  BY <1>0 DEF RoomInv, Fits, Records
<1>8. HoleInv'  BY <1>0, <1>a DEF HeapTypeOK, HoleInv
<1> QED  BY <1>1, <1>2, <1>3, <1>4, <1>5, <1>6, <1>7, <1>8

\* Mmap preserves the invariant.
LEMMA MmapPreserves ==
    ASSUME HeapInv, NEW len \in Lens, NEW prot \in Prots, Mmap(len, prot) PROVE HeapInv'
<1> USE NPagesAssumption, RequestsAssumption, PageUpNat DEF HeapInv, NPagesAssumption, RequestsAssumption, Pages, Start, End, OpSpan, Span, Busy, heapVars, enclaveVars, histVars, Unmapping
<1>1. HeapTypeOK'  BY DEF HeapTypeOK, Names, Errors, Mmap, Go, WithAccess, ProtAllowed, WithRead
<1>2. OpInv'  BY DEF OpInv, Mmap, Go, FindFreeBack, FreeAt
<1>3. BusyInv'  BY DEF BusyInv, SettledInv, Mmap, Go, FindFreeBack, FreeAt, Overlaps, WithAccess, WithRead
<1>4. SettledInv'  BY DEF SettledInv, Mmap, WithAccess, WithRead
<1>5. LostInv'  BY DEF LostInv, Mmap, Go, WithAccess, WithRead
<1>6. OwnInv'  BY DEF OwnInv, Mmap, Go, WithAccess
<1>7. RoomInv'
  <2>1. PICK a \in Pages :
           /\ \A p \in Span(a, PageUp(len)) : p \in Pages => ledger[p] = "none"
           /\ Fits(ledger')
           /\ ledger' = WithAccess(a, PageUp(len), WithRead(prot))
           /\ op'.lo = a /\ op'.n = PageUp(len)
    BY DEF Mmap, Go, FindFreeBack, FreeAt, Overlaps
  <2>2. [p \in Pages |-> IF p \in Span(a, PageUp(len)) THEN "none" ELSE ledger'[p]] = ledger
    BY <2>1 DEF HeapTypeOK, WithAccess
  <2>3. WithAccess(op.lo, op.n, "none")' = ledger  BY <2>1, <2>2 DEF WithAccess
  <2>4. Fits(ledger)  BY DEF RoomInv
  <2> QED  BY <2>1, <2>3, <2>4 DEF RoomInv, Fits, Records
<1>8. HoleInv'  BY DEF HeapTypeOK, HoleInv, Mmap, Go, FindFreeBack, FreeAt, Overlaps, WithAccess, WithRead
<1> QED  BY <1>1, <1>2, <1>3, <1>4, <1>5, <1>6, <1>7, <1>8

\* MmapHost preserves the invariant.
LEMMA MmapHostPreserves ==
    ASSUME HeapInv, MmapHost PROVE HeapInv'
<1> USE NPagesAssumption, RequestsAssumption DEF HeapInv, NPagesAssumption, RequestsAssumption, Pages, Start, End, OpSpan, Span, Busy, heapVars, enclaveVars, histVars, Unmapping
<1>1. HeapTypeOK'  BY DEF HeapTypeOK, OpInv, MmapHost
<1>2. OpInv'  BY DEF OpInv, MmapHost
<1>3. BusyInv'  BY DEF BusyInv, MmapHost
<1>4. SettledInv'  BY DEF HeapTypeOK, OpInv, BusyInv, SettledInv, Accesses, Names, Errors, EpcStates, MmapHost
<1>5. LostInv'  BY DEF LostInv, MmapHost
<1>6. OwnInv'  BY DEF OwnInv, MmapHost
<1>7. RoomInv'  BY DEF RoomInv, WithAccess, MmapHost
<1>8. HoleInv'  BY DEF HoleInv, MmapHost
<1> QED  BY <1>1, <1>2, <1>3, <1>4, <1>5, <1>6, <1>7, <1>8

\* MmapHostFails preserves the invariant.
LEMMA MmapHostFailsPreserves ==
    ASSUME HeapInv, MmapHostFails PROVE HeapInv'
<1> USE NPagesAssumption, RequestsAssumption DEF HeapInv, NPagesAssumption, RequestsAssumption, Pages, Start, End, OpSpan, Span, Busy, heapVars, enclaveVars, histVars, Unmapping
<1>1. HeapTypeOK'  BY DEF HeapTypeOK, OpInv, Accesses, Names, Errors, MmapHostFails, HeapFinish, NoOp
<1>2. OpInv'  BY DEF OpInv, MmapHostFails, HeapFinish, NoOp
<1>3. BusyInv'  BY DEF BusyInv, MmapHostFails, HeapFinish
<1>4. SettledInv'  BY DEF BusyInv, SettledInv, MmapHostFails
<1>5. LostInv'  BY DEF LostInv, MmapHostFails, HeapFinish
<1>6. OwnInv'  BY DEF OwnInv, MmapHostFails, HeapFinish
<1>7. RoomInv'  BY DEF RoomInv, MmapHostFails, HeapFinish
<1>8. HoleInv'  BY DEF HeapTypeOK, OpInv, HoleInv, MmapHostFails, HeapFinish, NoOp
<1> QED  BY <1>1, <1>2, <1>3, <1>4, <1>5, <1>6, <1>7, <1>8

\* MmapGuest preserves the invariant.
LEMMA MmapGuestPreserves ==
    ASSUME HeapInv, MmapGuest PROVE HeapInv'
<1> USE NPagesAssumption, RequestsAssumption DEF HeapInv, NPagesAssumption, RequestsAssumption, Pages, Start, End, OpSpan, Span, Busy, heapVars, enclaveVars, histVars, Unmapping
<1>1. HeapTypeOK'
  <2>1. epc' \in [Pages -> EpcStates] /\ lost' \subseteq Pages /\ holes' \subseteq Pages
    BY DEF HeapTypeOK, EpcStates, Accesses, MmapGuest
  <2>2. OwnAfterMap \in [Pages -> {"none", "brk", "map"}]
    BY DEF HeapTypeOK, OwnAfterMap, BreakAt
  <2>3. own' \in [Pages -> {"none", "brk", "map"}]  BY <2>2 DEF HeapTypeOK, MmapGuest
  <2>4. op' \in [name : Names, lo : Nat, n : Nat, prot : Accesses, err : Errors] /\ ret' \in Errors
    BY DEF HeapTypeOK, MmapGuest, HeapFinish, NoOp, Names, Accesses, Errors
  <2> QED  BY <2>1, <2>3, <2>4 DEF HeapTypeOK, MmapGuest, HeapFinish
<1>2. OpInv'  BY DEF OpInv, MmapGuest, HeapFinish, NoOp
<1>3. BusyInv'  BY DEF HeapTypeOK, BusyInv, MmapGuest, HeapFinish
<1>4. SettledInv'  BY DEF BusyInv, SettledInv, Accesses, MmapGuest
<1>5. LostInv'  BY DEF HeapTypeOK, OpInv, BusyInv, SettledInv, LostInv, Accesses, Names, Errors, EpcStates, MmapGuest, OwnAfterMap, BreakAt, HeapFinish, NoOp
<1>6. OwnInv'  BY DEF HeapTypeOK, OpInv, BusyInv, SettledInv, OwnInv, Errors, EpcStates, MmapGuest, OwnAfterMap, BreakAt, HeapFinish
<1>7. RoomInv'
  <2>1. ledger' = ledger /\ (pc' = "idle" \/ pc' = "attacked" \/ (pc' = "mprotectHost" /\ op' = op))
    BY DEF MmapGuest, HeapFinish, heapVars
  <2> QED  BY <2>1 DEF RoomInv, Fits, Records, WithAccess, MmapGuest
<1>8. HoleInv'  BY DEF HeapTypeOK, OpInv, BusyInv, HoleInv, MmapGuest, OwnAfterMap, BreakAt, HeapFinish, NoOp
<1> QED  BY <1>1, <1>2, <1>3, <1>4, <1>5, <1>6, <1>7, <1>8

\* Mprotect preserves the invariant.
LEMMA MprotectPreserves ==
    ASSUME HeapInv, NEW a \in Addrs, NEW len \in Lens, NEW prot \in Prots, Mprotect(a, len, prot) PROVE HeapInv'
<1> USE NPagesAssumption, RequestsAssumption, PageUpNat, DivNat DEF HeapInv, NPagesAssumption, RequestsAssumption, Pages, Start, End, OpSpan, Span, Busy, heapVars, enclaveVars, histVars, Unmapping
<1>1. HeapTypeOK'  BY DEF HeapTypeOK, Names, Errors, Mprotect, Go, ProtAllowed
<1>2. OpInv'  BY DEF OpInv, Mprotect, Go, Contains
<1>3. BusyInv'  BY DEF BusyInv, SettledInv, Mprotect, Go, Contains
<1>4. SettledInv'  BY DEF SettledInv, Mprotect
<1>5. LostInv'  BY DEF LostInv, Mprotect, Go
<1>6. OwnInv'  BY DEF OwnInv, Mprotect, Go
<1>7. RoomInv'  BY DEF RoomInv, Mprotect, Go
<1>8. HoleInv'  BY DEF HoleInv, Mprotect, Go, Contains
<1> QED  BY <1>1, <1>2, <1>3, <1>4, <1>5, <1>6, <1>7, <1>8

\* MprotectHost preserves the invariant.
LEMMA MprotectHostPreserves ==
    ASSUME HeapInv, MprotectHost PROVE HeapInv'
<1> USE NPagesAssumption, RequestsAssumption DEF HeapInv, NPagesAssumption, RequestsAssumption, Pages, Start, End, OpSpan, Span, Busy, heapVars, enclaveVars, histVars, Unmapping
<1>1. HeapTypeOK'  BY DEF HeapTypeOK, EpcStates, MprotectHost
<1>2. OpInv'  BY DEF OpInv, MprotectHost
<1>3. BusyInv'  BY DEF BusyInv, MprotectHost
<1>4. SettledInv'  BY DEF SettledInv, MprotectHost
<1>5. LostInv'  BY DEF OpInv, BusyInv, LostInv, MprotectHost
<1>6. OwnInv'  BY DEF OwnInv, MprotectHost
<1>7. RoomInv'  BY DEF RoomInv, MprotectHost
<1>8. HoleInv'  BY DEF OpInv, BusyInv, HoleInv, MprotectHost
<1> QED  BY <1>1, <1>2, <1>3, <1>4, <1>5, <1>6, <1>7, <1>8

\* MprotectHostFails preserves the invariant.
LEMMA MprotectHostFailsPreserves ==
    ASSUME HeapInv, MprotectHostFails PROVE HeapInv'
<1> USE NPagesAssumption DEF HeapInv, NPagesAssumption, Pages, Start, End, OpSpan, Span, Busy, heapVars, enclaveVars, histVars, Unmapping
<1>1. CASE TakesBack
  <2>0. /\ pc = "mprotectHost" /\ pc' = "trim" /\ op.name = "mmap"
        /\ op' = [op EXCEPT !.err = "ENOMEM"]
        /\ ledger' = [p \in Pages |-> IF p \in OpSpan THEN "none" ELSE ledger[p]]
        /\ Fits(ledger')
        /\ UNCHANGED <<brk, brkMax, vma, epc, own, lost, holes, ret>>
    BY <1>1 DEF MprotectHostFails, TakesBack, WithAccess
  <2>a. op'.name = op.name /\ op'.lo = op.lo /\ op'.n = op.n /\ OpSpan' = OpSpan
        /\ op' \in [name : Names, lo : Nat, n : Nat, prot : Accesses, err : Errors]
    BY <2>0 DEF HeapTypeOK, Errors
  <2> HIDE DEF OpSpan
  <2>1. HeapTypeOK'  BY <2>0, <2>a DEF HeapTypeOK
  <2>2. OpInv'  BY <2>0, <2>a DEF OpInv
  <2>3. BusyInv'  BY <2>0, <2>a DEF BusyInv
  <2>4. SettledInv'  BY <2>0, <2>a DEF SettledInv
  <2>5. LostInv'  BY <2>0, <2>a DEF HeapTypeOK, BusyInv, LostInv
  <2>6. OwnInv'  BY <2>0, <2>a DEF HeapTypeOK, OwnInv
  <2>7. RoomInv'  BY <2>0 DEF RoomInv, Fits, Records
  <2>8. HoleInv'  BY <2>0, <2>a DEF HeapTypeOK, HoleInv
  <2> QED  BY <2>1, <2>2, <2>3, <2>4, <2>5, <2>6, <2>7, <2>8
<1>2. CASE ~TakesBack
  <2>0. /\ pc = "mprotectHost" /\ pc' = "idle" /\ op' = NoOp /\ ret' = "ENOMEM"
        /\ op.name = "mprotect"
        /\ UNCHANGED <<brk, brkMax, ledger, vma, epc, own, lost, holes>>
    BY <1>2 DEF MprotectHostFails, TakesBack, OpInv, RoomInv, HeapFinish
  <2>1. HeapTypeOK'  BY <2>0 DEF HeapTypeOK, NoOp, Names, Accesses, Errors
  <2>2. OpInv'  BY <2>0 DEF OpInv, NoOp
  <2>3. BusyInv' /\ SettledInv'  BY <2>0 DEF BusyInv, SettledInv
  <2>4. LostInv'  BY <2>0 DEF LostInv
  <2>5. OwnInv'  BY <2>0 DEF OwnInv
  <2>6. RoomInv'  BY <2>0 DEF RoomInv, Fits, Records
  <2>7. HoleInv'  BY <2>0 DEF HoleInv
  <2> QED  BY <2>1, <2>2, <2>3, <2>4, <2>5, <2>6, <2>7
<1> QED  BY <1>1, <1>2

\* MprotectGuest preserves the invariant.
LEMMA MprotectGuestPreserves ==
    ASSUME HeapInv, MprotectGuest PROVE HeapInv'
<1> USE NPagesAssumption, RequestsAssumption DEF HeapInv, NPagesAssumption, RequestsAssumption, Pages, Start, End, OpSpan, Span, Busy, heapVars, enclaveVars, histVars, Unmapping
<1>1. HeapTypeOK'  BY DEF HeapTypeOK, Accesses, Names, Errors, EpcStates, MprotectGuest, Protected, WithAccess, OwnAfterMap, NoOp
<1>2. OpInv'  BY DEF OpInv, MprotectGuest, NoOp
<1>3. BusyInv'  BY DEF BusyInv, MprotectGuest
<1>4. SettledInv'  BY DEF HeapTypeOK, BusyInv, SettledInv, MprotectGuest, Protected, WithAccess
<1>5. LostInv'  BY DEF HeapTypeOK, LostInv, Accesses, MprotectGuest, Protected, WithAccess, OwnAfterMap
<1>6. OwnInv'  BY DEF OpInv, BusyInv, OwnInv, MprotectGuest, Protected, WithAccess, OwnAfterMap
<1>7. RoomInv'
  <2>1. Fits(ledger) /\ Fits(Protected)  BY DEF RoomInv, Protected
  <2>2. Fits(ledger')  BY <2>1 DEF MprotectGuest
  <2>3. pc' \in {"idle", "attacked"}  BY DEF MprotectGuest
  <2> QED  BY <2>2, <2>3 DEF RoomInv, Fits, Records
<1>8. HoleInv'  BY DEF HeapTypeOK, OpInv, BusyInv, HoleInv, Accesses, MprotectGuest, Protected, WithAccess, OwnAfterMap, NoOp
<1> QED  BY <1>1, <1>2, <1>3, <1>4, <1>5, <1>6, <1>7, <1>8

\* Munmap preserves the invariant.
LEMMA MunmapPreserves ==
    ASSUME HeapInv, NEW name \in {"munmap", "mremap"}, NEW a \in Nat, NEW len \in Nat, Munmap(name, a, len) PROVE HeapInv'
<1> USE NPagesAssumption, RequestsAssumption, PageUpNat, DivNat DEF HeapInv, NPagesAssumption, RequestsAssumption, Pages, Start, End, OpSpan, Span, Busy, heapVars, enclaveVars, histVars, Unmapping
<1>1. HeapTypeOK'  BY DEF HeapTypeOK, Accesses, Names, Errors, Munmap, Go, WithAccess
<1>2. OpInv'  BY DEF OpInv, Munmap, Go, Contains
<1>3. BusyInv'  BY DEF BusyInv, SettledInv, Munmap, Go, WithAccess
<1>4. SettledInv'  BY DEF SettledInv, Munmap, Go, WithAccess
<1>5. LostInv'  BY DEF LostInv, Munmap, Go, Contains, WithAccess
<1>6. OwnInv'  BY DEF OwnInv, Munmap, Go, WithAccess
<1>7. RoomInv'  BY DEF RoomInv, Munmap, Go
<1>8. HoleInv'  BY DEF HeapTypeOK, HoleInv, Munmap, Go, Contains, WithAccess
<1> QED  BY <1>1, <1>2, <1>3, <1>4, <1>5, <1>6, <1>7, <1>8

\* TrimSgxPages preserves the invariant.
LEMMA TrimSgxPagesPreserves ==
    ASSUME HeapInv, TrimSgxPages PROVE HeapInv'
<1> USE NPagesAssumption, RequestsAssumption DEF HeapInv, NPagesAssumption, RequestsAssumption, Pages, Start, End, OpSpan, Span, Busy, heapVars, enclaveVars, histVars, Unmapping
<1>1. HeapTypeOK'  BY DEF HeapTypeOK, EpcStates, TrimSgxPages
<1>2. OpInv'  BY DEF OpInv, TrimSgxPages
<1>3. BusyInv'  BY DEF BusyInv, TrimSgxPages
<1>4. SettledInv'  BY DEF SettledInv, TrimSgxPages
<1>5. LostInv'  BY DEF OpInv, LostInv, TrimSgxPages
<1>6. OwnInv'  BY DEF OwnInv, TrimSgxPages
<1>7. RoomInv'  BY DEF RoomInv, TrimSgxPages
<1>8. HoleInv'  BY DEF HoleInv, TrimSgxPages
<1> QED  BY <1>1, <1>2, <1>3, <1>4, <1>5, <1>6, <1>7, <1>8

\* AcceptTrim preserves the invariant.
LEMMA AcceptTrimPreserves ==
    ASSUME HeapInv, AcceptTrim PROVE HeapInv'
<1> USE NPagesAssumption, RequestsAssumption DEF HeapInv, NPagesAssumption, RequestsAssumption, Pages, Start, End, OpSpan, Span, Busy, heapVars, enclaveVars, histVars, Unmapping
<1>1. HeapTypeOK'  BY DEF HeapTypeOK, EpcStates, AcceptTrim
<1>2. OpInv'  BY DEF OpInv, AcceptTrim
<1>3. BusyInv'  BY DEF BusyInv, AcceptTrim
<1>4. SettledInv'  BY DEF SettledInv, AcceptTrim
<1>5. LostInv'  BY DEF LostInv, AcceptTrim
<1>6. OwnInv'  BY DEF OpInv, BusyInv, OwnInv, AcceptTrim
<1>7. RoomInv'  BY DEF RoomInv, AcceptTrim
<1>8. HoleInv'  BY DEF OpInv, BusyInv, HoleInv, AcceptTrim
<1> QED  BY <1>1, <1>2, <1>3, <1>4, <1>5, <1>6, <1>7, <1>8

\* MunmapHost preserves the invariant.
LEMMA MunmapHostPreserves ==
    ASSUME HeapInv, MunmapHost PROVE HeapInv'
<1> USE NPagesAssumption, RequestsAssumption DEF HeapInv, NPagesAssumption, RequestsAssumption, Pages, Start, End, OpSpan, Span, Busy, heapVars, enclaveVars, histVars, Unmapping
<1>1. HeapTypeOK'  BY DEF HeapTypeOK, OpInv, Accesses, Names, Errors, EpcStates, MunmapHost, RemovePages, HeapFinish, NoOp
<1>2. OpInv'  BY DEF OpInv, MunmapHost, HeapFinish, NoOp
<1>3. BusyInv'  BY DEF BusyInv, MunmapHost, HeapFinish
<1>4. SettledInv'  BY DEF BusyInv, SettledInv, MunmapHost, RemovePages
<1>5. LostInv'  BY DEF BusyInv, LostInv, MunmapHost, RemovePages, HeapFinish
<1>6. OwnInv'  BY DEF BusyInv, OwnInv, MunmapHost, HeapFinish
<1>7. RoomInv'  BY DEF RoomInv, MunmapHost, HeapFinish
<1>8. HoleInv'  BY DEF HeapTypeOK, OpInv, BusyInv, HoleInv, OwnInv, MunmapHost, HeapFinish, NoOp
<1> QED  BY <1>1, <1>2, <1>3, <1>4, <1>5, <1>6, <1>7, <1>8

\* A refused request preserves the invariant.
LEMMA RefusePreserves ==
    ASSUME HeapInv, pc = "idle", NEW e \in Errors, Refuse(e) PROVE HeapInv'
<1> USE DEF HeapInv, Refuse, OpSpan, Busy, heapVars, enclaveVars, histVars, Unmapping
<1>1. HeapTypeOK'  BY DEF HeapTypeOK
<1>2. OpInv' /\ BusyInv' /\ SettledInv'  BY DEF OpInv, BusyInv, SettledInv
<1>3. LostInv' /\ HoleInv' /\ OwnInv'  BY DEF LostInv, HoleInv, OwnInv
<1>4. RoomInv'  BY DEF RoomInv, Fits, Records, WithAccess
<1> QED  BY <1>1, <1>2, <1>3, <1>4

\* A request that changes nothing is a Refuse of an idle heap.
LEMMA RefusalsRefuse ==
    ASSUME NEW a \in Nat, NEW len \in Nat, NEW new \in Nat, NEW prot, NEW name,
           \/ BrkRefused(a) \/ MmapRefused(len, prot) \/ MprotectRefused(a, len, prot)
           \/ MunmapNothing(name, a, len) \/ MremapSame(a, len, new) \/ MremapRefused(a, len, new)
    PROVE  pc = "idle" /\ \E e \in Errors : Refuse(e)
BY DEF BrkRefused, MmapRefused, MprotectRefused, MunmapNothing, MremapSame, MremapRefused, Errors

\* Every syscall of the workload preserves the invariant.
LEMMA SyscallPreserves == ASSUME HeapInv, Syscall PROVE HeapInv'
<1> USE RequestsAssumption DEF RequestsAssumption
<1>1. ASSUME NEW a \in Addrs, BrkRefused(a) \/ BrkMove(a) \/ BrkGrow(a) PROVE HeapInv'
  BY <1>1, RefusalsRefuse, RefusePreserves, BrkMovePreserves, BrkGrowPreserves
<1>2. ASSUME NEW n \in Lens, NEW prot \in Prots, MmapRefused(n, prot) \/ Mmap(n, prot)
      PROVE HeapInv'
  BY <1>2, RefusalsRefuse, RefusePreserves, MmapPreserves
<1>3. ASSUME NEW a \in Addrs, NEW n \in Lens, NEW prot \in Prots,
             MprotectRefused(a, n, prot) \/ Mprotect(a, n, prot)
      PROVE HeapInv'
  BY <1>3, RefusalsRefuse, RefusePreserves, MprotectPreserves
<1>4. ASSUME NEW name \in {"munmap", "mremap"}, NEW a \in Nat, NEW n \in Nat,
             MunmapNothing(name, a, n) \/ Munmap(name, a, n)
      PROVE HeapInv'
  BY <1>4, RefusalsRefuse, RefusePreserves, MunmapPreserves
<1>5. ASSUME NEW a \in Addrs, NEW old \in Lens, NEW new \in Lens,
             MremapSame(a, old, new) \/ MremapShrink(a, old, new) \/ MremapRefused(a, old, new)
      PROVE HeapInv'
  <2>1. CASE MremapShrink(a, old, new)
    <3>1. a + new \in Nat /\ old - new \in Nat  BY <2>1 DEF MremapShrink
    <3> QED  BY <2>1, <3>1, <1>4 DEF MremapShrink
  <2>2. CASE MremapSame(a, old, new) \/ MremapRefused(a, old, new)
    BY <2>2, RefusalsRefuse, RefusePreserves
  <2> QED  BY <1>5, <2>1, <2>2
<1>6. ASSUME NEW a \in Addrs, NEW n \in Lens, MunmapNothing("munmap", a, n) \/ Munmap("munmap", a, n)
      PROVE HeapInv'
  BY <1>6, <1>4
<1> QED  BY <1>1, <1>2, <1>3, <1>5, <1>6 DEF Syscall

\* Every step preserves the invariant.
LEMMA HeapNextPreservesInv == HeapInv /\ [HeapNext]_keepVars => HeapInv'
<1>1. ASSUME HeapInv, UNCHANGED keepVars PROVE HeapInv'
  <2> USE <1>1 DEF HeapInv, keepVars, heapVars, enclaveVars, histVars, OpSpan, Busy, Unmapping
  <2>1. HeapTypeOK'  BY DEF HeapTypeOK
  <2>2. OpInv' /\ BusyInv' /\ SettledInv'  BY DEF OpInv, BusyInv, SettledInv
  <2>3. LostInv' /\ HoleInv' /\ OwnInv'  BY DEF LostInv, HoleInv, OwnInv
  <2>4. RoomInv'  BY DEF RoomInv, Fits, Records, WithAccess
  <2> QED  BY <2>1, <2>2, <2>3, <2>4
<1>2. ASSUME HeapInv, Step PROVE HeapInv'
  BY <1>2, MmapHostPreserves, MmapHostFailsPreserves, MmapGuestPreserves, MprotectHostPreserves,
     MprotectHostFailsPreserves, MprotectGuestPreserves, TrimSgxPagesPreserves,
     AcceptTrimPreserves, MunmapHostPreserves DEF Step
<1> QED  BY <1>1, <1>2, SyscallPreserves DEF HeapNext, HeapStopped

\* The invariant holds in every reachable state.
THEOREM HeapInvariantHolds == HeapSpec => []HeapInv
BY HeapInitEstablishesInv, HeapNextPreservesInv, PTL DEF HeapSpec

\* Type correctness (SgxHeap!HeapTypeOK): the break stays within the heap, and
\* every update of the ledger and of the pages within it.
THEOREM HeapTypeCorrect == HeapSpec => []HeapTypeOK
<1>1. HeapInv => HeapTypeOK  BY DEF HeapInv
<1> QED  BY <1>1, HeapInvariantHolds, PTL

\* Between syscalls every enclave page is mapped, accepted and in the ledger.
THEOREM PagesAlwaysAccounted == HeapSpec => []PagesAccounted
<1>1. HeapInv => PagesAccounted  BY DEF HeapInv, SettledInv, Busy, PagesAccounted
<1> QED  BY <1>1, HeapInvariantHolds, PTL

\* Between syscalls every claim of the ledger is accounted for.
THEOREM ClaimsAlwaysAccounted == HeapSpec => []ClaimsAccounted
<1>1. HeapInv => ClaimsAccounted  BY DEF HeapInv, OwnInv, Busy, ClaimsAccounted
<1> QED  BY <1>1, HeapInvariantHolds, PTL

\* No EACCEPT of the shim ever fails on an honest host.
THEOREM HonestHostAlwaysTrusted == HeapSpec => []HonestHostTrusted
<1>1. HeapInv => HonestHostTrusted  BY DEF HeapInv, OwnInv, HonestHostTrusted
<1> QED  BY <1>1, HeapInvariantHolds, PTL

\* What the workload owns has memory, except for pages of the break that are
\* lost or were unmapped.
THEOREM OwnedAlwaysBacked == HeapSpec => []OwnedBacked
<1>1. HeapInv => OwnedBacked
  <2> SUFFICES ASSUME HeapInv, pc = "idle", NEW p \in Pages, own[p] # "none", epc[p] \notin Accesses
               PROVE  own[p] = "brk" /\ p \in lost \cup holes
    BY DEF OwnedBacked
  <2> USE DEF HeapInv, Busy, Unmapping
  <2>1. epc[p] = "none"  BY DEF SettledInv
  <2>2. ledger[p] # "none" => p \in lost  BY <2>1 DEF LostInv
  <2>3. own[p] # "map"  BY <2>2 DEF HoleInv
  <2>4. own[p] = "brk" /\ p < brkMax  BY <2>3 DEF HeapTypeOK, OwnInv
  <2> QED  BY <2>2, <2>4 DEF HoleInv
<1> QED  BY <1>1, HeapInvariantHolds, PTL

\* Pages, ledger and what the workload was given agree between syscalls.
THEOREM HeapAlwaysAccounted == HeapSpec => []HeapAccounted
<1>1. PagesAccounted /\ ClaimsAccounted /\ OwnedBacked => HeapAccounted  BY DEF HeapAccounted
<1> QED  BY <1>1, PagesAlwaysAccounted, ClaimsAlwaysAccounted, OwnedAlwaysBacked, PTL

\* An honest host ends the keep only over lost pages.
THEOREM KeepOnlyEndsOverLost == HeapSpec => []KeepEndsOnlyOverLost
<1>1. HeapInv => KeepEndsOnlyOverLost  BY DEF HeapInv, LostInv, KeepEndsOnlyOverLost
<1> QED  BY <1>1, HeapInvariantHolds, PTL

\* mmap and brk are never about to map a page of a mapping the workload has, nor
\* one of its break that was not unmapped before brk moved back over it.
THEOREM NeverAliases == HeapSpec => NoAliasing
<1> DEFINE Step1 == pc = "idle" /\ pc' = "mmapHost" =>
                      \A p \in Span(op'.lo, op'.n) : own[p] = "none" \/ (own[p] = "brk" /\ p \in holes)
<1>1. ASSUME HeapInv, [HeapNext]_keepVars, pc = "idle", pc' = "mmapHost",
             NEW p \in Span(op'.lo, op'.n)
      PROVE  own[p] = "none" \/ (own[p] = "brk" /\ p \in holes)
  <2>1. p \in Pages /\ ledger[p] = "none" /\ UNCHANGED own
    <3>1. HeapInv'  BY <1>1, HeapNextPreservesInv
    <3>2. p \in Pages  BY <1>1, <3>1 DEF HeapInv, OpInv, OpSpan
    <3>3. ASSUME NEW a \in Addrs, BrkGrow(a) PROVE ledger[p] = "none" /\ UNCHANGED own
      BY <1>1, <3>2, <3>3 DEF BrkGrow, Go, Overlaps
    <3>4. ASSUME NEW n \in Lens, NEW prot \in Prots, Mmap(n, prot)
          PROVE ledger[p] = "none" /\ UNCHANGED own
      BY <1>1, <3>2, <3>4 DEF Mmap, Go, FindFreeBack, FreeAt, Overlaps
    <3>5. (\E a \in Addrs : BrkGrow(a)) \/ (\E n \in Lens, prot \in Prots : Mmap(n, prot))
      BY <1>1 DEF HeapNext, Syscall, Step, HeapStopped, keepVars, BrkRefused, BrkMove, MmapRefused,
         MprotectRefused, Mprotect, MunmapNothing, Munmap, MremapSame, MremapShrink, MremapRefused,
         MmapHost, MmapHostFails, MmapGuest, MprotectHost, MprotectHostFails, MprotectGuest,
         TrimSgxPages, AcceptTrim, MunmapHost, Refuse, HeapFinish, Go
    <3> QED  BY <3>2, <3>3, <3>4, <3>5
  <2>2. own[p] # "map"  BY <1>1, <2>1 DEF HeapInv, HoleInv, Unmapping, Busy
  <2>3. own[p] = "brk" => p < brkMax  BY <1>1, <2>1 DEF HeapInv, OwnInv
  <2> QED  BY <1>1, <2>1, <2>2, <2>3 DEF HeapInv, HeapTypeOK, HoleInv, Unmapping, Busy
<1>2. HeapInv /\ [HeapNext]_keepVars => [Step1]_keepVars  BY <1>1
<1> QED  BY <1>2, HeapInvariantHolds, PTL DEF HeapSpec, NoAliasing

-----------------------------------------------------------------------------
(* The thread.                                                             *)

USE NSSAAssumption, MaxSallyAssumption
    DEF NSSAAssumption, MaxSallyAssumption, Levels, Ops, Stopped

\* The initial state of a spawned thread satisfies the invariant.
LEMMA InitEstablishesInv == Init => ThreadInv
BY DEF Init, ThreadInv, TypeOK, DepthInv, ExtraInv, SsaInv, BlockInv, Leaving

\* Every step of the host, of the processor and of the shim preserves it.
LEMMA NextPreservesInv == ThreadInv /\ [Next]_vars => ThreadInv'
<1> SUFFICES ASSUME ThreadInv, [Next]_vars PROVE ThreadInv'
  OBVIOUS
<1> USE DEF ThreadInv, TypeOK, DepthInv, ExtraInv, SsaInv, BlockInv, Leaving, Dispatch
<1>1. CASE EEnter
  <2>1. TypeOK'  BY <1>1 DEF EEnter, Entered, Enabled
  <2>2. DepthInv'  BY <1>1 DEF EEnter, Entered, Enabled
  <2>3. ExtraInv'  BY <1>1 DEF EEnter, Entered, Enabled
  <2>4. SsaInv'  BY <1>1 DEF EEnter, Entered, Enabled
  <2>5. BlockInv'  BY <1>1 DEF EEnter, Entered, Enabled
  <2> QED  BY <2>1, <2>2, <2>3, <2>4, <2>5
<1>2. CASE EResume
  <2>1. TypeOK'  BY <1>2 DEF EResume
  <2>2. DepthInv'  BY <1>2 DEF EResume
  <2>3. ExtraInv'  BY <1>2 DEF EResume
  <2>4. SsaInv'  BY <1>2 DEF EResume
  <2>5. BlockInv'  BY <1>2 DEF EResume
  <2> QED  BY <2>1, <2>2, <2>3, <2>4, <2>5
<1>3. ASSUME NEW instr \in Ops, ExecTrap(instr) PROVE ThreadInv'
  <2>1. TypeOK'  BY <1>3 DEF ExecTrap, AexUD
  <2>2. DepthInv'  BY <1>3 DEF ExecTrap, AexUD
  <2>3. ExtraInv'  BY <1>3 DEF ExecTrap, AexUD
  <2>4. SsaInv'  BY <1>3 DEF ExecTrap, AexUD
  <2>5. BlockInv'  BY <1>3 DEF ExecTrap, AexUD
  <2> QED  BY <2>1, <2>2, <2>3, <2>4, <2>5
<1>4. CASE ExecFault
  <2>1. TypeOK'  BY <1>4 DEF ExecFault
  <2>2. DepthInv'  BY <1>4 DEF ExecFault
  <2>3. ExtraInv'  BY <1>4 DEF ExecFault
  <2>4. SsaInv'  BY <1>4 DEF ExecFault
  <2>5. BlockInv'  BY <1>4 DEF ExecFault
  <2> QED  BY <2>1, <2>2, <2>3, <2>4, <2>5
<1>5. ASSUME NEW r \in {"call", "exit"}, HandleSally(r) PROVE ThreadInv'
  <2>1. TypeOK'  BY <1>5 DEF HandleSally, AexUD
  <2>2. DepthInv'  BY <1>5 DEF HandleSally, AexUD
  <2>3. ExtraInv'  BY <1>5 DEF HandleSally, AexUD
  <2>4. SsaInv'  BY <1>5 DEF HandleSally, AexUD
  <2>5. BlockInv'  BY <1>5 DEF HandleSally, AexUD
  <2> QED  BY <2>1, <2>2, <2>3, <2>4, <2>5
<1>6. CASE HandleReturn
  <2>1. TypeOK'  BY <1>6 DEF HandleReturn, Leave, Skipped
  <2>2. DepthInv'  BY <1>6 DEF HandleReturn, Leave, Skipped
  <2>3. ExtraInv'  BY <1>6 DEF HandleReturn, Leave, Skipped
  <2>4. SsaInv'  BY <1>6 DEF HandleReturn, Leave, Skipped
  <2>5. BlockInv'  BY <1>6 DEF HandleReturn, Leave, Skipped
  <2> QED  BY <2>1, <2>2, <2>3, <2>4, <2>5
<1>7. CASE Finish
  <2>1. TypeOK'  BY <1>7 DEF Finish, Skipped
  <2>2. DepthInv'  BY <1>7 DEF Finish, Skipped
  <2>3. ExtraInv'  BY <1>7 DEF Finish, Skipped
  <2>4. SsaInv'  BY <1>7 DEF Finish, Skipped
  <2>5. BlockInv'  BY <1>7 DEF Finish, Skipped
  <2> QED  BY <2>1, <2>2, <2>3, <2>4, <2>5
<1>8. CASE DecideContinue
  <2>1. TypeOK'  BY <1>8 DEF DecideContinue, shimVars, NextHow, NextCssa, MustServe
  <2>2. DepthInv'  BY <1>8 DEF DecideContinue, shimVars, NextHow, NextCssa, MustServe
  <2>3. ExtraInv'  BY <1>8 DEF DecideContinue, shimVars, NextHow, NextCssa, MustServe
  <2>4. SsaInv'  BY <1>8 DEF DecideContinue, shimVars, NextHow, NextCssa, MustServe
  <2>5. BlockInv'  BY <1>8 DEF DecideContinue, shimVars, NextHow, NextCssa, MustServe
  <2> QED  BY <2>1, <2>2, <2>3, <2>4, <2>5
<1>9. CASE DecideServe
  <2>1. TypeOK'  BY <1>9 DEF DecideServe, NextHow, NextCssa, MustServe, Evaluated
  <2>2. DepthInv'  BY <1>9 DEF DecideServe, NextHow, NextCssa, MustServe, Evaluated
  <2>3. ExtraInv'  BY <1>9 DEF DecideServe, NextHow, NextCssa, MustServe, Evaluated
  <2>4. SsaInv'  BY <1>9 DEF DecideServe, NextHow, NextCssa, MustServe, Evaluated
  <2>5. BlockInv'  BY <1>9 DEF DecideServe, NextHow, NextCssa, MustServe, Evaluated
  <2> QED  BY <2>1, <2>2, <2>3, <2>4, <2>5
<1>10. CASE DecideFail
  <2>1. TypeOK'  BY <1>10 DEF DecideFail, NextHow, NextCssa, MustServe, Evaluated
  <2>2. DepthInv'  BY <1>10 DEF DecideFail, NextHow, NextCssa, MustServe, Evaluated
  <2>3. ExtraInv'  BY <1>10 DEF DecideFail, NextHow, NextCssa, MustServe, Evaluated
  <2>4. SsaInv'  BY <1>10 DEF DecideFail, NextHow, NextCssa, MustServe, Evaluated
  <2>5. BlockInv'  BY <1>10 DEF DecideFail, NextHow, NextCssa, MustServe, Evaluated
  <2> QED  BY <2>1, <2>2, <2>3, <2>4, <2>5
<1>11. CASE DecidePanic
  <2>1. TypeOK'  BY <1>11 DEF DecidePanic, shimVars, NextHow
  <2>2. DepthInv'  BY <1>11 DEF DecidePanic, shimVars, NextHow
  <2>3. ExtraInv'  BY <1>11 DEF DecidePanic, shimVars, NextHow
  <2>4. SsaInv'  BY <1>11 DEF DecidePanic, shimVars, NextHow
  <2>5. BlockInv'  BY <1>11 DEF DecidePanic, shimVars, NextHow
  <2> QED  BY <2>1, <2>2, <2>3, <2>4, <2>5
<1>12. CASE UNCHANGED vars
  BY <1>12 DEF vars, hostVars, shimVars
<1> QED
  BY <1>1, <1>2, <1>3, <1>4, <1>5, <1>6, <1>7, <1>8, <1>9, <1>10, <1>11, <1>12 DEF Next, Enclave, Host, Done

\* The invariant holds in every reachable state.
THEOREM InvariantHolds == Spec => []ThreadInv
BY InitEstablishesInv, NextPreservesInv, PTL DEF Spec

\* Type correctness of the thread's state (SgxThread!TypeOK).
THEOREM TypeCorrect == Spec => []TypeOK
<1>1. ThreadInv => TypeOK  BY DEF ThreadInv
<1> QED  BY <1>1, InvariantHolds, PTL

\* The host's count of the CSSA never drifts from the processor's, for any
\* number of host calls per trap (thread.rs, "Keep track of the CSSA").
THEOREM CssaNeverDrifts == Spec => []CssaTracked
<1>1. ThreadInv => CssaTracked
  BY DEF ThreadInv, TypeOK, DepthInv, CssaTracked
<1> QED  BY <1>1, InvariantHolds, PTL

\* The shim never spins in _start, never exhausts its SSA frames, and the host
\* panics on nothing but a foreign exception of the workload.
THEOREM NeverDeadEnds == Spec => []NoDeadEnds
<1>1. ThreadInv => NoDeadEnds
  BY DEF ThreadInv, TypeOK, DepthInv, NoDeadEnds
<1> QED  BY <1>1, InvariantHolds, PTL

\* ERESUME never returns to an instruction that would trap again.
THEOREM ResumesAlwaysPastTrap == Spec => []ResumesPastTrap
<1>1. ThreadInv => ResumesPastTrap
  BY DEF ThreadInv, TypeOK, DepthInv, SsaInv, Leaving, ResumesPastTrap
<1> QED  BY <1>1, InvariantHolds, PTL

\* A step of the thread is a step of HostCall or leaves it unchanged.
LEMMA StepSimulates == ThreadInv /\ [Next]_vars => [Service!Next]_(Service!callVars)
<1> SUFFICES ASSUME ThreadInv, [Next]_vars PROVE [Service!Next]_(Service!callVars)
  OBVIOUS
<1> USE DEF Service!Next, Service!Call, Service!Serve, Service!Return, Service!Stop, Service!callVars
<1>1. CASE EEnter
  BY <1>1 DEF EEnter
<1>2. CASE EResume
  BY <1>2 DEF EResume, ThreadInv, TypeOK, DepthInv, SsaInv, BlockInv, Leaving
<1>3. ASSUME NEW instr \in Ops, ExecTrap(instr) PROVE [Service!Next]_(Service!callVars)
  BY <1>3 DEF ExecTrap, AexUD
<1>4. CASE ExecFault
  BY <1>4 DEF ExecFault
<1>5. ASSUME NEW r \in {"call", "exit"}, HandleSally(r) PROVE [Service!Next]_(Service!callVars)
  BY <1>5 DEF HandleSally, AexUD, ThreadInv, TypeOK, DepthInv, BlockInv, Dispatch
<1>6. CASE HandleReturn
  BY <1>6 DEF HandleReturn, Leave
<1>7. CASE Finish
  BY <1>7 DEF Finish
<1>8. CASE DecideContinue
  BY <1>8 DEF DecideContinue, shimVars
<1>9. CASE DecideServe
  BY <1>9 DEF DecideServe, NextHow, NextCssa, MustServe, Evaluated, ThreadInv, TypeOK, DepthInv, BlockInv
<1>10. CASE DecideFail
  BY <1>10 DEF DecideFail
<1>11. CASE DecidePanic
  BY <1>11 DEF DecidePanic
<1>12. CASE UNCHANGED vars
  BY <1>12 DEF vars, hostVars, shimVars
<1> QED
  BY <1>1, <1>2, <1>3, <1>4, <1>5, <1>6, <1>7, <1>8, <1>9, <1>10, <1>11, <1>12 DEF Next, Enclave, Host, Done

\* Every sally is served exactly once before the handler continues, and the
\* block is evaluated at no other exit: the thread implements HostCall.
THEOREM ImplementsHostCall == Spec => ServiceSpec
<1>1. Init => Service!Init
  BY DEF Init, Service!Init
<1> QED  BY <1>1, StepSimulates, InvariantHolds, PTL DEF Spec, ServiceSpec, Service!Spec
=============================================================================
