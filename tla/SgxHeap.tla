------------------------------- MODULE SgxHeap -------------------------------
(***************************************************************************)
(* The dynamic memory of an SGX keep: the shim's heap (program break and   *)
(* ledger), the memory syscalls of its handler, and the enclave pages and  *)
(* mappings that the host's enarxcalls and the ENCLU instructions change.  *)
(* A syscall is several steps, because each enarxcall leaves the enclave   *)
(* and may fail there; HEAP stays write-locked from the first to the last, *)
(* so no two syscalls overlap.                                             *)
(*                                                                         *)
(* Addresses and lengths of requests are in bytes, everything the shim     *)
(* keeps is in pages.  The heap's pages are numbered from 1.               *)
(***************************************************************************)
EXTENDS Integers, FiniteSets

CONSTANTS
    NPages,     \* pages between ENARX_EXEC_END and the end of the enclave
    PageSize,   \* bytes of a page
    Capacity,   \* records the ledger can hold (4094 in the code)
    Addrs,      \* addresses the workload passes, in bytes
    Lens,       \* lengths the workload passes, in bytes
    Prots       \* protections the workload passes

ASSUME NPagesAssumption == NPages \in Nat \ {0}
ASSUME PageSizeAssumption == PageSize \in Nat \ {0}
ASSUME CapacityAssumption == Capacity \in Nat
ASSUME RequestsAssumption ==
    /\ Addrs \subseteq Nat /\ Lens \subseteq Nat
    /\ Prots \subseteq {"N", "R", "W", "X", "RW", "RX", "WX", "RWX"}

VARIABLES
    pc,         \* where the syscall under way stands
    op,         \* that syscall: its name, pages, access and result
    brk,        \* Heap.brk
    brkMax,     \* Heap.brk_max
    ledger,     \* Heap.ledger: the access of every mapped page
    vma,        \* host: the pages with a mapping of the enclave's file
    epc,        \* host and CPU: the state of every enclave page
    own,        \* history: what the workload was given and has not returned
    lost,       \* history: pages claimed without memory (see MmapHostFails)
    holes,      \* history: pages unmapped from below brk_max (see MunmapHost)
    ret         \* error of the last syscall

heapVars == <<brk, brkMax, ledger>>
enclaveVars == <<vma, epc>>
histVars == <<lost, holes>>
keepVars == <<pc, op, heapVars, enclaveVars, own, histVars, ret>>

Start == 1
End == NPages + 1
Pages == Start .. NPages

Accesses == {"R", "RW", "RX"}
Names == {"none", "brk", "mmap", "mprotect", "munmap", "mremap"}
Errors == {"none", "ENOMEM", "EINVAL", "EACCES", "ENOTSUP"}

\* A page of the enclave: absent, usable with some access, restricted (EMODPR)
\* or trimmed (EMODT) by the host and not yet accepted, trimmed and accepted.
EpcStates == Accesses \cup {"none", "restricted", "trim", "trimmed"}

HeapTypeOK ==
    /\ pc \in {"idle", "mmapHost", "acceptCopy", "mprotectHost", "accept",
               "trim", "acceptTrim", "munmapHost", "attacked", "dead"}
    /\ op \in [name : Names, lo : Nat, n : Nat, prot : Accesses, err : Errors]
    /\ brk \in Start .. End /\ brkMax \in Start .. End
    /\ ledger \in [Pages -> Accesses \cup {"none"}]
    /\ vma \subseteq Pages
    /\ epc \in [Pages -> EpcStates]
    /\ own \in [Pages -> {"none", "brk", "map"}]
    /\ lost \subseteq Pages /\ holes \subseteq Pages
    /\ ret \in Errors

-----------------------------------------------------------------------------
(* Pages, spans and the ledger.                                            *)

\* (v + Page::SIZE - 1) / Page::SIZE.
PageUp(bytes) == (bytes + PageSize - 1) \div PageSize

\* The pages of a range, of the syscall under way.
Span(lo, n) == lo .. lo + n - 1
OpSpan == Span(op.lo, op.n)

\* is_prot_allowed.
ProtAllowed(prot) == prot \in Accesses

\* prot | PROT_READ.
WithRead(prot) ==
    CASE prot \in {"N", "R"}   -> "R"
      [] prot \in {"W", "RW"}  -> "RW"
      [] prot \in {"X", "RX"}  -> "RX"
      [] OTHER                 -> "RWX"

\* Ledger::contains: the whole range is mapped; overlaps: part of it is.
ContainsAny(lo, n) == Span(lo, n) \subseteq Pages /\ \E p \in Span(lo, n) : ledger[p] # "none"
Contains(lo, n) == \A p \in Span(lo, n) : p \in Pages /\ ledger[p] # "none"
Overlaps(lo, n) == \E p \in Span(lo, n) : p \in Pages /\ ledger[p] # "none"

\* Ledger::map and unmap: one record per maximal run of equal access; an
\* update that needs more records than there is room for is refused.
WithAccess(lo, n, access) ==
    [p \in Pages |-> IF p \in Span(lo, n) THEN access ELSE ledger[p]]
Records(l) == {p \in Pages : l[p] # "none" /\ (p > Start => l[p - 1] # l[p])}
Fits(l) == Cardinality(Records(l)) <= Capacity

\* Ledger::find_free_back: the highest free range of n pages.
FreeAt(n) == {a \in Pages : Span(a, n) \subseteq Pages /\ ~Overlaps(a, n)}
FindFreeBack(n, a) == a \in FreeAt(n) /\ \A b \in FreeAt(n) : b <= a

-----------------------------------------------------------------------------
(* Results.  A syscall that ends hands its result to the workload.         *)

NoOp == [name |-> "none", lo |-> Start, n |-> 0, prot |-> "R", err |-> "none"]

HeapFinish(err) == pc' = "idle" /\ op' = NoOp /\ ret' = err

\* Refused before anything changed.
Refuse(err) ==
    /\ pc' = "idle" /\ ret' = err
    /\ UNCHANGED <<op, heapVars, enclaveVars, own, histVars>>

\* The workload's view after a break it asked for was granted.
BreakAt(next) ==
    [p \in Pages |-> IF p < next THEN IF own[p] = "none" THEN "brk" ELSE own[p]
                     ELSE IF own[p] = "brk" THEN "none" ELSE own[p]]

\* The syscall goes on with its next step.
Go(step, name, lo, n, prot) ==
    /\ pc' = step
    /\ op' = [name |-> name, lo |-> lo, n |-> n, prot |-> prot, err |-> "none"]
    /\ ret' = "none"

-----------------------------------------------------------------------------
(* brk.                                                                    *)

InHeap(next) == next >= Start /\ next < End

\* Heap::brk refuses: out of the heap, in the way of a mapping, or the ledger
\* is full.  The caller gets self.brk.
BrkRefused(addr) ==
    LET next == PageUp(addr) IN
    /\ pc = "idle"
    /\ \/ ~InHeap(next)
       \/ next > brkMax /\ Overlaps(brkMax, next - brkMax)
       \/ next > brkMax /\ ~Fits(WithAccess(brkMax, next - brkMax, "RW"))
    /\ Refuse("none")

\* Up to the maximum reached the break just moves.
BrkMove(addr) ==
    LET next == PageUp(addr) IN
    /\ pc = "idle" /\ InHeap(next) /\ next <= brkMax
    /\ brk' = next
    /\ own' = BreakAt(next)
    /\ HeapFinish("none")
    /\ UNCHANGED <<brkMax, ledger, enclaveVars, histVars>>

\* Beyond it new pages are reserved and brk_max moves; self.brk does not.  The
\* host is asked for the pages next.
BrkGrowBlind(addr) ==
    LET next == PageUp(addr) IN
    /\ pc = "idle" /\ InHeap(next) /\ next > brkMax
    /\ Fits(WithAccess(brkMax, next - brkMax, "RW"))
    /\ ledger' = WithAccess(brkMax, next - brkMax, "RW")
    /\ brkMax' = next
    /\ Go("mmapHost", "brk", brkMax, next - brkMax, "RW")
    /\ UNCHANGED <<brk, enclaveVars, own, histVars>>
BrkGrowUnrecorded(addr) ==
    LET next == PageUp(addr) IN
    /\ pc = "idle" /\ InHeap(next) /\ next > brkMax
    /\ ~Overlaps(brkMax, next - brkMax)
    /\ brkMax' = next
    /\ Go("mmapHost", "brk", brkMax, next - brkMax, "RW")
    /\ UNCHANGED <<brk, ledger, enclaveVars, own, histVars>>
BrkGrow(addr) ==
    LET next == PageUp(addr) IN
    /\ pc = "idle" /\ InHeap(next) /\ next > brkMax
    /\ ~Overlaps(brkMax, next - brkMax)
    /\ Fits(WithAccess(brkMax, next - brkMax, "RW"))
    /\ ledger' = WithAccess(brkMax, next - brkMax, "RW")
    /\ brkMax' = next
    /\ Go("mmapHost", "brk", brkMax, next - brkMax, "RW")
    /\ UNCHANGED <<brk, enclaveVars, own, histVars>>

-----------------------------------------------------------------------------
(* mmap.                                                                   *)

\* Refused: a zero length stands for every form of the call that is not an
\* anonymous private mapping at an address of the shim's choice.
MmapRefused(len, prot) ==
    /\ pc = "idle"
    /\ \/ len = 0 /\ Refuse("ENOTSUP")
       \/ len > 0 /\ ~ProtAllowed(WithRead(prot)) /\ Refuse("EACCES")
       \/ /\ len > 0 /\ ProtAllowed(WithRead(prot))
          /\ \A a \in Pages : FindFreeBack(PageUp(len), a)
                                => ~Fits(WithAccess(a, PageUp(len), WithRead(prot)))
          /\ Refuse("ENOMEM")

\* The highest free range is reserved and the host is asked to map it.
Mmap(len, prot) ==
    /\ pc = "idle" /\ len > 0 /\ ProtAllowed(WithRead(prot))
    /\ \E a \in Pages :
          /\ FindFreeBack(PageUp(len), a)
          /\ Fits(WithAccess(a, PageUp(len), WithRead(prot)))
          /\ ledger' = WithAccess(a, PageUp(len), WithRead(prot))
          /\ Go("mmapHost", "mmap", a, PageUp(len), WithRead(prot))
    /\ UNCHANGED <<brk, brkMax, enclaveVars, own, histVars>>

\* What the workload owns once the syscall under way has succeeded.
OwnAfterMap == IF op.name = "brk" THEN BreakAt(op.lo + op.n)
               ELSE [p \in Pages |-> IF p \in OpSpan THEN "map" ELSE own[p]]

\* MmapHost, shared by brk and mmap: the enclave's file is mapped onto the
\* range,
MmapHost ==
    /\ pc = "mmapHost"
    /\ vma' = vma \cup OpSpan
    /\ pc' = "acceptCopy"
    /\ UNCHANGED <<op, heapVars, epc, own, histVars, ret>>

\* ... or the host's mmap(2) fails, and the syscall returns its error.  What
\* the ledger and brk_max already claim stays claimed.
MmapHostFails ==
    /\ pc = "mmapHost"
    /\ lost' = lost \cup OpSpan
    /\ HeapFinish("ENOMEM")
    /\ UNCHANGED <<heapVars, enclaveVars, own, holes>>

\* mmap_guest: each page is added by the kernel on first touch (EAUG) and
\* EACCEPTCOPY initialises it; a page that is already there is refused.  A
\* mapping that is not read-write goes on to mprotect_unlocked.
MmapGuest ==
    /\ pc = "acceptCopy"
    /\ LET fresh == \A p \in OpSpan : p \in vma /\ epc[p] = "none"
       IN  /\ epc' = [p \in Pages |-> IF fresh /\ p \in OpSpan THEN op.prot ELSE epc[p]]
           /\ IF fresh /\ op.prot = "RW"
              THEN HeapFinish("none") /\ own' = OwnAfterMap
              ELSE /\ pc' = IF fresh THEN "mprotectHost" ELSE "attacked"
                   /\ UNCHANGED <<op, ret, own>>
    /\ lost' = lost \ OpSpan /\ holes' = holes \ OpSpan
    /\ UNCHANGED <<heapVars, vma>>

-----------------------------------------------------------------------------
(* mprotect.                                                               *)

MprotectRefused(addr, len, prot) ==
    /\ pc = "idle"
    /\ \/ (addr % PageSize # 0 \/ PageUp(len) = 0) /\ Refuse("EINVAL")
       \/ /\ addr % PageSize = 0 /\ PageUp(len) > 0
          /\ ~ProtAllowed(prot) /\ Refuse("EACCES")
       \/ /\ addr % PageSize = 0 /\ PageUp(len) > 0 /\ ProtAllowed(prot)
          /\ ~Contains(addr \div PageSize, PageUp(len))
          /\ Refuse("ENOMEM")

Mprotect(addr, len, prot) ==
    /\ pc = "idle"
    /\ addr % PageSize = 0 /\ PageUp(len) > 0 /\ ProtAllowed(prot)
    /\ Contains(addr \div PageSize, PageUp(len))
    /\ Go("mprotectHost", "mprotect", addr \div PageSize, PageUp(len), prot)
    /\ UNCHANGED <<heapVars, enclaveVars, own, histVars>>

\* MprotectHost: mprotect(2) needs the whole range mapped; then every page is
\* restricted to read access, which ends the keep if a page is missing.
MprotectHost ==
    /\ pc = "mprotectHost" /\ OpSpan \subseteq vma
    /\ LET present == \A p \in OpSpan : epc[p] # "none"
       IN  /\ epc' = [p \in Pages |-> IF present /\ p \in OpSpan THEN "restricted" ELSE epc[p]]
           /\ pc' = IF present THEN "accept" ELSE "dead"
    /\ UNCHANGED <<op, heapVars, vma, own, histVars, ret>>

TakesNothingBack == FALSE
TakesBack == op.name = "mmap" /\ Fits(WithAccess(op.lo, op.n, "none"))

\* mprotect(2) fails on the host.  An mprotect returns the error; an mmap takes
\* its mapping back first (munmap_unlocked), if the ledger lets it.
MprotectHostFails ==
    /\ pc = "mprotectHost"
    /\ IF TakesBack
       THEN /\ ledger' = WithAccess(op.lo, op.n, "none")
            /\ op' = [op EXCEPT !.err = "ENOMEM"]
            /\ pc' = "trim" /\ UNCHANGED ret
       ELSE HeapFinish("ENOMEM") /\ UNCHANGED ledger
    /\ UNCHANGED <<brk, brkMax, enclaveVars, own, histVars>>

\* The access the ledger records after mprotect; a refused update is ignored.
Protected == IF Fits(WithAccess(op.lo, op.n, op.prot)) THEN WithAccess(op.lo, op.n, op.prot)
             ELSE ledger

\* The rest of mprotect_unlocked: EACCEPT of the restriction, EMODPE to the
\* access asked for, and the ledger.
MprotectGuest ==
    /\ pc = "accept"
    /\ LET good == \A p \in OpSpan : epc[p] = "restricted"
       IN  /\ epc' = [p \in Pages |-> IF good /\ p \in OpSpan THEN op.prot ELSE epc[p]]
           /\ ledger' = IF good THEN Protected ELSE ledger
           /\ own' = IF good /\ op.name = "mmap" THEN OwnAfterMap ELSE own
           /\ pc' = IF good THEN "idle" ELSE "attacked"
           /\ op' = IF good THEN NoOp ELSE op
    /\ ret' = "none"
    /\ UNCHANGED <<brk, brkMax, vma, histVars>>

-----------------------------------------------------------------------------
(* munmap and mremap.                                                      *)

\* munmap_unlocked up to the ledger: refused, nothing to do, the ledger is
\* full, or the range is unmapped and the host is to trim its pages.  mremap
\* ignores what munmap returns (`quiet').
MunmapNothing(name, addr, len) ==
    /\ pc = "idle"
    /\ LET lo == addr \div PageSize
           n == PageUp(len)
           quiet(e) == IF name = "mremap" THEN "none" ELSE e
       IN  \/ (addr % PageSize # 0 \/ n = 0) /\ Refuse(quiet("EINVAL"))
           \/ /\ addr % PageSize = 0 /\ n > 0 /\ ~Contains(lo, n)
              /\ Refuse("none")
           \/ /\ addr % PageSize = 0 /\ n > 0 /\ Contains(lo, n)
              /\ ~Fits(WithAccess(lo, n, "none"))
              /\ Refuse(quiet("ENOMEM"))

Munmap(name, addr, len) ==
    /\ pc = "idle"
    /\ LET lo == addr \div PageSize
           n == PageUp(len)
       IN  /\ addr % PageSize = 0 /\ n > 0 /\ Contains(lo, n)
           /\ Fits(WithAccess(lo, n, "none"))
           /\ ledger' = WithAccess(lo, n, "none")
           /\ Go("trim", name, lo, n, "R")
    /\ UNCHANGED <<brk, brkMax, enclaveVars, own, histVars>>

\* TrimSgxPages: the host marks the pages; it cannot if one is missing, and
\* then the error ends the keep.
TrimSgxPages ==
    /\ pc = "trim"
    /\ LET present == \A p \in OpSpan : epc[p] # "none"
       IN  /\ epc' = [p \in Pages |-> IF present /\ p \in OpSpan THEN "trim" ELSE epc[p]]
           /\ pc' = IF present THEN "acceptTrim" ELSE "dead"
    /\ UNCHANGED <<op, heapVars, vma, own, histVars, ret>>

\* EACCEPT of the trimmed pages.
AcceptTrim ==
    /\ pc = "acceptTrim"
    /\ LET marked == \A p \in OpSpan : epc[p] = "trim"
       IN  /\ epc' = [p \in Pages |-> IF marked /\ p \in OpSpan THEN "trimmed" ELSE epc[p]]
           /\ pc' = IF marked THEN "munmapHost" ELSE "attacked"
    /\ UNCHANGED <<op, heapVars, vma, own, histVars, ret>>

\* MunmapHost: the mapping and the accepted pages go, and the syscall ends.
\* Pages below brk_max stay below it: brk moves over such a hole without a new
\* claim.  An mmap that is undone returns nothing the workload had.
RemovePages == [p \in Pages |-> IF p \in OpSpan /\ epc[p] = "trimmed" THEN "none" ELSE epc[p]]

MunmapHost ==
    /\ pc = "munmapHost"
    /\ vma' = vma \ OpSpan
    /\ epc' = RemovePages
    /\ own' = [p \in Pages |-> IF op.name # "mmap" /\ p \in OpSpan THEN "none" ELSE own[p]]
    /\ holes' = holes \cup {p \in OpSpan : p < brkMax}
    /\ HeapFinish(op.err)
    /\ UNCHANGED <<heapVars, lost>>

\* Handler::mremap: a shrinking one unmaps the tail, a growing one asks mmap
\* for a writable and executable mapping, which this shim never grants.  A
\* fixed address, or a resize without MREMAP_MAYMOVE, is refused first.
MremapSame(addr, old, new) ==
    pc = "idle" /\ new = old /\ Refuse("none")
MremapShrink(addr, old, new) ==
    /\ new < old
    /\ \/ Munmap("mremap", addr + new, old - new)
       \/ MunmapNothing("mremap", addr + new, old - new)
MremapRefused(addr, old, new) ==
    /\ pc = "idle"
    /\ \/ Refuse("ENOTSUP")
       \/ new > old /\ ~ProtAllowed("RWX") /\ Refuse("EACCES")

-----------------------------------------------------------------------------
HeapInit ==
    /\ pc = "idle"
    /\ op = NoOp
    /\ brk = Start /\ brkMax = Start
    /\ ledger = [p \in Pages |-> "none"]
    /\ vma = {} /\ epc = [p \in Pages |-> "none"]
    /\ own = [p \in Pages |-> "none"] /\ lost = {} /\ holes = {}
    /\ ret = "none"

\* A syscall of the workload.
Syscall ==
    \/ \E a \in Addrs : BrkRefused(a) \/ BrkMove(a) \/ BrkGrow(a)
    \/ \E n \in Lens, prot \in Prots : MmapRefused(n, prot) \/ Mmap(n, prot)
    \/ \E a \in Addrs, n \in Lens, prot \in Prots :
          MprotectRefused(a, n, prot) \/ Mprotect(a, n, prot)
    \/ \E a \in Addrs, n \in Lens : MunmapNothing("munmap", a, n) \/ Munmap("munmap", a, n)
    \/ \E a \in Addrs, old, new \in Lens :
          MremapSame(a, old, new) \/ MremapShrink(a, old, new) \/ MremapRefused(a, old, new)

\* A step of the syscall under way: an enarxcall, or the shim's answer to it.
Step ==
    \/ MmapHost \/ MmapHostFails \/ MmapGuest
    \/ MprotectHost \/ MprotectHostFails \/ MprotectGuest
    \/ TrimSgxPages \/ AcceptTrim \/ MunmapHost

\* The keep is gone.
HeapStopped == pc \in {"attacked", "dead"} /\ UNCHANGED keepVars

HeapNext == Syscall \/ Step \/ HeapStopped

HeapSpec == HeapInit /\ [][HeapNext]_keepVars

-----------------------------------------------------------------------------
(* Properties.                                                             *)

\* Between syscalls no enclave page is left half-way (restricted or trimmed and
\* not accepted), mapped nowhere, or present without the ledger knowing: munmap
\* and the undoing of an mmap give back all they took.
PagesAccounted ==
    pc = "idle" =>
        \A p \in Pages : epc[p] # "none" =>
            epc[p] \in Accesses /\ ledger[p] # "none" /\ p \in vma

\* Between syscalls every page the ledger claims is the workload's, below
\* brk_max, or lost to a failed mmap of the host: a failed mmap or mprotect
\* leaves no other claim behind.
ClaimsAccounted ==
    pc = "idle" =>
        \A p \in Pages : ledger[p] # "none" => own[p] # "none" \/ p < brkMax \/ p \in lost

\* The shim never takes an honest host for an attacker, even one whose mmap(2)
\* and mprotect(2) fail: every EACCEPT and EACCEPTCOPY finds its page as asked.
HonestHostTrusted == pc # "attacked"

\* What the workload was given has memory behind it; only the break may cover
\* pages that have none, those of a failed mmap of the host and those the
\* workload unmapped from below brk_max.
OwnedBacked ==
    pc = "idle" =>
        \A p \in Pages :
            \/ own[p] = "none" \/ epc[p] \in Accesses
            \/ own[p] = "brk" /\ p \in lost \cup holes

\* The three together: whatever syscalls and host calls failed, the enclave's
\* pages, the shim's ledger and what the workload was given tell one story.
HeapAccounted == PagesAccounted /\ ClaimsAccounted /\ OwnedBacked

\* An honest host never has to end the keep, except over pages that are claimed
\* without memory since an mmap of the host failed.
KeepEndsOnlyOverLost == pc = "dead" => OpSpan \cap lost # {}

\* mmap, and brk beyond brk_max, hand out no page of a mapping the workload
\* has, and none of its break, with one exception: a page that was unmapped
\* from below brk_max, and that brk then moved back over, is the break's for
\* the workload and free for the ledger (heap.rs: brk claims nothing up to
\* brk_max, find_free_back looks at the ledger only).
NoAliasing ==
    [][ pc = "idle" /\ pc' = "mmapHost" =>
          \A p \in Span(op'.lo, op'.n) :
              own[p] = "none" \/ (own[p] = "brk" /\ p \in holes) ]_keepVars

-----------------------------------------------------------------------------
(* The inductive invariant behind the safety properties: what each page is *)
(* while the syscall under way is at each of its steps.                    *)

\* The pages of the syscall under way.
Busy(p) == pc # "idle" /\ p \in OpSpan

\* The syscall under way works on pages of the heap; only brk and mmap ask for
\* new pages, and brk asks for those just below brk_max.
OpInv ==
    /\ OpSpan \subseteq Pages
    /\ pc \in {"mmapHost", "acceptCopy"} => op.name \in {"brk", "mmap"}
    /\ pc \in {"mmapHost", "acceptCopy"} /\ op.name = "brk" =>
          op.prot = "RW" /\ op.lo + op.n = brkMax
    /\ pc \in {"mprotectHost", "accept"} => op.name \in {"mmap", "mprotect"}

\* The pages the syscall is working on.
BusyInv ==
    \A p \in Pages : Busy(p) =>
        /\ pc \in {"mmapHost", "acceptCopy"} => epc[p] = "none" /\ ledger[p] # "none"
        /\ pc = "acceptCopy" => p \in vma
        /\ pc \in {"mprotectHost", "accept"} => ledger[p] # "none"
        /\ pc = "mprotectHost" => epc[p] = "none" \/ (epc[p] \in Accesses /\ p \in vma)
        /\ pc = "accept" => epc[p] = "restricted" /\ p \in vma
        /\ pc \in {"trim", "acceptTrim", "munmapHost"} => ledger[p] = "none"
        /\ pc = "trim" => epc[p] = "none" \/ (epc[p] \in Accesses /\ p \in vma)
        /\ pc = "acceptTrim" => epc[p] = "trim"
        /\ pc = "munmapHost" => epc[p] = "trimmed"

\* All the others are settled.
SettledInv ==
    \A p \in Pages : ~Busy(p) /\ epc[p] # "none" =>
        epc[p] \in Accesses /\ ledger[p] # "none" /\ p \in vma

\* A claimed page without memory is lost, unless it is just being mapped.
LostInv ==
    /\ \A p \in Pages :
          /\ ledger[p] # "none" \/ (pc = "trim" /\ Busy(p))
          /\ epc[p] = "none"
          /\ ~(pc \in {"mmapHost", "acceptCopy"} /\ Busy(p))
          => p \in lost
    /\ pc = "dead" => OpSpan \cap lost # {}

\* The steps of a munmap, or of an mmap that is undone, after the ledger's.
Unmapping(p) == Busy(p) /\ pc \in {"trim", "acceptTrim", "munmapHost", "dead"}

\* An unclaimed page below brk_max is a hole, and no mapping has it; a mapping
\* has memory, and one under way takes no page of another.
HoleInv ==
    \A p \in Pages :
        /\ ledger[p] = "none" /\ p < brkMax => p \in holes \/ Unmapping(p)
        /\ ledger[p] = "none" /\ own[p] = "map" => Unmapping(p)
        /\ own[p] = "map" => p \notin lost
        /\ Busy(p) /\ op.name \in {"brk", "mmap"} => own[p] # "map"
        /\ Busy(p) /\ op.name = "mmap" /\ pc \in {"mprotectHost", "accept"} => p \notin lost

\* Who owns a claimed page.
OwnInv ==
    /\ \A p \in Pages :
          /\ own[p] = "brk" => p < brkMax
          /\ ledger[p] # "none" => \/ own[p] # "none" \/ p < brkMax \/ p \in lost
                                  \/ (Busy(p) /\ op.name = "mmap")
    /\ pc # "attacked"

\* The ledger is within its capacity, and was so before the mmap under way.
RoomInv ==
    /\ Fits(ledger)
    /\ pc \in {"mmapHost", "acceptCopy", "mprotectHost"} /\ op.name = "mmap" =>
          Fits(WithAccess(op.lo, op.n, "none"))

HeapInv == HeapTypeOK /\ OpInv /\ BusyInv /\ SettledInv /\ LostInv /\ HoleInv /\ OwnInv /\ RoomInv
=============================================================================
