------------------------------ MODULE KvmMemory ------------------------------
(***************************************************************************)
(* The memory of a KVM keep: the shim's EnarxAllocator (ballooning, the    *)
(* frame heap, mapping by halves), the brk, mmap, munmap and mremap of its *)
(* syscall handler, and the host's balloon call behind them.               *)
(*                                                                         *)
(* The allocator is locked for the whole of a request, so requests do not  *)
(* overlap; a request is several steps because each balloon call leaves    *)
(* the guest.  Requests are in bytes, everything else is in pages.  Frames *)
(* are numbered in the order in which the host provides them, virtual      *)
(* pages from 1: first the break's, then those of mmap.  One level of page *)
(* tables stands for the three the processor has below the root.           *)
(***************************************************************************)
EXTENDS Integers, Sequences, FiniteSets

CONSTANTS
    PageSize,   \* bytes of a page
    BrkPages,   \* bound: virtual pages the break may reach
    MmapPages,  \* bound: virtual pages mmap may hand out
    TableSpan,  \* virtual pages that share a page table
    HostSizes,  \* pages of memory the host may have for the keep
    Slots,      \* memory slots KVM has left for ballooning
    FirstAlloc, \* last_alloc of a new allocator
    MaxAlloc,   \* max_alloc: the largest balloon request
    Breaks,     \* addresses the workload passes to brk
    Addrs,      \* addresses it passes to munmap and mremap
    Lens        \* lengths it passes

ASSUME SizesAssumption ==
    /\ PageSize \in Nat \ {0} /\ TableSpan \in Nat \ {0}
    /\ BrkPages \in Nat /\ MmapPages \in Nat
    /\ HostSizes \subseteq Nat /\ Slots \in Nat
    /\ FirstAlloc \in Nat \ {0} /\ MaxAlloc \in Nat /\ MaxAlloc >= 2
    /\ Breaks \subseteq Nat /\ Addrs \subseteq Nat /\ Lens \subseteq Nat
\* The break and the mappings are terabytes apart: they share no table.
ASSUME ApartAssumption == BrkPages % TableSpan = 0

VARIABLES
    pc,         \* where the request under way stands
    op,         \* that request: its name and pages, the pages mremap copies
                \* from, and whether it drops them
    chunks,     \* allocate_and_map_memory's halves, outermost first
    cur, pos,   \* the half being mapped, the pages of it that are
    free,       \* EnarxAllocator.allocator: the free frames
    given,      \* frames provided so far (end_of_mem)
    lastAlloc,  \* EnarxAllocator.last_alloc
    size,       \* balloon's local last_size
    host,       \* pages of memory the host has left
    slots,      \* memory slots used (Keep.regions)
    pt,         \* page tables: the frame behind every page, 0 if unmapped
    tab,        \* the frame of every page table, 0 if there is none yet
    brkEnd,     \* BRK_LINE.end
    nextMmap,   \* NEXT_MMAP_RWLOCK
    own,        \* history: pages the workload was given and has not returned
    stray,      \* history: pages still mapped after a munmap of them
    left,       \* history: pages a failed request left mapped
    torn,       \* history: pages a shrinking mremap unmapped though it kept bytes of them
    ret         \* the error of the last request that ended

chunkVars == <<chunks, cur, pos>>
heapVars == <<free, given, lastAlloc>>
hostVars == <<host, slots>>
tableVars == <<pt, tab>>
lineVars == <<brkEnd, nextMmap>>
history == <<own, stray, left, torn>>
vars == <<pc, op, chunkVars, heapVars, size, hostVars, tableVars, lineVars, history, ret>>

BrkStart == 1
MmapStart == BrkPages + 1
VEnd == BrkPages + MmapPages
VPages == 1 .. VEnd
TableOf(p) == (p - 1) \div TableSpan
Tables == {TableOf(p) : p \in VPages}

Names == {"none", "brk", "mmap", "munmap", "mremap"}
Errors == {"none", "EINVAL", "ENOMEM", "ENOTSUP"}

-----------------------------------------------------------------------------
(* Pages, frames and the frame heap.                                       *)

\* align_up(bytes, 4096) / 4096, and Page::containing_address.
PageUp(bytes) == (bytes + PageSize - 1) \div PageSize
PageOf(addr) == addr \div PageSize

Span(at, n) == at .. at + n - 1

\* The pages mremap may copy from.
Ranges == {{}} \cup {PageOf(a) .. PageOf(a + n - 1) : a \in Addrs, n \in Lens}

Mapped == {p \in VPages : pt[p] # 0}

\* allocate_first_fit: the lowest run of m free frames.
Runs(m) == {f \in free : Span(f, m) \subseteq free}
FirstFit(m) == {f \in Runs(m) : \A g \in Runs(m) : f <= g}

\* The powers of two up to n, and 2^msb(n).
Powers(n) == {m \in 1 .. n : \E k \in 0 .. n : m = 2 ^ k}
Half(n) == CHOOSE m \in Powers(n) : \A k \in Powers(n) : k <= m

\* try_alloc_half: the largest of Half(n), Half(n) / 2, ..., 1 that fits.
FitsBest(n, m) == Runs(m) # {} /\ \A k \in Powers(n) : Runs(k) # {} => k <= m

\* unmap_memory works upward and stops at the first page that is not mapped.
Unmapped(lo, hi) == {p \in lo .. hi : \A q \in lo .. p : q \in Mapped}

\* The page tables without `pages'; their frames go back to the heap, which is
\* corrupt if a frame is returned that is free already.
Without(pages) == [p \in VPages |-> IF p \in pages THEN 0 ELSE pt[p]]
FramesOf(pages) == {pt[p] : p \in pages}
TwiceFree(pages) == \/ FramesOf(pages) \cap free # {}
                    \/ \E p, q \in pages : p # q /\ pt[p] = pt[q]

TypeOK ==
    /\ pc \in {"idle", "ensure", "balloon", "map", "undo", "finish",
               "panicked", "unimplemented", "faulted", "corrupt"}
    /\ op \in [name : Names, at : Nat, n : Nat, from : Ranges, drop : BOOLEAN]
    /\ chunks \in Seq([at : VPages, frame : Nat, n : Nat]) /\ cur \in Nat /\ pos \in Nat
    /\ given \in Nat /\ free \subseteq 1 .. given
    /\ lastAlloc \in Nat /\ size \in Nat
    /\ host \in Nat /\ slots \in 0 .. Slots
    /\ pt \in [VPages -> 0 .. given] /\ tab \in [Tables -> 0 .. given]
    /\ brkEnd \in BrkStart .. BrkStart + BrkPages
    /\ nextMmap \in MmapStart .. MmapStart + MmapPages
    /\ own \subseteq VPages /\ stray \subseteq VPages /\ left \subseteq VPages
    /\ torn \subseteq VPages
    /\ ret \in Errors

-----------------------------------------------------------------------------
(* Results and requests.                                                   *)

NoOp == [name |-> "none", at |-> BrkStart, n |-> 0, from |-> {}, drop |-> FALSE]

Refuse(err) ==
    /\ ret' = err
    /\ UNCHANGED <<pc, op, chunkVars, heapVars, size, hostVars, tableVars, lineVars, history>>

\* allocate_and_map_memory is entered; mremap then copies `from'.
Request(name, at, n, from, drop) ==
    /\ pc' = "ensure"
    /\ op' = [name |-> name, at |-> at, n |-> n, from |-> from, drop |-> drop]
    /\ chunks' = << >> /\ cur' = 0 /\ pos' = 0
    /\ ret' = "none"
    /\ UNCHANGED <<heapVars, size, hostVars, tableVars, lineVars, history>>

\* A munmap of the pages lo..hi, of which the workload gives up `gone'.
Unmap(lo, hi, gone) ==
    LET out == Unmapped(lo, hi)
    IN  /\ pc' = IF TwiceFree(out) THEN "corrupt" ELSE "idle"
        /\ pt' = Without(out)
        /\ free' = free \cup FramesOf(out)
        /\ own' = own \ gone
        /\ stray' = (stray \ out) \cup ((Mapped \cap gone) \ out)
        /\ torn' = (torn \cup (out \cap own)) \ gone
        /\ ret' = "none"
        /\ UNCHANGED <<op, chunkVars, given, lastAlloc, size, hostVars, tab, lineVars, left>>

-----------------------------------------------------------------------------
(* The syscalls.                                                           *)

\* brk(NULL) reports the break; below the start is refused; inside the last
\* page nothing changes; at the very end there is nothing to allocate, which
\* the allocator refuses (ZeroSize) and brk reports as ENOMEM.
BrkStay(addr) ==
    /\ pc = "idle"
    /\ \/ addr = 0 /\ Refuse("none")
       \/ addr > 0 /\ addr < BrkStart * PageSize /\ Refuse("EINVAL")
       \/ /\ addr >= BrkStart * PageSize
          /\ addr >= (brkEnd - 1) * PageSize /\ addr < brkEnd * PageSize
          /\ Refuse("none")
       \/ addr = brkEnd * PageSize /\ Refuse("ENOMEM")

\* Below the last page the rest is unmapped; a hole in it panics (unwrap).
BrkShrink(addr) ==
    LET lo == PageUp(addr)
        out == Unmapped(lo, brkEnd - 1)
    IN  /\ pc = "idle"
        /\ addr >= BrkStart * PageSize /\ addr < (brkEnd - 1) * PageSize
        /\ pc' = IF out # lo .. brkEnd - 1 THEN "panicked"
                 ELSE IF TwiceFree(out) THEN "corrupt" ELSE "idle"
        /\ pt' = Without(out)
        /\ free' = free \cup FramesOf(out)
        /\ brkEnd' = lo
        /\ own' = own \ (lo .. brkEnd - 1)
        /\ stray' = stray \ out
        /\ torn' = torn \ (lo .. brkEnd - 1)
        /\ ret' = "none"
        /\ UNCHANGED <<op, chunkVars, given, lastAlloc, size, hostVars, tab, nextMmap, left>>

BrkGrow(addr) ==
    /\ pc = "idle"
    /\ addr > brkEnd * PageSize
    /\ PageUp(addr) <= BrkStart + BrkPages
    /\ Request("brk", brkEnd, PageUp(addr) - brkEnd, {}, FALSE)

\* mmap of anonymous private memory at an address of the shim's choice; any
\* other form panics (unimplemented!).
MmapNothing == pc = "idle" /\ Refuse("ENOMEM")
MmapOther ==
    /\ pc = "idle" /\ pc' = "unimplemented"
    /\ UNCHANGED <<op, chunkVars, heapVars, size, hostVars, tableVars, lineVars, history, ret>>
Mmap(len) ==
    /\ pc = "idle" /\ len > 0
    /\ nextMmap + PageUp(len) <= MmapStart + MmapPages
    /\ Request("mmap", nextMmap, PageUp(len), {}, FALSE)

\* munmap ignores what unmap_memory returns.
Munmap(addr, len) ==
    /\ pc = "idle" /\ addr > 0
    /\ LET hi == IF len = 0 THEN PageOf(addr) - 1 ELSE PageOf(addr + len - 1)
       IN  Unmap(PageOf(addr), hi, PageOf(addr) .. hi)

\* Handler::mremap: the same size, another form, the tail is unmapped, or a new
\* mapping replaces the old one (which stays with MREMAP_DONTUNMAP).
MremapStay(old, new) ==
    /\ pc = "idle"
    /\ \/ new = old /\ Refuse("none")
       \/ Refuse("ENOTSUP")
MremapShrink(addr, old, new) ==
    /\ pc = "idle" /\ addr > 0 /\ new < old
    /\ LET hi == PageOf(addr + old - 1)
       IN  Unmap(PageOf(addr + new), hi, PageUp(addr + new) .. hi)
MremapGrow(addr, old, new, dontunmap) ==
    /\ pc = "idle" /\ addr > 0 /\ new > old
    /\ nextMmap + PageUp(new) <= MmapStart + MmapPages
    /\ Request("mremap", nextMmap, PageUp(new),
               IF old = 0 THEN {} ELSE PageOf(addr) .. PageOf(addr + old - 1), ~dontunmap)

-----------------------------------------------------------------------------
(* allocate_and_map_memory.                                                *)

\* Where the next half goes and how many pages are still without frames.
NextAt == IF chunks = << >> THEN op.at
          ELSE chunks[Len(chunks)].at + chunks[Len(chunks)].n
Rest == op.at + op.n - NextAt

\* balloon() is called, and returns to the loop of Ensure or to map_memory.
Caller == IF cur = 0 THEN "ensure" ELSE "map"
CallBalloon == pc' = "balloon" /\ size' = lastAlloc

\* `while free() < curr_size { balloon(); }'.
Ensure ==
    /\ pc = "ensure" /\ Cardinality(free) < Half(Rest)
    /\ CallBalloon
    /\ UNCHANGED <<op, chunkVars, heapVars, hostVars, tableVars, lineVars, history, ret>>

\* try_alloc_half gets a half, and the recursive call the rest; the innermost
\* one is mapped first.
AllocHalf ==
    /\ pc = "ensure" /\ Cardinality(free) >= Half(Rest)
    /\ \E m \in Powers(Rest) :
          /\ FitsBest(Rest, m)
          /\ \E f \in FirstFit(m) :
                /\ chunks' = Append(chunks, [at |-> NextAt, frame |-> f, n |-> m])
                /\ free' = free \ Span(f, m)
          /\ pc' = IF m = Rest THEN "map" ELSE "ensure"
          /\ cur' = IF m = Rest THEN Len(chunks) + 1 ELSE 0
          /\ pos' = 0
    /\ UNCHANGED <<op, given, lastAlloc, size, hostVars, tableVars, lineVars, history, ret>>

\* balloon's request, and when the host can grant it: Keep::map needs a memory
\* slot, the mapping memory.
Ask == IF 2 * size <= MaxAlloc THEN 2 * size ELSE MaxAlloc
Granted == Ask <= host /\ slots < Slots

Extend == free \cup (given + 1 .. given + Ask)

BalloonOk ==
    /\ pc = "balloon" /\ Granted
    /\ host' = host - Ask /\ slots' = slots + 1
    /\ free' = Extend
    /\ given' = given + Ask
    /\ lastAlloc' = Ask
    /\ pc' = Caller /\ size' = 0
    /\ UNCHANGED <<op, chunkVars, tableVars, lineVars, history, ret>>

SmallerNone == 0
SmallerNever == size
Smaller == size \div 2

\* Half as much is tried, down to a last_size of one page; then balloon gives
\* up.  The loop of Ensure ignores that, a missing page table does not.
BalloonErr ==
    /\ pc = "balloon" /\ ~Granted
    /\ size' = Smaller
    /\ pc' = IF Smaller > 0 THEN "balloon" ELSE IF Caller = "map" THEN "undo" ELSE "ensure"
    /\ UNCHANGED <<op, chunkVars, heapVars, hostVars, tableVars, lineVars, history, ret>>

\* map_memory, one page: its table is allocated if there is none, which may
\* call balloon; a page that is mapped already ends it.
MapPage ==
    /\ pc = "map"
    /\ LET c == chunks[cur]
           p == c.at + pos
           t == TableOf(p)
       IN  \/ /\ pt[p] # 0
              /\ pc' = "undo"
              /\ UNCHANGED <<chunkVars, free, size, tableVars>>
           \/ /\ pt[p] = 0 /\ tab[t] = 0 /\ free = {}
              /\ CallBalloon
              /\ UNCHANGED <<chunkVars, free, tableVars>>
           \/ /\ pt[p] = 0 /\ (tab[t] # 0 \/ free # {})
              /\ pt' = [pt EXCEPT ![p] = c.frame + pos]
              /\ \/ tab[t] # 0 /\ UNCHANGED <<tab, free>>
                 \/ /\ tab[t] = 0
                    /\ \E f \in FirstFit(1) : tab' = [tab EXCEPT ![t] = f] /\ free' = free \ {f}
              /\ pos' = IF pos + 1 < c.n THEN pos + 1 ELSE 0
              /\ cur' = IF pos + 1 < c.n THEN cur ELSE cur - 1
              /\ pc' = IF pos + 1 = c.n /\ cur = 1 THEN "finish" ELSE "map"
              /\ UNCHANGED <<chunks, size>>
    /\ UNCHANGED <<op, given, lastAlloc, hostVars, lineVars, history, ret>>

\* A half could not be mapped: its frames are freed, the halves behind it are
\* unmapped, the calls around it free theirs, and the request is refused.
\* Pages of the half that were mapped before the failure stay mapped.
FramesOfLast(ks) == LET k == Cardinality(ks) IN Span(chunks[k].frame, chunks[k].n)
FramesOfChunks(ks) == UNION {Span(chunks[k].frame, chunks[k].n) : k \in ks}
Behind == Unmapped(chunks[cur].at + chunks[cur].n, op.at + op.n - 1)
Undo ==
    /\ pc = "undo"
    /\ pt' = Without(Behind)
    /\ free' = free \cup FramesOfChunks(1 .. cur) \cup FramesOf(Behind)
    /\ left' = left \cup Span(chunks[cur].at, pos)
    /\ pc' = "idle" /\ op' = NoOp
    /\ chunks' = << >> /\ cur' = 0 /\ pos' = 0
    /\ ret' = "ENOMEM"
    /\ UNCHANGED <<given, lastAlloc, size, hostVars, tab, lineVars, own, stray, torn>>

\* All is mapped: the break or NEXT_MMAP moves; mremap copies the old pages,
\* faults where one is not mapped (which ends the keep), and unmaps them.
Finish ==
    LET gone == IF op.drop THEN op.from ELSE {}
        lo == CHOOSE p \in gone : \A q \in gone : p <= q
        hi == CHOOSE p \in gone : \A q \in gone : p >= q
        out == IF gone = {} THEN {} ELSE Unmapped(lo, hi)
    IN  /\ pc = "finish"
        /\ brkEnd' = IF op.name = "brk" THEN op.at + op.n ELSE brkEnd
        /\ nextMmap' = IF op.name = "brk" THEN nextMmap ELSE op.at + op.n
        /\ pt' = Without(out)
        /\ free' = free \cup FramesOf(out)
        /\ own' = (own \cup Span(op.at, op.n)) \ gone
        /\ stray' = (stray \ out) \cup ((Mapped \cap gone) \ out)
        /\ torn' = torn \ (gone \cup Span(op.at, op.n))
        /\ pc' = IF ~(op.from \subseteq Mapped) THEN "faulted"
                 ELSE IF TwiceFree(out) THEN "corrupt" ELSE "idle"
        /\ op' = NoOp
        /\ chunks' = << >> /\ cur' = 0 /\ pos' = 0
        /\ ret' = "none"
        /\ UNCHANGED <<given, lastAlloc, size, hostVars, tab, left>>

-----------------------------------------------------------------------------
Init ==
    /\ pc = "idle" /\ op = NoOp
    /\ chunks = << >> /\ cur = 0 /\ pos = 0
    /\ free = {} /\ given = 0 /\ lastAlloc = FirstAlloc /\ size = 0
    /\ host \in HostSizes /\ slots = 0
    /\ pt = [p \in VPages |-> 0] /\ tab = [t \in Tables |-> 0]
    /\ brkEnd = BrkStart /\ nextMmap = MmapStart
    /\ own = {} /\ stray = {} /\ left = {} /\ torn = {}
    /\ ret = "none"

Syscall ==
    \/ \E a \in Breaks : BrkStay(a) \/ BrkShrink(a) \/ BrkGrow(a)
    \/ MmapNothing \/ MmapOther \/ \E n \in Lens : Mmap(n)
    \/ \E a \in Addrs, n \in Lens : Munmap(a, n)
    \/ \E old, new \in Lens : MremapStay(old, new)
    \/ \E a \in Addrs, old, new \in Lens : MremapShrink(a, old, new)
    \/ \E a \in Addrs, old, new \in Lens, d \in BOOLEAN : MremapGrow(a, old, new, d)

Step == Ensure \/ AllocHalf \/ BalloonOk \/ BalloonErr \/ MapPage \/ Undo \/ Finish

\* The shim is gone, or its heap is.
Stopped == pc \in {"panicked", "unimplemented", "faulted", "corrupt"} /\ UNCHANGED vars

Next == Syscall \/ Step \/ Stopped

Spec == Init /\ [][Next]_vars

\* The shim runs on, and the host answers every balloon call.
FairSpec == Spec /\ WF_vars(Step)

-----------------------------------------------------------------------------
(* Properties.                                                             *)

\* The host can give the keep nothing more: balloon's smallest request is two
\* pages, and each one takes a memory slot.
Exhausted == host < 2 \/ slots = Slots

\* Frames of the request under way, and of its k-th half, that are allocated
\* and not mapped yet.
Flight(k) == IF cur = 0 \/ k < cur THEN Span(chunks[k].frame, chunks[k].n)
             ELSE IF k = cur THEN Span(chunks[k].frame + pos, chunks[k].n - pos) ELSE {}
InFlight == IF pc = "finish" THEN {} ELSE UNION {Flight(k) : k \in 1 .. Len(chunks)}
TablesMade == {t \in Tables : tab[t] # 0}

\* Every frame the host gave is in exactly one place, at every step of every
\* request: in the heap, behind one page, a page table, or in a half that
\* allocate_and_map_memory is about to map.  No page shares a frame and none
\* leaks, whatever request failed half way (allocator.rs: balloon,
\* try_alloc_half, map_memory, unmap_memory and the two error paths of
\* allocate_and_map_memory).  The heap is never given a frame it has, except
\* after a map_memory has failed inside a half.
FramesAccounted ==
    /\ pc = "corrupt" => left # {}
    /\ left = {} =>
         LET mapped == FramesOf(Mapped)
             tables == {tab[t] : t \in TablesMade}
         IN  /\ free \cup mapped \cup tables \cup InFlight = 1 .. given
             /\ Cardinality(free) + Cardinality(Mapped) + Cardinality(TablesMade)
                  + Cardinality(InFlight) = given

\* Between requests, what the workload was given by brk, mmap or mremap and
\* has not given back is mapped: no other request took a page of it away, and
\* it lost none but the page in the middle of which an mremap shrank it.
OwnedMapped == pc = "idle" => own \subseteq Mapped \cup torn

\* Between requests nothing else is mapped: a request refused half way leaves
\* no page behind, except where map_memory failed inside a half, and munmap
\* leaves only what lies behind a hole.
MappedOwned == pc = "idle" => Mapped \subseteq own \cup stray \cup left

\* The three together: every frame and every page is where the requests of the
\* workload put it, whatever the host refused meanwhile.
MemoryAccounted == FramesAccounted /\ OwnedMapped /\ MappedOwned

\* map_memory fails inside a half only when the host has nothing left to give:
\* balloon's retries with half the size find whatever the host still has.
FailsOnlyExhausted == left # {} => Exhausted

-----------------------------------------------------------------------------
(* The inductive invariant behind the first two.                           *)

Stops == {"panicked", "unimplemented", "faulted", "corrupt"}
Serving == pc \in {"ensure", "balloon", "map", "undo", "finish"}

\* The halves of a request lie one behind the other in its range, and the one
\* that is being mapped is not mapped to its end.
ChunkEnd(k) == chunks[k].at + chunks[k].n
ChunksInv ==
    /\ ~Serving => cur = 0 /\ chunks = << >>
    /\ Serving =>
         /\ op.n > 0
         /\ op.at = IF op.name = "brk" THEN brkEnd ELSE nextMmap
         /\ op.at + op.n <= IF op.name = "brk" THEN MmapStart ELSE VEnd + 1
         /\ \A k \in 1 .. Len(chunks) :
               /\ chunks[k].n > 0 /\ chunks[k].at >= op.at /\ ChunkEnd(k) <= op.at + op.n
               /\ k > 1 => chunks[k].at = ChunkEnd(k - 1)
               /\ chunks[k].frame > 0 /\ chunks[k].frame + chunks[k].n <= given + 1
         /\ Len(chunks) > 0 => chunks[1].at = op.at
         /\ cur > 0 => cur <= Len(chunks) /\ pos < chunks[cur].n /\ ChunkEnd(Len(chunks)) = op.at + op.n
         /\ pc = "ensure" => cur = 0
         /\ pc \in {"ensure", "balloon"} /\ cur = 0 => NextAt < op.at + op.n
         /\ pc \in {"map", "undo"} => cur > 0
         /\ pc = "finish" => cur = 0

\* The pages the request under way has mapped, and those that lie below the lines.
SoFar == IF pc = "finish" THEN Span(op.at, op.n)
         ELSE IF cur > 0 THEN Span(chunks[cur].at, pos) \cup (ChunkEnd(cur) .. op.at + op.n - 1)
         ELSE {}
Below == (BrkStart .. brkEnd - 1) \cup (MmapStart .. nextMmap - 1)
PagesInv ==
    pc \notin Stops =>
      /\ SoFar \subseteq Mapped
      /\ own \subseteq Mapped \cup torn
      /\ Mapped \subseteq own \cup stray \cup left \cup SoFar
      /\ own \subseteq Below
      /\ left = {} => Mapped \subseteq Below \cup SoFar

\* Every frame is in one place only, and no two halves share one.
EachOnce ==
    /\ \A f \in 1 .. given : \/ f \in free \/ f \in InFlight
                           \/ \E p \in VPages : pt[p] = f
                           \/ \E t \in Tables : tab[t] = f
    /\ free \cap InFlight = {}
    /\ \A p \in Mapped : pt[p] \notin free /\ pt[p] \notin InFlight
    /\ \A t \in TablesMade : tab[t] \notin free /\ tab[t] \notin InFlight
    /\ \A p \in Mapped, t \in TablesMade : pt[p] # tab[t]
    /\ \A p, q \in Mapped : pt[p] = pt[q] => p = q
    /\ \A t, u \in TablesMade : tab[t] = tab[u] => t = u
FramesInv ==
    left = {} =>
      /\ pc # "corrupt" /\ EachOnce
      /\ pc # "finish" => \A j, k \in 1 .. Len(chunks) : j # k => Flight(j) \cap Flight(k) = {}

\* map_memory gives up only when the host does.
HostInv ==
    /\ lastAlloc > 0
    /\ pc = "balloon" => size > 0
    /\ left # {} \/ pc = "undo" => Exhausted

MemoryInv == TypeOK /\ ChunksInv /\ PagesInv /\ FramesInv /\ HostInv

-----------------------------------------------------------------------------
\* Every request is answered, or ends the keep.
Answered == pc \in {"idle", "panicked", "unimplemented", "faulted", "corrupt"}

\* Every request is answered, or the host has nothing left to give: the loops
\* of allocate_and_map_memory, balloon and map_memory end as long as the host
\* grants what it has.
ReturnsUnlessExhausted == pc # "idle" ~> Answered \/ Exhausted

\* munmap unmaps the whole of the range it is given.
MunmapComplete == stray = {}
=============================================================================
