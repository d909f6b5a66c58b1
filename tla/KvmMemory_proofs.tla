-------------------------- MODULE KvmMemory_proofs --------------------------
(***************************************************************************)
(* Where the frames and the pages of a KVM keep are, for every size of the *)
(* page, the tables, the host's memory and the requests.                   *)
(***************************************************************************)
EXTENDS KvmMemory, FiniteSetTheorems, FunctionTheorems, TLAPS

Chunk == [at : VPages, frame : Nat, n : Nat]

LEMMA Sizes ==
    /\ PageSize \in Nat /\ PageSize > 0 /\ TableSpan \in Nat /\ TableSpan > 0
    /\ BrkPages \in Nat /\ MmapPages \in Nat /\ HostSizes \subseteq Nat /\ Slots \in Nat
    /\ FirstAlloc \in Nat /\ FirstAlloc > 0 /\ MaxAlloc \in Nat /\ MaxAlloc >= 2
    /\ Breaks \subseteq Nat /\ Addrs \subseteq Nat /\ Lens \subseteq Nat
    /\ BrkStart = 1 /\ MmapStart = BrkPages + 1 /\ VEnd = BrkPages + MmapPages /\ VPages = 1 .. VEnd
    /\ MmapStart \in Nat /\ VEnd \in Nat /\ VPages \subseteq Nat
<1>1. /\ PageSize \in Nat /\ PageSize > 0 /\ TableSpan \in Nat /\ TableSpan > 0
      /\ BrkPages \in Nat /\ MmapPages \in Nat /\ HostSizes \subseteq Nat /\ Slots \in Nat
      /\ FirstAlloc \in Nat /\ FirstAlloc > 0 /\ MaxAlloc \in Nat /\ MaxAlloc >= 2
      /\ Breaks \subseteq Nat /\ Addrs \subseteq Nat /\ Lens \subseteq Nat
  BY SizesAssumption DEF SizesAssumption
<1>2. /\ BrkStart = 1 /\ MmapStart = BrkPages + 1 /\ VEnd = BrkPages + MmapPages /\ VPages = 1 .. VEnd
  BY DEF BrkStart, MmapStart, VEnd, VPages
<1>3. MmapStart \in Nat /\ VEnd \in Nat /\ VPages \subseteq Nat
  BY <1>1, <1>2
<1> QED
  BY <1>1, <1>2, <1>3

\* Whole pages.
LEMMA Cancel ==
    ASSUME NEW a \in Nat, NEW x \in Nat, NEW y \in Nat, a * x < a * y
    PROVE  x < y
<1> SUFFICES ASSUME y <= x PROVE FALSE
  OBVIOUS
<1>1. PICK d \in Nat : x = y + d
  <2>1. x - y \in Nat /\ x = y + (x - y)
    OBVIOUS
  <2> QED
    BY <2>1
<1>2. a * x = a * y + a * d
  BY <1>1
<1>3. a * d \in Nat /\ a * y \in Nat /\ a * x \in Nat
  OBVIOUS
<1> QED
  BY <1>2, <1>3

LEMMA Pages ==
    ASSUME NEW b \in Nat
    PROVE  /\ PageOf(b) \in Nat /\ PageUp(b) \in Nat
           /\ \A m \in Nat : /\ b > m * PageSize => PageUp(b) > m
                             /\ b <= m * PageSize => PageUp(b) <= m
<1> DEFINE P == PageSize
           a == b + P - 1
           q == a \div P
<1>1. P \in Nat /\ P > 0 /\ a \in Nat
  BY Sizes
<1>2. b \div P \in Nat
  BY <1>1
<1>3. q \in Nat /\ P * q <= a /\ a < P * q + P
  <2> HIDE DEF a, P
  <2>1. q \in Nat /\ a % P \in 0 .. P - 1 /\ a = P * q + (a % P)
    BY <1>1
  <2>2. P * q \in Nat
    BY <1>1, <2>1
  <2> HIDE DEF q
  <2> QED
    BY <1>1, <2>1, <2>2
<1> HIDE DEF q
<1>4. ASSUME NEW m \in Nat, b > m * P PROVE q > m
  <2>1. P * m \in Nat /\ P * q \in Nat /\ m * P = P * m
    BY <1>1, <1>3
  <2>2. P * m < P * q
    BY <1>1, <1>3, <1>4, <2>1
  <2> HIDE DEF P
  <2> QED
    BY <1>1, <1>3, <2>2, Cancel
<1>5. ASSUME NEW m \in Nat, b <= m * P PROVE q <= m
  <2>1. P * (m + 1) = P * m + P /\ P * m \in Nat /\ P * q \in Nat /\ m * P = P * m
    BY <1>1, <1>3
  <2>2. P * q < P * (m + 1)
    BY <1>1, <1>3, <1>5, <2>1
  <2>3. q < m + 1
    <3> HIDE DEF P
    <3>1. m + 1 \in Nat
      OBVIOUS
    <3> QED
      BY <1>1, <1>3, <2>2, <3>1, Cancel
  <2> QED
    BY <1>3, <2>3
<1>6. PageUp(b) = q /\ PageOf(b) = b \div P
  BY DEF PageUp, PageOf, q
<1> QED
  BY <1>2, <1>3, <1>4, <1>5, <1>6

\* What unmap_memory takes out is mapped, and lies in the range.
LEMMA UnmappedIs ==
    ASSUME NEW lo \in Int, NEW hi \in Int
    PROVE  Unmapped(lo, hi) \subseteq Mapped /\ Unmapped(lo, hi) \subseteq lo .. hi
<1>1. ASSUME NEW p \in lo .. hi PROVE p \in lo .. p
  OBVIOUS
<1> QED
  BY <1>1 DEF Unmapped

LEMMA MappedIs ==
    ASSUME TypeOK
    PROVE  Mapped \subseteq VPages /\ \A p \in Mapped : pt[p] \in 1 .. given
<1>1. pt \in [VPages -> 0 .. given] /\ given \in Nat
  BY DEF TypeOK
<1>2. ASSUME NEW p \in VPages, pt[p] # 0 PROVE pt[p] \in 1 .. given
  BY <1>1, <1>2
<1> QED
  BY <1>2 DEF Mapped

LEMMA WithoutIs ==
    ASSUME TypeOK, NEW out, out \subseteq Mapped, pt' = Without(out)
    PROVE  /\ pt' \in [VPages -> 0 .. given] /\ Mapped' = Mapped \ out
           /\ \A p \in Mapped \ out : pt'[p] = pt[p]
           /\ FramesOf(out) \subseteq 1 .. given
<1>1. pt \in [VPages -> 0 .. given] /\ given \in Nat
  BY DEF TypeOK
<1>2. pt' \in [VPages -> 0 .. given]
  BY <1>1 DEF Without
<1>3. \A p \in VPages : pt'[p] = IF p \in out THEN 0 ELSE pt[p]
  BY DEF Without
<1>4. VPages' = VPages
  BY DEF VPages, VEnd
<1>5. Mapped' = Mapped \ out
  BY <1>3, <1>4 DEF Mapped
<1>6. FramesOf(out) \subseteq 1 .. given
  BY MappedIs DEF FramesOf
<1> QED
  BY <1>2, <1>3, <1>5, <1>6, MappedIs

LEMMA Fixed ==
    /\ VPages' = VPages /\ Tables' = Tables /\ Ranges' = Ranges
    /\ BrkStart' = BrkStart /\ MmapStart' = MmapStart /\ VEnd' = VEnd
  BY DEF VPages, Tables, Ranges, BrkStart, MmapStart, VEnd, TableOf, PageOf

-----------------------------------------------------------------------------
\* The invariant rests on nothing but these.
LEMMA SameMemory ==
    ASSUME MemoryInv, ret' \in Errors,
           UNCHANGED <<pc, op, chunkVars, heapVars, size, hostVars, tableVars, lineVars, history>>
    PROVE  MemoryInv'
<1> USE DEF chunkVars, heapVars, hostVars, tableVars, lineVars, history
<1>1. TypeOK'
  BY Fixed DEF MemoryInv, TypeOK
<1>2. ChunksInv'
  BY Fixed DEF MemoryInv, ChunksInv, Serving, ChunkEnd, NextAt
<1>3. /\ Mapped' = Mapped /\ SoFar' = SoFar /\ Below' = Below /\ InFlight' = InFlight
      /\ TablesMade' = TablesMade /\ \A k \in 1 .. Len(chunks) : Flight(k)' = Flight(k)
  BY Fixed DEF Mapped, SoFar, Below, InFlight, TablesMade, Flight, Span, ChunkEnd
<1>4. PagesInv'
  BY <1>3 DEF MemoryInv, PagesInv
<1>5. FramesInv'
  BY <1>3, Fixed DEF MemoryInv, FramesInv, EachOnce
<1>6. HostInv'
  BY DEF MemoryInv, HostInv, Exhausted
<1> QED
  BY <1>1, <1>2, <1>4, <1>5, <1>6 DEF MemoryInv

LEMMA RefuseKeeps ==
    ASSUME MemoryInv, NEW e \in Errors, Refuse(e)
    PROVE  MemoryInv'
  BY SameMemory DEF Refuse

LEMMA MmapOtherKeeps ==
    ASSUME MemoryInv, MmapOther
    PROVE  MemoryInv'
<1> USE DEF MmapOther, chunkVars, heapVars, hostVars, tableVars, lineVars, history
<1>1. TypeOK'
  BY Fixed DEF MemoryInv, TypeOK
<1>2. ChunksInv'
  BY Fixed DEF MemoryInv, ChunksInv, Serving
<1>3. /\ Mapped' = Mapped /\ InFlight' = InFlight
      /\ TablesMade' = TablesMade /\ \A k \in 1 .. Len(chunks) : Flight(k)' = Flight(k)
  BY Fixed DEF Mapped, InFlight, TablesMade, Flight, Span
<1>4. PagesInv'
  BY DEF PagesInv, Stops
<1>5. FramesInv'
  BY <1>3, Fixed DEF MemoryInv, FramesInv, EachOnce
<1>6. HostInv'
  BY DEF MemoryInv, HostInv, Exhausted
<1> QED
  BY <1>1, <1>2, <1>4, <1>5, <1>6 DEF MemoryInv

\* Between requests nothing is in flight.
LEMMA NoChunks ==
    ASSUME MemoryInv, ~Serving
    PROVE  chunks = << >> /\ cur = 0 /\ Len(chunks) = 0 /\ InFlight = {} /\ SoFar = {} /\ pc # "finish"
<1>1. chunks = << >> /\ cur = 0 /\ pc # "finish"
  BY DEF MemoryInv, ChunksInv, Serving
<1>2. Len(chunks) = 0 /\ 1 .. 0 = {}
  BY <1>1
<1> QED
  BY <1>1, <1>2 DEF InFlight, SoFar

LEMMA RequestKeeps ==
    ASSUME MemoryInv, pc = "idle", NEW name \in Names, NEW at \in Nat, NEW n \in Nat, n > 0,
           NEW from \in Ranges, NEW drop \in BOOLEAN,
           at = IF name = "brk" THEN brkEnd ELSE nextMmap,
           at + n <= IF name = "brk" THEN MmapStart ELSE VEnd + 1,
           Request(name, at, n, from, drop)
    PROVE  MemoryInv'
<1> USE DEF Request, chunkVars, heapVars, hostVars, tableVars, lineVars, history
<1>1. TypeOK'
  <2>1. op' \in [name : Names, at : Nat, n : Nat, from : Ranges, drop : BOOLEAN]
    OBVIOUS
  <2>2. chunks' \in Seq([at : VPages, frame : Nat, n : Nat])
    OBVIOUS
  <2>3. ret' \in Errors
    BY DEF Errors
  <2> QED
    BY <2>1, <2>2, <2>3, Fixed DEF MemoryInv, TypeOK
<1>2. op'.n = n /\ op'.at = at /\ op'.name = name /\ chunks' = << >> /\ cur' = 0 /\ Len(chunks') = 0 /\ pc' = "ensure"
  OBVIOUS
<1>3. ChunksInv'
  <2>1. NextAt' = at
    BY <1>2 DEF NextAt
  <2>2. at < at + n
    OBVIOUS
  <2> QED
    BY <1>2, <2>1, <2>2, Fixed DEF MemoryInv, ChunksInv, Serving
<1>4. chunks = << >> /\ Len(chunks) = 0 /\ InFlight = {} /\ SoFar = {}
  BY NoChunks DEF Serving
<1>5. Mapped' = Mapped /\ Below' = Below /\ TablesMade' = TablesMade
  BY Fixed DEF Mapped, Below, TablesMade
<1>6. InFlight' = {} /\ SoFar' = {}
  <2>1. 1 .. 0 = {}
    OBVIOUS
  <2> QED
    BY <1>2, <2>1 DEF InFlight, SoFar
<1>7. PagesInv'
  BY <1>4, <1>5, <1>6 DEF MemoryInv, PagesInv, Stops
<1>8. FramesInv'
  BY <1>2, <1>4, <1>5, <1>6, Fixed DEF MemoryInv, FramesInv, EachOnce
<1>9. HostInv'
  BY DEF MemoryInv, HostInv, Exhausted
<1> QED
  BY <1>1, <1>3, <1>7, <1>8, <1>9 DEF MemoryInv

LEMMA InitKeeps ==
    ASSUME Init
    PROVE  MemoryInv
<1> USE DEF Init
<1>1. TypeOK
  <2>1. op \in [name : Names, at : Nat, n : Nat, from : Ranges, drop : BOOLEAN]
    BY DEF NoOp, Names, BrkStart, Ranges
  <2>2. /\ pt \in [VPages -> 0 .. given] /\ tab \in [Tables -> 0 .. given]
        /\ given \in Nat /\ free \subseteq 1 .. given
    OBVIOUS
  <2>3. /\ brkEnd \in BrkStart .. BrkStart + BrkPages
        /\ nextMmap \in MmapStart .. MmapStart + MmapPages
        /\ lastAlloc \in Nat /\ host \in Nat /\ slots \in 0 .. Slots
    BY Sizes
  <2> QED
    BY <2>1, <2>2, <2>3 DEF TypeOK, Errors
<1>2. ChunksInv
  BY DEF ChunksInv, Serving
<1>3. Len(chunks) = 0 /\ 1 .. 0 = {}
  OBVIOUS
<1>4. InFlight = {} /\ SoFar = {} /\ Mapped = {} /\ TablesMade = {}
  BY <1>3 DEF InFlight, SoFar, Mapped, TablesMade
<1>5. PagesInv
  BY <1>4 DEF PagesInv
<1>6. FramesInv
  BY <1>3, <1>4 DEF FramesInv, EachOnce
<1>7. HostInv
  BY Sizes DEF HostInv
<1> QED
  BY <1>1, <1>2, <1>5, <1>6, <1>7 DEF MemoryInv

-----------------------------------------------------------------------------
\* Frames that go back to the heap were in one place, and are in one after it.
LEMMA ReturnAll ==
    ASSUME MemoryInv, left = {}, NEW out, out \subseteq Mapped,
           pt' = Without(out), free' = (free \cup InFlight) \cup FramesOf(out),
           InFlight' = {}, UNCHANGED <<given, tab>>
    PROVE  EachOnce' /\ ~TwiceFree(out)
<1>1. TypeOK /\ EachOnce
  BY DEF MemoryInv, FramesInv
<1>2. /\ Mapped' = Mapped \ out /\ \A p \in Mapped \ out : pt'[p] = pt[p]
      /\ Mapped \subseteq VPages /\ \A p \in Mapped : pt[p] \in 1 .. given
  BY <1>1, WithoutIs, MappedIs
<1>3. TablesMade' = TablesMade
  BY Fixed DEF TablesMade
<1>4. ~TwiceFree(out)
  BY <1>1 DEF EachOnce, TwiceFree, FramesOf
<1>5. ASSUME NEW f \in 1 .. given
      PROVE  f \in free' \/ (\E p \in VPages : pt'[p] = f) \/ (\E t \in Tables : tab[t] = f)
  <2>1. CASE \E p \in VPages : pt[p] = f
    <3>1. PICK p \in VPages : pt[p] = f
      BY <2>1
    <3>2. p \in Mapped
      BY <3>1, <1>5 DEF Mapped
    <3> QED
      BY <3>1, <3>2, <1>2 DEF FramesOf
  <2> QED
    BY <2>1, <1>1 DEF EachOnce
<1>6. \A p \in Mapped' : pt'[p] = pt[p] /\ pt[p] \notin free'
  BY <1>1, <1>2 DEF EachOnce, FramesOf
<1>7. \A t \in TablesMade : tab[t] \notin free'
  BY <1>1, <1>2 DEF EachOnce, FramesOf
<1>8. EachOnce'
  BY <1>1, <1>2, <1>3, <1>5, <1>6, <1>7, Fixed DEF EachOnce
<1> QED
  BY <1>4, <1>8

LEMMA ReturnFrames ==
    ASSUME MemoryInv, left = {}, NEW out, out \subseteq Mapped,
           pt' = Without(out), free' = free \cup FramesOf(out),
           InFlight = {}, InFlight' = {}, UNCHANGED <<given, tab>>
    PROVE  EachOnce' /\ ~TwiceFree(out)
<1>1. free' = (free \cup InFlight) \cup FramesOf(out)
  OBVIOUS
<1> QED
  BY <1>1, ReturnAll

LEMMA UnmapKeeps ==
    ASSUME MemoryInv, pc = "idle", NEW lo \in Int, NEW hi \in Int, NEW gone, Unmap(lo, hi, gone)
    PROVE  MemoryInv'
<1> DEFINE out == Unmapped(lo, hi)
<1> USE DEF chunkVars, hostVars, lineVars
<1>1. out \subseteq Mapped
  BY UnmappedIs
<1> HIDE DEF out
<1>2. /\ pc' = IF TwiceFree(out) THEN "corrupt" ELSE "idle"
      /\ pt' = Without(out) /\ free' = free \cup FramesOf(out)
      /\ own' = own \ gone /\ stray' = (stray \ out) \cup ((Mapped \cap gone) \ out)
      /\ torn' = (torn \cup (out \cap own)) \ gone /\ ret' = "none"
      /\ UNCHANGED <<op, chunkVars, given, lastAlloc, size, hostVars, tab, lineVars, left>>
  BY DEF Unmap, out
<1>3. TypeOK /\ pc' \in {"idle", "corrupt"}
  BY <1>2 DEF MemoryInv
<1>4. /\ Mapped' = Mapped \ out /\ pt' \in [VPages -> 0 .. given]
      /\ Mapped \subseteq VPages /\ FramesOf(out) \subseteq 1 .. given
  BY <1>1, <1>2, <1>3, WithoutIs, MappedIs
<1>5. TypeOK'
  <2>1. own' \subseteq VPages /\ stray' \subseteq VPages /\ torn' \subseteq VPages /\ free' \subseteq 1 .. given
    BY <1>2, <1>3, <1>4 DEF TypeOK
  <2>2. ret' \in Errors /\ pt' \in [VPages -> 0 .. given']
    BY <1>2, <1>4 DEF Errors
  <2> QED
    BY <1>2, <1>3, <2>1, <2>2, Fixed DEF TypeOK
<1>6. chunks = << >> /\ cur = 0 /\ Len(chunks) = 0 /\ InFlight = {} /\ SoFar = {}
  BY NoChunks DEF Serving
<1>7. ChunksInv'
  BY <1>2, <1>3, <1>6 DEF ChunksInv, Serving
<1>8. InFlight' = {} /\ SoFar' = {} /\ Below' = Below /\ 1 .. Len(chunks)' = {}
  <2>1. 1 .. 0 = {}
    OBVIOUS
  <2> QED
    BY <1>2, <1>3, <1>6, <2>1, Fixed DEF InFlight, SoFar, Below
<1>9. PagesInv'
  <2>1. /\ own \subseteq Mapped \cup torn /\ Mapped \subseteq own \cup stray \cup left
        /\ own \subseteq Below /\ (left = {} => Mapped \subseteq Below)
    BY <1>6 DEF MemoryInv, PagesInv, Stops
  <2>2. own' \subseteq Mapped' \cup torn'
    BY <1>2, <1>4, <2>1
  <2>3. Mapped' \subseteq own' \cup stray' \cup left
    BY <1>2, <1>4, <2>1
  <2>4. own' \subseteq Below' /\ (left = {} => Mapped' \subseteq Below')
    BY <1>2, <1>4, <1>8, <2>1
  <2>5. SoFar' = {} /\ left' = left
    BY <1>2, <1>8
  <2> QED
    BY <2>2, <2>3, <2>4, <2>5 DEF PagesInv
<1>10. FramesInv'
  <2> SUFFICES ASSUME left = {} PROVE pc' # "corrupt" /\ EachOnce'
    BY <1>2, <1>8 DEF FramesInv
  <2>1. EachOnce' /\ ~TwiceFree(out)
    BY <1>1, <1>2, <1>6, <1>8, ReturnFrames
  <2> QED
    BY <1>2, <2>1
<1>11. HostInv'
  BY <1>2, <1>3 DEF MemoryInv, HostInv, Exhausted
<1> QED
  BY <1>5, <1>7, <1>9, <1>10, <1>11 DEF MemoryInv

LEMMA BrkShrinkKeeps ==
    ASSUME MemoryInv, NEW addr \in Nat, BrkShrink(addr)
    PROVE  MemoryInv'
<1> DEFINE lo == PageUp(addr)
           out == Unmapped(lo, brkEnd - 1)
           rest == lo .. brkEnd - 1
<1> USE DEF chunkVars, hostVars
<1>1. TypeOK /\ pc = "idle" /\ brkEnd \in Nat /\ brkEnd >= 1 /\ brkEnd <= BrkPages + 1
  BY Sizes DEF MemoryInv, TypeOK, BrkShrink
<1>2. lo \in Nat /\ lo > 0 /\ lo <= brkEnd - 1
  <2>1. addr >= 1 * PageSize /\ addr < (brkEnd - 1) * PageSize
    BY Sizes DEF BrkShrink
  <2>2. addr > 0 * PageSize /\ 0 \in Nat /\ brkEnd - 1 \in Nat
    BY <1>1, <2>1, Sizes
  <2>3. (brkEnd - 1) * PageSize \in Nat
    BY <2>2, Sizes
  <2>4. addr <= (brkEnd - 1) * PageSize
    BY <2>1, <2>3
  <2> QED
    BY <2>2, <2>4, Pages
<1>3. out \subseteq Mapped /\ out \subseteq rest
  BY <1>1, <1>2, UnmappedIs
<1>4. /\ pc' = IF out # rest THEN "panicked" ELSE IF TwiceFree(out) THEN "corrupt" ELSE "idle"
      /\ pt' = Without(out) /\ free' = free \cup FramesOf(out)
      /\ brkEnd' = lo
      /\ own' = own \ rest /\ stray' = stray \ out
      /\ torn' = torn \ rest /\ ret' = "none"
      /\ UNCHANGED <<op, chunkVars, given, lastAlloc, size, hostVars, tab, nextMmap, left>>
  BY DEF BrkShrink
<1> HIDE DEF out, lo
<1>5. pc' \in {"idle", "corrupt", "panicked"}
  BY <1>4
<1>6. /\ Mapped' = Mapped \ out /\ pt' \in [VPages -> 0 .. given]
      /\ Mapped \subseteq VPages /\ FramesOf(out) \subseteq 1 .. given
  BY <1>1, <1>3, <1>4, WithoutIs, MappedIs
<1>7. TypeOK'
  <2>1. own' \subseteq VPages /\ stray' \subseteq VPages /\ torn' \subseteq VPages /\ free' \subseteq 1 .. given
    BY <1>1, <1>4, <1>6 DEF TypeOK
  <2>2. ret' \in Errors /\ pt' \in [VPages -> 0 .. given']
    BY <1>4, <1>6 DEF Errors
  <2>3. brkEnd' \in BrkStart .. BrkStart + BrkPages
    BY <1>1, <1>2, <1>4, Sizes
  <2> QED
    BY <1>1, <1>4, <1>5, <2>1, <2>2, <2>3, Fixed DEF TypeOK
<1>8. chunks = << >> /\ cur = 0 /\ Len(chunks) = 0 /\ InFlight = {} /\ SoFar = {}
  BY <1>1, NoChunks DEF Serving
<1>9. ChunksInv'
  BY <1>4, <1>5, <1>8 DEF ChunksInv, Serving
<1>10. InFlight' = {} /\ SoFar' = {} /\ 1 .. Len(chunks)' = {}
  <2>1. 1 .. 0 = {}
    OBVIOUS
  <2> QED
    BY <1>4, <1>5, <1>8, <2>1 DEF InFlight, SoFar
<1>11. PagesInv'
  <2> SUFFICES ASSUME out = rest PROVE PagesInv'
    BY <1>4 DEF PagesInv, Stops
  <2>1. /\ own \subseteq Mapped \cup torn /\ Mapped \subseteq own \cup stray \cup left
        /\ own \subseteq Below /\ (left = {} => Mapped \subseteq Below)
    BY <1>1, <1>8 DEF MemoryInv, PagesInv, Stops
  <2>2. own' \subseteq Mapped' \cup torn' /\ Mapped' \subseteq own' \cup stray' \cup left
    <3> HIDE DEF rest
    <3> QED
      BY <1>4, <1>6, <2>1
  <2>3. Below \ rest \subseteq Below'
    <3>1. ASSUME NEW p \in 1 .. brkEnd - 1, p \notin rest PROVE p \in 1 .. lo - 1
      BY <1>1, <1>2, <3>1
    <3>2. Below = (1 .. brkEnd - 1) \cup (MmapStart .. nextMmap - 1)
      BY Sizes DEF Below
    <3>3. Below' = (1 .. lo - 1) \cup (MmapStart .. nextMmap - 1)
      BY <1>4, Sizes, Fixed DEF Below
    <3> HIDE DEF rest
    <3> QED
      BY <3>1, <3>2, <3>3
  <2> HIDE DEF rest
  <2>4. own' \subseteq Below' /\ (left = {} => Mapped' \subseteq Below')
    BY <1>4, <1>6, <2>1, <2>3
  <2>5. SoFar' = {} /\ left' = left
    BY <1>4, <1>10
  <2> QED
    BY <2>2, <2>4, <2>5 DEF PagesInv
<1>12. FramesInv'
  <2> SUFFICES ASSUME left = {} PROVE pc' # "corrupt" /\ EachOnce'
    BY <1>4, <1>10 DEF FramesInv
  <2>1. EachOnce' /\ ~TwiceFree(out)
    BY <1>3, <1>4, <1>8, <1>10, ReturnFrames
  <2> QED
    BY <1>4, <2>1
<1>13. HostInv'
  BY <1>1, <1>4, <1>5 DEF MemoryInv, HostInv, Exhausted
<1> QED
  BY <1>7, <1>9, <1>11, <1>12, <1>13 DEF MemoryInv

-----------------------------------------------------------------------------
LEMMA SyscallKeeps ==
    ASSUME MemoryInv, Syscall
    PROVE  MemoryInv'
<1> USE Sizes
<1>1. "none" \in Errors /\ "EINVAL" \in Errors /\ "ENOMEM" \in Errors /\ "ENOTSUP" \in Errors
  BY DEF Errors
<1>2. "brk" \in Names /\ "mmap" \in Names /\ "mremap" \in Names /\ {} \in Ranges
  BY DEF Names, Ranges
<1>3. /\ brkEnd \in Nat /\ brkEnd >= 1 /\ brkEnd <= BrkPages + 1
      /\ nextMmap \in Nat /\ nextMmap <= VEnd + 1
  BY DEF MemoryInv, TypeOK
<1>4. ASSUME NEW a \in Breaks, BrkStay(a) PROVE MemoryInv'
  BY <1>1, <1>4, RefuseKeeps DEF BrkStay
<1>5. ASSUME NEW a \in Breaks, BrkShrink(a) PROVE MemoryInv'
  BY <1>5, BrkShrinkKeeps
<1>6. ASSUME NEW a \in Breaks, BrkGrow(a) PROVE MemoryInv'
  <2>1. /\ pc = "idle" /\ a > brkEnd * PageSize /\ PageUp(a) <= 1 + BrkPages
        /\ Request("brk", brkEnd, PageUp(a) - brkEnd, {}, FALSE)
    BY <1>6 DEF BrkGrow
  <2>2. PageUp(a) \in Nat /\ PageUp(a) > brkEnd
    BY <1>3, <2>1, Pages
  <2>3. PICK n \in Nat : n = PageUp(a) - brkEnd /\ n > 0 /\ brkEnd + n <= MmapStart
    BY <1>3, <2>1, <2>2
  <2>4. PICK f \in BOOLEAN : f = FALSE
    OBVIOUS
  <2>5. Request("brk", brkEnd, n, {}, f)
    BY <2>1, <2>3, <2>4
  <2> QED
    BY <1>2, <1>3, <2>1, <2>3, <2>5, RequestKeeps
<1>7. ASSUME MmapNothing PROVE MemoryInv'
  BY <1>1, <1>7, RefuseKeeps DEF MmapNothing
<1>8. ASSUME NEW len \in Lens, Mmap(len) PROVE MemoryInv'
  <2>1. /\ pc = "idle" /\ len > 0 /\ nextMmap + PageUp(len) <= MmapStart + MmapPages
        /\ Request("mmap", nextMmap, PageUp(len), {}, FALSE)
    BY <1>8 DEF Mmap
  <2>2. PageUp(len) \in Nat /\ PageUp(len) > 0
    <3>1. len > 0 * PageSize /\ 0 \in Nat
      BY <2>1
    <3> QED
      BY <3>1, Pages
  <2>3. PICK n \in Nat : n = PageUp(len) /\ n > 0 /\ nextMmap + n <= VEnd + 1
    BY <1>3, <2>1, <2>2
  <2>4. PICK f \in BOOLEAN : f = FALSE
    OBVIOUS
  <2>5. Request("mmap", nextMmap, n, {}, f)
    BY <2>1, <2>3, <2>4
  <2> QED
    BY <1>2, <1>3, <2>1, <2>3, <2>5, RequestKeeps
<1>9. ASSUME NEW addr \in Addrs, NEW len \in Lens, Munmap(addr, len) PROVE MemoryInv'
  <2>1. PICK hi : /\ hi = IF len = 0 THEN PageOf(addr) - 1 ELSE PageOf(addr + len - 1)
                  /\ pc = "idle" /\ addr > 0 /\ Unmap(PageOf(addr), hi, PageOf(addr) .. hi)
    BY <1>9 DEF Munmap
  <2>2. PageOf(addr) \in Int
    BY Pages
  <2>3. addr + len - 1 \in Nat
    BY <2>1
  <2>4. PageOf(addr + len - 1) \in Int
    BY <2>3, Pages
  <2> QED
    BY <2>1, <2>2, <2>4, UnmapKeeps
<1>10. ASSUME NEW old \in Lens, NEW new \in Lens, MremapStay(old, new) PROVE MemoryInv'
  BY <1>1, <1>10, RefuseKeeps DEF MremapStay
<1>11. ASSUME NEW addr \in Addrs, NEW old \in Lens, NEW new \in Lens, MremapShrink(addr, old, new)
       PROVE MemoryInv'
  <2>1. PICK hi : /\ hi = PageOf(addr + old - 1) /\ pc = "idle" /\ addr > 0
                  /\ Unmap(PageOf(addr + new), hi, PageUp(addr + new) .. hi)
    BY <1>11 DEF MremapShrink
  <2>2. addr + old - 1 \in Nat /\ addr + new \in Nat
    BY <2>1
  <2>3. PageOf(addr + old - 1) \in Nat
    BY <2>2, Pages
  <2>4. PageOf(addr + new) \in Nat
    BY <2>2, Pages
  <2> QED
    BY <2>1, <2>3, <2>4, UnmapKeeps
<1>12. ASSUME NEW addr \in Addrs, NEW old \in Lens, NEW new \in Lens, NEW d \in BOOLEAN,
              MremapGrow(addr, old, new, d)
       PROVE MemoryInv'
  <2>1. PICK from : from = IF old = 0 THEN {} ELSE PageOf(addr) .. PageOf(addr + old - 1)
    OBVIOUS
  <2>2. /\ pc = "idle" /\ addr > 0 /\ new > old /\ nextMmap + PageUp(new) <= MmapStart + MmapPages
        /\ Request("mremap", nextMmap, PageUp(new), from, ~d)
    BY <1>12, <2>1 DEF MremapGrow
  <2>3. PageUp(new) \in Nat /\ PageUp(new) > 0
    <3>1. new > 0 * PageSize /\ 0 \in Nat
      BY <2>2
    <3> QED
      BY <3>1, Pages
  <2>4. PICK n \in Nat : n = PageUp(new) /\ n > 0 /\ nextMmap + n <= VEnd + 1
    BY <1>3, <2>2, <2>3
  <2>5. from \in Ranges
    BY <2>1 DEF Ranges
  <2>6. PICK f \in BOOLEAN : f = ~d
    OBVIOUS
  <2>7. Request("mremap", nextMmap, n, from, f)
    BY <2>2, <2>4, <2>6
  <2> QED
    BY <1>2, <1>3, <2>2, <2>4, <2>5, <2>7, RequestKeeps
<1> QED
  BY <1>4, <1>5, <1>6, <1>7, <1>8, <1>9, <1>10, <1>11, <1>12, MmapOtherKeeps DEF Syscall

-----------------------------------------------------------------------------
\* The halves of a request, and the frames in them.
LEMMA ChunkTypes ==
    ASSUME TypeOK
    PROVE  /\ Len(chunks) \in Nat /\ cur \in Nat /\ pos \in Nat /\ given \in Nat
           /\ op.at \in Nat /\ op.n \in Nat
           /\ \A k \in 1 .. Len(chunks) :
                 chunks[k].at \in Nat /\ chunks[k].frame \in Nat /\ chunks[k].n \in Nat
<1>1. chunks \in Seq(Chunk)
  BY DEF TypeOK, Chunk
<1>2. \A k \in 1 .. Len(chunks) : chunks[k] \in Chunk
  BY <1>1
<1>3. Len(chunks) \in Nat
  BY <1>1
<1> QED
  BY <1>2, <1>3, Sizes DEF TypeOK, Chunk

LEMMA FlightIs ==
    ASSUME MemoryInv, Serving
    PROVE  \A k \in 1 .. Len(chunks) : Flight(k) \subseteq 1 .. given
<1> SUFFICES ASSUME NEW k \in 1 .. Len(chunks) PROVE Flight(k) \subseteq 1 .. given
  OBVIOUS
<1>1. TypeOK
  BY DEF MemoryInv
<1>2. /\ chunks[k].frame \in Nat /\ chunks[k].n \in Nat /\ given \in Nat /\ pos \in Nat /\ cur \in Nat
      /\ chunks[k].frame > 0 /\ chunks[k].frame + chunks[k].n <= given + 1
  BY <1>1, ChunkTypes DEF MemoryInv, ChunksInv
<1>3. PICK a \in Nat, m \in Nat : a = chunks[k].frame /\ m = chunks[k].n
  BY <1>2
<1>4. a > 0 /\ a + m <= given + 1
  BY <1>2, <1>3
<1>5. a .. a + m - 1 \subseteq 1 .. given /\ a + pos .. a + pos + (m - pos) - 1 \subseteq 1 .. given
  BY <1>2, <1>4
<1> QED
  BY <1>3, <1>5 DEF Flight, Span

LEMMA SameChunks ==
    ASSUME UNCHANGED <<op, chunkVars, tableVars, lineVars>>,
           pc \in {"ensure", "balloon", "map", "undo"}, pc' \in {"ensure", "balloon", "map", "undo"}
    PROVE  /\ Mapped' = Mapped /\ SoFar' = SoFar /\ Below' = Below /\ InFlight' = InFlight
           /\ TablesMade' = TablesMade /\ \A k \in 1 .. Len(chunks) : Flight(k)' = Flight(k)
<1> USE DEF chunkVars, tableVars, lineVars
<1>1. Mapped' = Mapped /\ SoFar' = SoFar /\ Below' = Below /\ TablesMade' = TablesMade
  BY Fixed DEF Mapped, SoFar, Below, TablesMade, Span, ChunkEnd
<1>2. \A k \in 1 .. Len(chunks) : Flight(k)' = Flight(k)
  BY DEF Flight, Span
<1>3. InFlight' = InFlight
  BY <1>2 DEF InFlight
<1> QED
  BY <1>1, <1>2, <1>3

\* A step that moves no page, no frame and no half.
LEMMA SameFrames ==
    ASSUME MemoryInv, UNCHANGED <<op, chunkVars, heapVars, tableVars, lineVars, history>>,
           pc \in {"ensure", "balloon", "map", "undo"}, pc' \in {"ensure", "balloon", "map", "undo"}
    PROVE  PagesInv' /\ FramesInv'
<1> USE DEF chunkVars, heapVars, tableVars, lineVars, history
<1>1. /\ Mapped' = Mapped /\ SoFar' = SoFar /\ Below' = Below /\ InFlight' = InFlight
      /\ TablesMade' = TablesMade /\ \A k \in 1 .. Len(chunks) : Flight(k)' = Flight(k)
  BY SameChunks
<1>2. PagesInv'
  BY <1>1 DEF MemoryInv, PagesInv, Stops
<1>3. FramesInv'
  BY <1>1, Fixed DEF MemoryInv, FramesInv, EachOnce
<1> QED
  BY <1>2, <1>3

LEMMA EnsureKeeps ==
    ASSUME MemoryInv, Ensure
    PROVE  MemoryInv'
<1> USE DEF Ensure, CallBalloon, chunkVars, heapVars, hostVars, tableVars, lineVars, history
<1>1. TypeOK'
  BY Fixed DEF MemoryInv, TypeOK
<1>2. NextAt' = NextAt
  BY DEF NextAt
<1>3. ChunksInv'
  BY <1>2, Fixed DEF MemoryInv, ChunksInv, Serving, ChunkEnd
<1>4. PagesInv' /\ FramesInv'
  BY SameFrames
<1>5. HostInv'
  BY DEF MemoryInv, HostInv, Exhausted
<1> QED
  BY <1>1, <1>3, <1>4, <1>5 DEF MemoryInv

LEMMA BalloonErrKeeps ==
    ASSUME MemoryInv, BalloonErr
    PROVE  MemoryInv'
<1> USE DEF BalloonErr, chunkVars, heapVars, hostVars, tableVars, lineVars, history
<1>1. /\ size \in Nat /\ host \in Nat /\ slots \in 0 .. Slots /\ cur \in Nat
      /\ pc = "balloon" /\ size > 0
  BY DEF MemoryInv, TypeOK, HostInv
<1>2. /\ Smaller \in Nat /\ size' = Smaller /\ pc' \in {"balloon", "undo", "ensure"}
      /\ pc' = "balloon" => Smaller > 0
      /\ pc' = "undo" => Smaller = 0 /\ cur > 0
      /\ pc' = "ensure" => cur = 0
  BY <1>1 DEF Smaller, Caller
<1>3. TypeOK'
  BY <1>2, Fixed DEF MemoryInv, TypeOK
<1>4. NextAt' = NextAt
  BY DEF NextAt
<1>5. ChunksInv'
  BY <1>1, <1>2, <1>4, Fixed DEF MemoryInv, ChunksInv, Serving, ChunkEnd
<1>6. PagesInv' /\ FramesInv'
  BY <1>1, <1>2, SameFrames
<1>7. Smaller = 0 => Exhausted
  <2> SUFFICES ASSUME Smaller = 0 PROVE Exhausted
    OBVIOUS
  <2>1. size = 1
    BY <1>1 DEF Smaller
  <2>2. Ask = 2
    BY <2>1, Sizes DEF Ask
  <2> QED
    BY <1>1, <2>2, Sizes DEF Granted, Exhausted
<1>8. HostInv'
  BY <1>2, <1>7 DEF MemoryInv, HostInv, Exhausted
<1> QED
  BY <1>3, <1>5, <1>6, <1>8 DEF MemoryInv

LEMMA BalloonOkKeeps ==
    ASSUME MemoryInv, BalloonOk
    PROVE  MemoryInv'
<1> USE DEF BalloonOk, chunkVars, hostVars, tableVars, lineVars, history
<1>1. /\ size \in Nat /\ host \in Nat /\ slots \in 0 .. Slots /\ cur \in Nat /\ given \in Nat
      /\ pc = "balloon" /\ size > 0 /\ TypeOK /\ Serving /\ Slots \in Nat
  BY Sizes DEF MemoryInv, TypeOK, HostInv, Serving
<1>2. Ask \in Nat /\ Ask >= 2 /\ Ask <= host /\ slots < Slots
  BY <1>1, Sizes DEF Ask, Granted
<1>3. left = {}
  <2>1. ~Exhausted
    BY <1>1, <1>2 DEF Exhausted
  <2> QED
    BY <2>1 DEF MemoryInv, HostInv
<1>4. /\ free' = free \cup (given + 1 .. given + Ask) /\ given' = given + Ask
      /\ pc' \in {"ensure", "map"} /\ (pc' = "ensure" => cur = 0) /\ (pc' = "map" => cur > 0)
  BY <1>1 DEF Extend, Caller
<1>5. 1 .. given \subseteq 1 .. given' /\ 0 .. given \subseteq 0 .. given' /\ given' \in Nat
  BY <1>1, <1>2, <1>4
<1>6. free \subseteq 1 .. given /\ pt \in [VPages -> 0 .. given] /\ tab \in [Tables -> 0 .. given]
  BY <1>1 DEF TypeOK
<1>7. free' \subseteq 1 .. given' /\ pt' \in [VPages -> 0 .. given'] /\ tab' \in [Tables -> 0 .. given']
  <2>1. given + 1 .. given + Ask \subseteq 1 .. given'
    BY <1>1, <1>2, <1>4
  <2>2. free' \subseteq 1 .. given'
    BY <1>4, <1>5, <1>6, <2>1
  <2>3. pt' = pt /\ tab' = tab
    OBVIOUS
  <2> HIDE DEF BalloonOk
  <2> QED
    BY <1>5, <1>6, <2>2, <2>3
<1>8. host' \in Nat /\ slots' \in 0 .. Slots /\ lastAlloc' \in Nat /\ size' \in Nat
  BY <1>1, <1>2
<1>9. TypeOK'
  BY <1>1, <1>4, <1>5, <1>7, <1>8, Fixed DEF TypeOK
<1>10. NextAt' = NextAt
  BY DEF NextAt
<1>11. ChunksInv'
  <2>1. \A k \in 1 .. Len(chunks) : chunks[k].frame + chunks[k].n <= given' + 1
    <3>1. ASSUME NEW k \in 1 .. Len(chunks) PROVE chunks[k].frame + chunks[k].n <= given' + 1
      <4>1. /\ chunks[k].frame \in Nat /\ chunks[k].n \in Nat
            /\ chunks[k].frame + chunks[k].n <= given + 1
        BY <1>1, ChunkTypes DEF MemoryInv, ChunksInv
      <4>2. PICK e \in Nat : e = chunks[k].frame + chunks[k].n
        BY <4>1
      <4> HIDE DEF BalloonOk
      <4> QED
        BY <1>1, <1>2, <1>4, <4>1, <4>2
    <3> QED
      BY <3>1
  <2> QED
    BY <1>1, <1>4, <1>10, <2>1, Fixed DEF MemoryInv, ChunksInv, Serving, ChunkEnd
<1>12. /\ Mapped' = Mapped /\ SoFar' = SoFar /\ Below' = Below /\ InFlight' = InFlight
       /\ TablesMade' = TablesMade /\ \A k \in 1 .. Len(chunks) : Flight(k)' = Flight(k)
  BY <1>1, <1>4, SameChunks
<1>13. PagesInv'
  BY <1>1, <1>4, <1>12 DEF MemoryInv, PagesInv, Stops
<1>14. FramesInv'
  <2>1. /\ EachOnce
        /\ \A j, k \in 1 .. Len(chunks) : j # k => Flight(j) \cap Flight(k) = {}
    BY <1>3 DEF MemoryInv, FramesInv
  <2>2. (given + 1 .. given + Ask) \cap (1 .. given) = {}
        /\ 1 .. given' = (1 .. given) \cup (given + 1 .. given + Ask)
    BY <1>1, <1>2, <1>4
  <2>3. InFlight \subseteq 1 .. given
    BY <1>1, FlightIs DEF InFlight
  <2>4. /\ \A p \in Mapped : pt[p] \in 1 .. given
        /\ \A t \in TablesMade : tab[t] \in 1 .. given
    <3>1. ASSUME NEW t \in Tables, tab[t] # 0 PROVE tab[t] \in 1 .. given
      BY <1>1, <1>6, <3>1
    <3> QED
      BY <1>1, <3>1, MappedIs DEF TablesMade
  <2>5. pt' = pt /\ tab' = tab /\ chunks' = chunks
    OBVIOUS
  <2>6. EachOnce'
    <3> HIDE DEF BalloonOk
    <3> DEFINE new == given + 1 .. given + Ask
    <3>1. free' = free \cup new /\ new \cap (1 .. given) = {} /\ 1 .. given' = (1 .. given) \cup new
      BY <1>4, <2>2
    <3> HIDE DEF new
    <3> QED
      BY <1>12, <2>1, <2>3, <2>4, <2>5, <3>1, Fixed DEF EachOnce
  <2> QED
    BY <1>4, <1>12, <2>1, <2>5, <2>6 DEF FramesInv
<1>15. HostInv'
  BY <1>2, <1>3, <1>4 DEF MemoryInv, HostInv, Exhausted
<1> QED
  BY <1>9, <1>11, <1>13, <1>14, <1>15 DEF MemoryInv

-----------------------------------------------------------------------------
\* A half more: where it lies, and that its frames were free.
LEMMA AllocHalfKeeps ==
    ASSUME MemoryInv, AllocHalf
    PROVE  MemoryInv'
<1> USE DEF chunkVars, hostVars, tableVars, lineVars, history
<1>1. /\ pc = "ensure" /\ TypeOK /\ Serving /\ cur = 0
      /\ op.n > 0 /\ op.at \in Nat /\ op.n \in Nat
      /\ chunks \in Seq(Chunk) /\ Len(chunks) \in Nat /\ given \in Nat /\ free \subseteq 1 .. given
  BY ChunkTypes DEF AllocHalf, MemoryInv, ChunksInv, Serving, TypeOK, Chunk
<1>0. PICK lo \in Nat, hi \in Nat : lo = op.at /\ hi = op.at + op.n
  BY <1>1
<1>4. PICK L \in Nat : L = Len(chunks)
  BY <1>1
<1>5. \A k \in 1 .. L : /\ chunks[k].at \in Nat /\ chunks[k].frame \in Nat /\ chunks[k].n \in Nat
                        /\ chunks[k].n > 0 /\ chunks[k].at >= lo /\ ChunkEnd(k) <= hi
                        /\ k > 1 => chunks[k].at = ChunkEnd(k - 1)
                        /\ chunks[k].frame > 0 /\ chunks[k].frame + chunks[k].n <= given + 1
                        /\ ChunkEnd(k) \in Nat
  <2> SUFFICES ASSUME NEW k \in 1 .. L
               PROVE  /\ chunks[k].at \in Nat /\ chunks[k].frame \in Nat /\ chunks[k].n \in Nat
                      /\ chunks[k].n > 0 /\ chunks[k].at >= lo /\ ChunkEnd(k) <= hi
                      /\ k > 1 => chunks[k].at = ChunkEnd(k - 1)
                      /\ chunks[k].frame > 0 /\ chunks[k].frame + chunks[k].n <= given + 1
                      /\ ChunkEnd(k) \in Nat
    OBVIOUS
  <2>1. chunks[k].at \in Nat /\ chunks[k].frame \in Nat /\ chunks[k].n \in Nat
    BY <1>1, <1>4, ChunkTypes
  <2>2. /\ chunks[k].n > 0 /\ chunks[k].at >= op.at /\ ChunkEnd(k) <= op.at + op.n
        /\ k > 1 => chunks[k].at = ChunkEnd(k - 1)
        /\ chunks[k].frame > 0 /\ chunks[k].frame + chunks[k].n <= given + 1
    BY <1>1, <1>4 DEF MemoryInv, ChunksInv
  <2>3. ChunkEnd(k) \in Nat
    BY <2>1 DEF ChunkEnd
  <2> QED
    BY <1>0, <2>1, <2>2, <2>3
<1>6. PICK a : a = NextAt /\ a < hi
  BY <1>0, <1>1 DEF MemoryInv, ChunksInv
<1>7. /\ a \in Nat /\ a >= lo /\ a < hi
      /\ a = IF L = 0 THEN lo ELSE ChunkEnd(L)
  <2>1. a = IF L = 0 THEN lo ELSE ChunkEnd(L)
    BY <1>0, <1>1, <1>4, <1>6 DEF NextAt, ChunkEnd
  <2>2. CASE L = 0
    BY <1>0, <1>1, <1>6, <2>1, <2>2
  <2>3. CASE L # 0
    <3>1. L \in 1 .. L
      BY <2>3
    <3>2. chunks[L].at \in Nat /\ chunks[L].n \in Nat /\ chunks[L].at >= lo
      BY <1>5, <3>1
    <3>3. ChunkEnd(L) \in Nat /\ ChunkEnd(L) >= lo
      BY <1>0, <3>2 DEF ChunkEnd
    <3> QED
      BY <1>0, <1>1, <1>6, <2>1, <2>3, <3>3
  <2> QED
    BY <2>2, <2>3
<1>8. PICK r \in Nat : r = hi - a /\ r = Rest
  <2>1. Rest = hi - a
    <3>1. a = NextAt
      BY <1>6
    <3>2. PICK e : e = op.at + op.n
      OBVIOUS
    <3>3. Rest = e - a
      BY <1>1, <1>7, <3>1, <3>2 DEF Rest
    <3>4. e = hi
      BY <1>0, <3>2
    <3> QED
      BY <3>3, <3>4
  <2> QED
    BY <2>1, <1>7
<1>2. PICK m \in Powers(r) :
        /\ \E f \in FirstFit(m) :
              /\ chunks' = Append(chunks, [at |-> NextAt, frame |-> f, n |-> m])
              /\ free' = free \ Span(f, m)
        /\ pc' = IF m = r THEN "map" ELSE "ensure"
        /\ cur' = IF m = r THEN Len(chunks) + 1 ELSE 0
        /\ pos' = 0
        /\ UNCHANGED <<op, given, lastAlloc, size, hostVars, tableVars, lineVars, history, ret>>
  BY <1>8 DEF AllocHalf
<1>3. PICK f \in FirstFit(m) :
              /\ chunks' = Append(chunks, [at |-> NextAt, frame |-> f, n |-> m])
              /\ free' = free \ Span(f, m)
  BY <1>2
<1>9. m \in Nat /\ m > 0 /\ m <= r
  BY DEF Powers
<1>10. f \in Nat /\ f > 0 /\ f + m <= given + 1 /\ Span(f, m) \subseteq free
  <2>1. f \in free /\ Span(f, m) \subseteq free
    BY DEF FirstFit, Runs
  <2>2. f \in Nat /\ f > 0
    BY <1>0, <1>1, <2>1
  <2>3. f + m - 1 \in Span(f, m)
    BY <1>9, <2>2 DEF Span
  <2>4. f + m - 1 \in 1 .. given
    BY <1>0, <1>1, <2>1, <2>3
  <2> QED
    BY <1>0, <1>1, <1>9, <2>1, <2>2, <2>4
<1>11. a \in VPages
  <2>1. op.at = IF op.name = "brk" THEN brkEnd ELSE nextMmap
    BY <1>1 DEF MemoryInv, ChunksInv
  <2>2. op.at + op.n <= IF op.name = "brk" THEN MmapStart ELSE VEnd + 1
    BY <1>1 DEF MemoryInv, ChunksInv
  <2>3. brkEnd >= 1 /\ nextMmap >= 1
    BY Sizes DEF MemoryInv, TypeOK
  <2>4. lo >= 1 /\ hi <= VEnd + 1
    BY <1>0, <2>1, <2>2, <2>3, Sizes
  <2> QED
    BY <1>7, <2>4, Sizes
<1>12. PICK c : c = [at |-> a, frame |-> f, n |-> m]
  OBVIOUS
<1>13. c \in Chunk /\ c.at = a /\ c.frame = f /\ c.n = m
  BY <1>9, <1>10, <1>11, <1>12 DEF Chunk
<1>14. chunks' = Append(chunks, c)
  BY <1>3, <1>6, <1>12
<1>15. /\ chunks' \in Seq(Chunk) /\ Len(chunks') = L + 1 /\ chunks'[L + 1] = c
       /\ \A k \in 1 .. L : chunks'[k] = chunks[k]
  BY <1>0, <1>1, <1>4, <1>13, <1>14
<1>16. Chunk' = Chunk
  BY Fixed DEF Chunk
<1>17. /\ pc' \in {"map", "ensure"} /\ cur' \in Nat /\ pos' = 0
       /\ pc' = "map" => m = r /\ cur' = L + 1
       /\ pc' = "ensure" => m < r /\ cur' = 0
  BY <1>2, <1>4, <1>8, <1>9
<1>18. TypeOK'
  <2>1. chunks' \in Seq([at : VPages, frame : Nat, n : Nat]')
    BY <1>15, <1>16 DEF Chunk
  <2>2. free' \subseteq 1 .. given
    BY <1>0, <1>1, <1>3
  <2> QED
    BY <1>0, <1>1, <1>2, <1>17, <2>1, <2>2, Fixed DEF TypeOK
<1>19. /\ \A k \in 1 .. L : ChunkEnd(k)' = ChunkEnd(k)
       /\ ChunkEnd(L + 1)' = a + m /\ a + m <= hi
       /\ NextAt' = a + m
  <2>1. \A k \in 1 .. L : ChunkEnd(k)' = ChunkEnd(k)
    BY <1>15 DEF ChunkEnd
  <2>2. ChunkEnd(L + 1)' = a + m
    BY <1>13, <1>15 DEF ChunkEnd
  <2>3. chunks' # << >>
    BY <1>4, <1>15
  <2>4. NextAt' = a + m
    BY <1>13, <1>15, <2>3 DEF NextAt
  <2>5. a + m <= hi
    BY <1>7, <1>8, <1>9
  <2> QED
    BY <2>1, <2>2, <2>4, <2>5
<1>20. ChunksInv'
  <2>1. ASSUME NEW k \in 1 .. L + 1
        PROVE  /\ chunks'[k].n > 0 /\ chunks'[k].at >= lo /\ ChunkEnd(k)' <= hi
               /\ k > 1 => chunks'[k].at = ChunkEnd(k - 1)'
               /\ chunks'[k].frame > 0 /\ chunks'[k].frame + chunks'[k].n <= given + 1
    <3>1. CASE k \in 1 .. L
      <4>1. k > 1 => k - 1 \in 1 .. L
        BY <3>1
      <4>2. chunks'[k] = chunks[k] /\ ChunkEnd(k)' = ChunkEnd(k) /\ (k > 1 => ChunkEnd(k - 1)' = ChunkEnd(k - 1))
        BY <1>15, <1>19, <3>1, <4>1
      <4> QED
        BY <1>5, <3>1, <4>2
    <3>2. CASE k = L + 1
      <4>1. k > 1 => L \in 1 .. L /\ k - 1 = L
        BY <3>2
      <4>2. k > 1 => ChunkEnd(k - 1)' = ChunkEnd(L)
        BY <1>19, <4>1
      <4>3. chunks'[k].n = m /\ chunks'[k].at = a /\ chunks'[k].frame = f /\ ChunkEnd(k)' = a + m
        BY <1>13, <1>15, <1>19, <3>2
      <4>4. k > 1 => a = ChunkEnd(L)
        BY <1>7, <3>2
      <4> QED
        BY <1>7, <1>9, <1>10, <1>19, <4>2, <4>3, <4>4
    <3> QED
      BY <3>1, <3>2
  <2>2. chunks'[1].at = lo
    <3>1. CASE L = 0
      BY <1>7, <1>13, <1>15, <3>1
    <3>2. CASE L # 0
      <4>1. 1 \in 1 .. L
        BY <3>2
      <4> QED
        BY <1>0, <1>1, <1>4, <1>15, <3>2, <4>1 DEF MemoryInv, ChunksInv
    <3> QED
      BY <3>1, <3>2
  <2>3. pc' = "map" => cur' = L + 1 /\ pos' < chunks'[cur'].n /\ ChunkEnd(L + 1)' = hi
    <3>1. chunks'[L + 1].n = m
      BY <1>13, <1>15
    <3>2. m = r => a + m = hi
      BY <1>7, <1>8
    <3> QED
      BY <1>9, <1>17, <1>19, <3>1, <3>2
  <2>4. pc' = "ensure" => NextAt' < hi
    BY <1>7, <1>8, <1>9, <1>17, <1>19
  <2>5. op' = op /\ brkEnd' = brkEnd /\ nextMmap' = nextMmap /\ given' = given
    BY <1>2
  <2>6. Serving' /\ L + 1 > 0
    BY <1>17 DEF Serving
  <2>7. /\ lo = IF op.name = "brk" THEN brkEnd ELSE nextMmap
        /\ hi <= IF op.name = "brk" THEN MmapStart ELSE VEnd + 1
    BY <1>0, <1>1 DEF MemoryInv, ChunksInv
  <2>8. \A k \in 1 .. Len(chunks') :
               /\ chunks'[k].n > 0 /\ chunks'[k].at >= lo /\ ChunkEnd(k)' <= hi
               /\ k > 1 => chunks'[k].at = ChunkEnd(k - 1)'
               /\ chunks'[k].frame > 0 /\ chunks'[k].frame + chunks'[k].n <= given + 1
    BY <1>15, <2>1
  <2>9. /\ pc' \in {"map", "ensure"}
        /\ cur' > 0 => cur' <= Len(chunks') /\ pos' < chunks'[cur'].n /\ ChunkEnd(Len(chunks))' = hi
        /\ pc' = "ensure" => cur' = 0 /\ NextAt' < hi
        /\ pc' = "map" => cur' > 0
    BY <1>15, <1>17, <2>3, <2>4
  <2> QED
    BY <1>0, <1>1, <2>2, <2>5, <2>6, <2>7, <2>8, <2>9, Fixed DEF ChunksInv
<1>21. Mapped' = Mapped /\ Below' = Below /\ TablesMade' = TablesMade
  BY <1>2, Fixed DEF Mapped, Below, TablesMade
<1>22. SoFar = {} /\ SoFar' = {}
  <2>1. SoFar = {}
    BY <1>0, <1>1 DEF SoFar
  <2>2. CASE pc' = "map"
    <3>0. cur' = L + 1 /\ pos' = 0 /\ a + m = hi
      BY <1>7, <1>8, <1>17, <2>2
    <3>1. /\ Span(chunks'[cur'].at, pos') = a .. a - 1
          /\ ChunkEnd(cur)' = hi
      <4>1. Span(a, 0) = a .. a - 1
        BY <1>7 DEF Span
      <4> QED
        BY <1>13, <1>15, <1>19, <3>0, <4>1 DEF ChunkEnd
    <3>2. a .. a - 1 = {} /\ hi .. hi - 1 = {}
      BY <1>7
    <3>3. cur' > 0 /\ op' = op
      BY <1>2, <1>17, <2>2
    <3>4. SoFar' = Span(chunks'[cur'].at, pos') \cup (ChunkEnd(cur)' .. hi - 1)
      <4>1. SoFar' = (Span(chunks[cur].at, pos) \cup (ChunkEnd(cur) .. op.at + op.n - 1))'
        BY <2>2, <3>3 DEF SoFar
      <4>2. Span(chunks[cur].at, pos)' = Span(chunks'[cur'].at, pos')
        BY DEF Span
      <4> QED
        <5>1. op'.at + op'.n - 1 = hi - 1
          BY <1>0, <1>1, <3>3
        <5> QED
          BY <4>1, <4>2, <5>1
    <3> QED
      BY <2>1, <3>1, <3>2, <3>3, <3>4
  <2>3. CASE pc' = "ensure"
    BY <1>17, <2>1, <2>3 DEF SoFar
  <2> QED
    BY <1>17, <2>2, <2>3
<1>23. PagesInv'
  BY <1>0, <1>1, <1>2, <1>21, <1>22 DEF MemoryInv, PagesInv, Stops
<1>23a. PICK z \in Nat : z = L + 1
  OBVIOUS
<1>24. /\ \A k \in 1 .. L : Flight(k)' = Flight(k)
       /\ Flight(z)' = Span(f, m)
  <2>1. ASSUME NEW k \in 1 .. L PROVE Flight(k)' = Flight(k)
    <3>1. cur' = 0 \/ k < cur'
      BY <1>17
    <3>2. cur = 0 /\ chunks'[k] = chunks[k]
      BY <1>1, <1>15
    <3>3. Flight(k) = Span(chunks[k].frame, chunks[k].n)
      BY <3>2 DEF Flight
    <3>4. Flight(k)' = Span(chunks'[k].frame, chunks'[k].n)
      BY <3>1 DEF Flight, Span
    <3> QED
      BY <3>2, <3>3, <3>4
  <2>2. CASE pc' = "ensure"
    <3>2. cur' = 0 /\ chunks'[z].frame = f /\ chunks'[z].n = m
      BY <1>13, <1>15, <1>17, <1>23a, <2>2
    <3>3. Flight(z)' = (chunks'[z].frame .. chunks'[z].frame + chunks'[z].n - 1)
      BY <3>2 DEF Flight, Span
    <3> QED
      BY <1>9, <1>10, <2>1, <3>2, <3>3 DEF Span
  <2>3. CASE pc' = "map"
    <3>2. cur' = z /\ cur' # 0 /\ ~(z < z) /\ pos' = 0 /\ chunks'[z].frame = f /\ chunks'[z].n = m
      BY <1>13, <1>15, <1>17, <1>23a, <2>3
    <3>3. f + 0 = f /\ m - 0 = m
      BY <1>9, <1>10
    <3>4. Flight(z)' = (chunks'[z].frame + pos' .. chunks'[z].frame + pos' + (chunks'[z].n - pos') - 1)
      BY <3>2 DEF Flight, Span
    <3> QED
      BY <1>9, <1>10, <2>1, <3>2, <3>3, <3>4 DEF Span
  <2> QED
    BY <1>17, <2>1, <2>2, <2>3
<1>25. InFlight = UNION {Flight(k) : k \in 1 .. L} /\ InFlight' = InFlight \cup Span(f, m)
  <2>1. InFlight = UNION {Flight(k) : k \in 1 .. L}
    BY <1>0, <1>1, <1>4 DEF InFlight
  <2>2. InFlight' = UNION {Flight(k)' : k \in 1 .. L + 1}
    BY <1>15, <1>17 DEF InFlight
  <2>3. 1 .. L + 1 = (1 .. L) \cup {z}
    BY <1>23a
  <2> QED
    BY <1>24, <2>1, <2>2, <2>3
<1>26. FramesInv'
  <2> SUFFICES ASSUME left = {}
               PROVE  /\ EachOnce'
                      /\ \A j, k \in 1 .. L + 1 : j # k => Flight(j)' \cap Flight(k)' = {}
    BY <1>2, <1>15, <1>17 DEF FramesInv
  <2>1. EachOnce /\ \A j, k \in 1 .. L : j # k => Flight(j) \cap Flight(k) = {}
    BY <1>1, <1>4 DEF MemoryInv, FramesInv
  <2>2. pt' = pt /\ tab' = tab /\ given' = given /\ free' = free \ Span(f, m)
    BY <1>2, <1>3
  <2>3. EachOnce'
    BY <1>10, <1>21, <1>25, <2>1, <2>2, Fixed DEF EachOnce
  <2>4. \A j \in 1 .. L : Flight(j) \cap Span(f, m) = {}
    BY <1>10, <1>25, <2>1 DEF EachOnce
  <2>5. 1 .. L + 1 = (1 .. L) \cup {z}
    BY <1>23a
  <2>6. ASSUME NEW j \in (1 .. L) \cup {z}, NEW k \in (1 .. L) \cup {z}, j # k
        PROVE  Flight(j)' \cap Flight(k)' = {}
    <3>1. CASE j \in 1 .. L /\ k \in 1 .. L
      BY <1>24, <2>1, <2>6, <3>1
    <3>2. CASE j \in 1 .. L /\ k = z
      BY <1>24, <2>4, <3>2
    <3>3. CASE j = z /\ k \in 1 .. L
      BY <1>24, <2>4, <3>3
    <3> QED
      BY <2>6, <3>1, <3>2, <3>3
  <2> QED
    BY <2>3, <2>5, <2>6
<1>27. HostInv'
  BY <1>2, <1>17 DEF MemoryInv, HostInv, Exhausted
<1> QED
  BY <1>18, <1>20, <1>23, <1>26, <1>27 DEF MemoryInv

-----------------------------------------------------------------------------
\* The half that is being mapped lies above both lines.
LEMMA CurIs ==
    ASSUME MemoryInv, pc \in {"balloon", "map", "undo"}, cur > 0
    PROVE  \E lo, hi, a, n, b \in Nat :
             /\ lo = op.at /\ hi = op.at + op.n
             /\ a = chunks[cur].at /\ n = chunks[cur].n /\ b = chunks[cur].frame
             /\ 0 < lo /\ lo <= a /\ a + n <= hi /\ hi <= VEnd + 1
             /\ 0 < n /\ pos < n /\ 0 < b /\ b + n <= given + 1
             /\ cur \in 1 .. Len(chunks) /\ ChunkEnd(cur) = a + n
             /\ cur = 1 => a = lo
             /\ cur > 1 => ChunkEnd(cur - 1) = a
             /\ SoFar = (a .. a + (pos - 1)) \cup (a + n .. hi - 1)
             /\ lo .. hi - 1 \subseteq VPages /\ (lo .. hi - 1) \cap Below = {}
<1>1. TypeOK /\ Serving
  BY DEF MemoryInv, Serving
<1>2. /\ op.at \in Nat /\ op.n \in Nat /\ cur \in Nat /\ pos \in Nat /\ given \in Nat /\ Len(chunks) \in Nat
  BY <1>1, ChunkTypes
<1>3. cur \in 1 .. Len(chunks) /\ pos < chunks[cur].n
  BY <1>1, <1>2 DEF MemoryInv, ChunksInv
<1>4. chunks[cur].at \in Nat /\ chunks[cur].n \in Nat /\ chunks[cur].frame \in Nat
  BY <1>1, <1>3, ChunkTypes
<1>5. PICK lo \in Nat, hi \in Nat : lo = op.at /\ hi = op.at + op.n
  BY <1>2
<1>6. PICK a \in Nat, n \in Nat, b \in Nat : a = chunks[cur].at /\ n = chunks[cur].n /\ b = chunks[cur].frame
  BY <1>4
<1>7. /\ chunks[cur].n > 0 /\ chunks[cur].at >= op.at /\ ChunkEnd(cur) <= op.at + op.n
      /\ cur > 1 => chunks[cur].at = ChunkEnd(cur - 1)
      /\ chunks[cur].frame > 0 /\ chunks[cur].frame + chunks[cur].n <= given + 1
      /\ Len(chunks) > 0 => chunks[1].at = op.at
  BY <1>1, <1>3 DEF MemoryInv, ChunksInv
<1>8. ChunkEnd(cur) = a + n
  BY <1>6 DEF ChunkEnd
<1>9. lo <= a /\ a + n <= hi /\ 0 < n /\ pos < n /\ 0 < b /\ b + n <= given + 1
  BY <1>3, <1>5, <1>6, <1>7, <1>8
<1>10. (cur = 1 => a = lo) /\ (cur > 1 => ChunkEnd(cur - 1) = a)
  BY <1>3, <1>5, <1>6, <1>7
<1>11. SoFar = (a .. a + (pos - 1)) \cup (a + n .. hi - 1)
  <2>1. SoFar = Span(chunks[cur].at, pos) \cup (ChunkEnd(cur) .. op.at + op.n - 1)
    BY DEF SoFar
  <2>2. op.at + op.n - 1 = hi - 1
    <3>1. \A x, y \in Nat : x + y - 1 = (x + y) - 1
      OBVIOUS
    <3>2. op.at + op.n - 1 = (op.at + op.n) - 1
      BY <1>2, <3>1
    <3> QED
      BY <1>5, <3>2
  <2>3. Span(chunks[cur].at, pos) = (a .. a + (pos - 1))
    BY <1>6 DEF Span
  <2> QED
    BY <1>8, <2>1, <2>2, <2>3
<1>12. /\ lo = IF op.name = "brk" THEN brkEnd ELSE nextMmap
       /\ hi <= IF op.name = "brk" THEN MmapStart ELSE VEnd + 1
       /\ brkEnd \in Nat /\ brkEnd >= 1 /\ brkEnd <= MmapStart
       /\ nextMmap \in Nat /\ nextMmap >= MmapStart /\ nextMmap <= VEnd + 1
  <2>1. /\ lo = IF op.name = "brk" THEN brkEnd ELSE nextMmap
        /\ hi <= IF op.name = "brk" THEN MmapStart ELSE VEnd + 1
    BY <1>1, <1>5 DEF MemoryInv, ChunksInv
  <2>2. /\ brkEnd \in BrkStart .. BrkStart + BrkPages
        /\ nextMmap \in MmapStart .. MmapStart + MmapPages
    BY <1>1 DEF TypeOK
  <2> QED
    BY <2>1, <2>2, Sizes
<1>13. 0 < lo /\ hi <= VEnd + 1
  BY <1>12, Sizes
<1>14. lo .. hi - 1 \subseteq VPages
  BY <1>13, Sizes
<1>15. (lo .. hi - 1) \cap Below = {}
  <2>1. Below = (1 .. brkEnd - 1) \cup (MmapStart .. nextMmap - 1)
    BY Sizes DEF Below
  <2>2. CASE op.name = "brk"
    BY <1>12, <2>1, <2>2, Sizes
  <2>3. CASE op.name # "brk"
    BY <1>12, <2>1, <2>3, Sizes
  <2> QED
    BY <2>2, <2>3
<1> QED
  BY <1>3, <1>5, <1>6, <1>8, <1>9, <1>10, <1>11, <1>13, <1>14, <1>15

\* One frame goes from a half to a page, and another may go to a page table.
LEMMA MapFrame ==
    ASSUME TypeOK, EachOnce, NEW p \in VPages, pt[p] = 0, NEW g \in InFlight,
           pt' = [pt EXCEPT ![p] = g], InFlight' = InFlight \ {g}, given' = given, g # 0,
           Mapped' = Mapped \cup {p},
           \/ tab' = tab /\ free' = free
           \/ \E t \in Tables, f \in free :
                 tab[t] = 0 /\ tab' = [tab EXCEPT ![t] = f] /\ free' = free \ {f}
    PROVE  EachOnce'
<1>1. /\ pt \in [VPages -> 0 .. given] /\ tab \in [Tables -> 0 .. given] /\ free \subseteq 1 .. given
      /\ given \in Nat
  BY DEF TypeOK
<1>2. /\ \A q \in VPages : pt'[q] = IF q = p THEN g ELSE pt[q]
      /\ p \notin Mapped /\ Mapped \subseteq VPages
  BY <1>1 DEF Mapped
<1>3. CASE tab' = tab /\ free' = free
  <2>1. TablesMade' = TablesMade
    BY <1>3, Fixed DEF TablesMade
  <2>2. ASSUME NEW f \in 1 .. given
        PROVE  \/ f \in free \/ f \in InFlight' \/ \E q \in VPages : pt'[q] = f
               \/ \E t \in Tables : tab[t] = f
    <3>1. CASE \E q \in VPages : pt[q] = f
      <4>1. PICK q \in VPages : pt[q] = f
        BY <3>1
      <4>2. q # p
        BY <2>2, <4>1
      <4> QED
        BY <1>2, <4>1, <4>2
    <3>2. CASE f = g
      BY <1>2, <3>2
    <3> QED
      BY <3>1, <3>2 DEF EachOnce
  <2>3. \A q \in Mapped' : pt'[q] \notin free /\ pt'[q] \notin InFlight'
    BY <1>2 DEF EachOnce
  <2>4. \A q \in Mapped', t \in TablesMade : pt'[q] # tab[t]
    BY <1>2 DEF EachOnce
  <2>5. \A q, r \in Mapped' : pt'[q] = pt'[r] => q = r
    BY <1>2 DEF EachOnce
  <2>6. /\ free \cap InFlight' = {}
        /\ \A t \in TablesMade : tab[t] \notin free /\ tab[t] \notin InFlight'
        /\ \A t, u \in TablesMade : tab[t] = tab[u] => t = u
    BY DEF EachOnce
  <2> QED
    BY <1>3, <2>1, <2>2, <2>3, <2>4, <2>5, <2>6, Fixed DEF EachOnce
<1>4. CASE \E t \in Tables, f \in free :
              tab[t] = 0 /\ tab' = [tab EXCEPT ![t] = f] /\ free' = free \ {f}
  <2>0. PICK v \in Tables, h \in free :
              tab[v] = 0 /\ tab' = [tab EXCEPT ![v] = h] /\ free' = free \ {h}
    BY <1>4
  <2>1. \A t \in Tables : tab'[t] = IF t = v THEN h ELSE tab[t]
    BY <1>1, <2>0
  <2>2. h # 0 /\ h \in free /\ h \notin InFlight
    BY <1>1 DEF EachOnce
  <2>3. TablesMade' = TablesMade \cup {v} /\ v \notin TablesMade /\ TablesMade \subseteq Tables
    BY <2>0, <2>1, <2>2, Fixed DEF TablesMade
  <2>4. ASSUME NEW f \in 1 .. given
        PROVE  \/ f \in free' \/ f \in InFlight' \/ \E q \in VPages : pt'[q] = f
               \/ \E t \in Tables : tab'[t] = f
    <3>1. CASE \E q \in VPages : pt[q] = f
      <4>1. PICK q \in VPages : pt[q] = f
        BY <3>1
      <4>2. q # p
        BY <2>4, <4>1
      <4> QED
        BY <1>2, <4>1, <4>2
    <3>2. CASE f = g
      BY <1>2, <3>2
    <3>3. CASE f = h
      BY <2>1, <3>3
    <3>4. CASE \E t \in Tables : tab[t] = f
      <4>1. PICK t \in Tables : tab[t] = f
        BY <3>4
      <4>2. t # v
        BY <2>0, <2>4, <4>1
      <4> QED
        BY <2>1, <4>1, <4>2
    <3> QED
      BY <2>0, <3>1, <3>2, <3>3, <3>4 DEF EachOnce
  <2>5. \A q \in Mapped' : pt'[q] \notin free' /\ pt'[q] \notin InFlight'
    BY <1>2, <2>0 DEF EachOnce
  <2>6. \A q \in Mapped', t \in TablesMade' : pt'[q] # tab'[t]
    BY <1>2, <2>1, <2>2, <2>3 DEF EachOnce
  <2>7. \A q, r \in Mapped' : pt'[q] = pt'[r] => q = r
    BY <1>2 DEF EachOnce
  <2>8. free' \cap InFlight' = {}
    BY <2>0 DEF EachOnce
  <2>9. \A t \in TablesMade' : tab'[t] \notin free' /\ tab'[t] \notin InFlight'
    BY <2>0, <2>1, <2>2, <2>3 DEF EachOnce
  <2>10. \A t, u \in TablesMade' : tab'[t] = tab'[u] => t = u
    BY <2>1, <2>2, <2>3 DEF EachOnce
  <2> QED
    BY <2>4, <2>5, <2>6, <2>7, <2>8, <2>9, <2>10, Fixed DEF EachOnce
<1> QED
  BY <1>3, <1>4

\* map_memory fails, or goes for a page table's frame.
LEMMA MapStopsKeeps ==
    ASSUME MemoryInv, pc = "map", UNCHANGED <<op, chunkVars, heapVars, hostVars, tableVars, lineVars, history, ret>>,
           \/ pt[chunks[cur].at + pos] # 0 /\ pc' = "undo" /\ size' = size
           \/ CallBalloon
    PROVE  MemoryInv'
<1> USE DEF CallBalloon, chunkVars, heapVars, hostVars, tableVars, lineVars, history
<1>1. TypeOK /\ cur > 0 /\ cur \in Nat /\ Serving
  BY DEF MemoryInv, ChunksInv, TypeOK, Serving
<1>2. TypeOK' /\ pc' \in {"undo", "balloon"}
  BY <1>1, Fixed DEF TypeOK
<1>3. ChunksInv'
  BY <1>1, <1>2, Fixed DEF MemoryInv, ChunksInv, Serving, ChunkEnd
<1>4. PagesInv' /\ FramesInv'
  BY <1>2, SameFrames
<1>5. pc' = "undo" => left # {}
  <2> SUFFICES ASSUME pc' = "undo", left = {} PROVE FALSE
    OBVIOUS
  <2>1. PICK lo \in Nat, hi \in Nat, a \in Nat, n \in Nat, b \in Nat :
             /\ lo = op.at /\ hi = op.at + op.n
             /\ a = chunks[cur].at /\ n = chunks[cur].n /\ b = chunks[cur].frame
             /\ 0 < lo /\ lo <= a /\ a + n <= hi /\ hi <= VEnd + 1
             /\ 0 < n /\ pos < n /\ 0 < b /\ b + n <= given + 1
             /\ cur \in 1 .. Len(chunks) /\ ChunkEnd(cur) = a + n
             /\ cur = 1 => a = lo
             /\ cur > 1 => ChunkEnd(cur - 1) = a
             /\ SoFar = (a .. a + (pos - 1)) \cup (a + n .. hi - 1)
             /\ lo .. hi - 1 \subseteq VPages /\ (lo .. hi - 1) \cap Below = {}
    BY <1>1, CurIs
  <2>1a. lo <= a /\ a + n <= hi /\ pos < n /\ SoFar = (a .. a + (pos - 1)) \cup (a + n .. hi - 1)
    BY <2>1
  <2>2. pos \in Nat /\ pt[a + pos] # 0
    BY <1>1, <2>1 DEF TypeOK
  <2>3. a + pos \in lo .. hi - 1 /\ a + pos \notin SoFar
    BY <2>1a, <2>2
  <2>4. a + pos \in Mapped
    BY <2>1, <2>2, <2>3 DEF Mapped
  <2> QED
    BY <2>1, <2>3, <2>4 DEF MemoryInv, PagesInv, Stops
<1>6. HostInv'
  BY <1>2, <1>5 DEF MemoryInv, HostInv, Exhausted
<1> QED
  BY <1>2, <1>3, <1>4, <1>6 DEF MemoryInv

LEMMA MapPageKeeps ==
    ASSUME MemoryInv, MapPage
    PROVE  MemoryInv'
<1> USE DEF chunkVars, heapVars, hostVars, tableVars, lineVars, history
<1>1. /\ pc = "map" /\ TypeOK /\ cur > 0 /\ cur \in Nat /\ pos \in Nat /\ given \in Nat /\ Serving
  BY DEF MapPage, MemoryInv, ChunksInv, TypeOK, Serving
<1>2. CASE /\ pt[chunks[cur].at + pos] # 0 /\ pc' = "undo"
           /\ UNCHANGED <<chunkVars, free, size, tableVars, op, given, lastAlloc, hostVars, lineVars, history, ret>>
  BY <1>1, <1>2, MapStopsKeeps
<1>3. CASE CallBalloon /\ UNCHANGED <<chunkVars, free, tableVars, op, given, lastAlloc, hostVars, lineVars, history, ret>>
  BY <1>1, <1>3, MapStopsKeeps
<1>4. CASE /\ pt[chunks[cur].at + pos] = 0
           /\ pt' = [pt EXCEPT ![chunks[cur].at + pos] = chunks[cur].frame + pos]
           /\ \/ UNCHANGED <<tab, free>>
              \/ /\ tab[TableOf(chunks[cur].at + pos)] = 0
                 /\ \E f \in FirstFit(1) : tab' = [tab EXCEPT ![TableOf(chunks[cur].at + pos)] = f] /\ free' = free \ {f}
           /\ pos' = IF pos + 1 < chunks[cur].n THEN pos + 1 ELSE 0
           /\ cur' = IF pos + 1 < chunks[cur].n THEN cur ELSE cur - 1
           /\ pc' = IF pos + 1 = chunks[cur].n /\ cur = 1 THEN "finish" ELSE "map"
           /\ UNCHANGED <<chunks, size, op, given, lastAlloc, hostVars, lineVars, history, ret>>
  <2>1. PICK lo \in Nat, hi \in Nat, a \in Nat, n \in Nat, b \in Nat :
             /\ lo = op.at /\ hi = op.at + op.n
             /\ a = chunks[cur].at /\ n = chunks[cur].n /\ b = chunks[cur].frame
             /\ 0 < lo /\ lo <= a /\ a + n <= hi /\ hi <= VEnd + 1
             /\ 0 < n /\ pos < n /\ 0 < b /\ b + n <= given + 1
             /\ cur \in 1 .. Len(chunks) /\ ChunkEnd(cur) = a + n
             /\ cur = 1 => a = lo
             /\ cur > 1 => ChunkEnd(cur - 1) = a
             /\ SoFar = (a .. a + (pos - 1)) \cup (a + n .. hi - 1)
             /\ lo .. hi - 1 \subseteq VPages /\ (lo .. hi - 1) \cap Below = {}
    BY <1>1, CurIs
  <2>1a. 0 < lo /\ lo <= a /\ a + n <= hi /\ 0 < n /\ pos < n /\ 0 < b /\ b + n <= given + 1
    BY <2>1
  <2>2. PICK p \in Nat, g \in Nat : p = a + pos /\ g = b + pos
    BY <1>1
  <2>3. p \in VPages /\ g \in 1 .. given /\ g # 0 /\ TableOf(p) \in Tables
    <3>1. p \in lo .. hi - 1 /\ g \in 1 .. given /\ g # 0
      BY <1>1, <2>1a, <2>2
    <3> QED
      BY <2>1, <3>1 DEF Tables
  <2>4. /\ pt[p] = 0 /\ pt' = [pt EXCEPT ![p] = g]
        /\ \/ tab' = tab /\ free' = free
           \/ \E t \in Tables, f \in free :
                 tab[t] = 0 /\ tab' = [tab EXCEPT ![t] = f] /\ free' = free \ {f}
    <3>1. FirstFit(1) \subseteq free
      BY DEF FirstFit, Runs
    <3> QED
      BY <1>4, <2>1, <2>2, <2>3, <3>1
  <2>5. /\ pos' = IF pos + 1 < n THEN pos + 1 ELSE 0
        /\ cur' = IF pos + 1 < n THEN cur ELSE cur - 1
        /\ pc' = IF pos + 1 = n /\ cur = 1 THEN "finish" ELSE "map"
        /\ UNCHANGED <<chunks, size, op, given, lastAlloc, host, slots, brkEnd, nextMmap, own, stray, left, torn, ret>>
    BY <1>4, <2>1
  <2>6. TypeOK'
    <3>1. pt' \in [VPages -> 0 .. given]
      BY <1>1, <2>3, <2>4 DEF TypeOK
    <3>2. tab' \in [Tables -> 0 .. given] /\ free' \subseteq 1 .. given
      <4>1. tab \in [Tables -> 0 .. given] /\ free \subseteq 1 .. given /\ 1 .. given \subseteq 0 .. given
        BY <1>1 DEF TypeOK
      <4>2. CASE tab' = tab /\ free' = free
        BY <4>1, <4>2
      <4>3. ASSUME NEW t \in Tables, NEW f \in free, tab' = [tab EXCEPT ![t] = f], free' = free \ {f}
            PROVE  tab' \in [Tables -> 0 .. given] /\ free' \subseteq 1 .. given
        <5>1. f \in 0 .. given
          BY <4>1
        <5> QED
          BY <4>1, <4>3, <5>1
      <4> QED
        BY <2>4, <4>2, <4>3
    <3>3. pos' \in Nat /\ cur' \in Nat /\ pc' \in {"map", "finish"}
      BY <1>1, <2>5
    <3> QED
      BY <1>1, <2>5, <3>1, <3>2, <3>3, Fixed DEF TypeOK
  <2>7. Mapped' = Mapped \cup {p} /\ Below' = Below
    <3>1. \A q \in VPages : pt'[q] = IF q = p THEN g ELSE pt[q]
      BY <1>1, <2>3, <2>4 DEF TypeOK
    <3>2. Mapped' = Mapped \cup {p}
      BY <2>3, <3>1, Fixed DEF Mapped
    <3> QED
      BY <2>5, <3>2, Fixed DEF Below
  <2>8. HostInv'
    <3>1. pc' # "balloon" /\ pc' # "undo"
      BY <2>5
    <3> QED
      BY <2>5, <3>1 DEF MemoryInv, HostInv, Exhausted
  <2>8a. op.at + op.n - 1 = hi - 1 /\ op.at \in Nat /\ op.n \in Nat
    <3>1. op.at \in Nat /\ op.n \in Nat
      BY <1>1, ChunkTypes
    <3>2. \A x, y \in Nat : x + y - 1 = (x + y) - 1
      OBVIOUS
    <3>3. op.at + op.n - 1 = (op.at + op.n) - 1
      BY <3>1, <3>2
    <3> QED
      BY <2>1, <3>1, <3>3
  <2>8b. PICK d \in Nat, e \in Nat : d = cur' /\ e = pos'
    BY <2>6 DEF TypeOK
  <2>8c. ASSUME pc' = "map", d > 0, NEW x \in Nat, NEW y \in Nat, x = chunks[d].at, y = chunks[d].n
         PROVE  SoFar' = (x .. x + (e - 1)) \cup (x + y .. hi - 1)
    <3>1. SoFar' = (Span(chunks[cur].at, pos) \cup (ChunkEnd(cur) .. op.at + op.n - 1))'
      BY <2>8b, <2>8c DEF SoFar
    <3>2. Span(chunks[cur].at, pos)' = (x .. x + (e - 1)) /\ ChunkEnd(cur)' = x + y
      BY <2>5, <2>8b, <2>8c DEF Span, ChunkEnd
    <3>3. (op.at + op.n - 1)' = hi - 1
      BY <2>5, <2>8a
    <3> QED
      BY <3>1, <3>2, <3>3
  <2>9. ChunksInv' /\ SoFar' = SoFar \cup {p}
    <3>1. /\ cur > 0 => cur \in 1 .. Len(chunks) /\ ChunkEnd(Len(chunks)) = op.at + op.n
          /\ op.n > 0
          /\ op.at = IF op.name = "brk" THEN brkEnd ELSE nextMmap
          /\ op.at + op.n <= IF op.name = "brk" THEN MmapStart ELSE VEnd + 1
          /\ \A k \in 1 .. Len(chunks) :
               /\ chunks[k].n > 0 /\ chunks[k].at >= op.at /\ ChunkEnd(k) <= op.at + op.n
               /\ k > 1 => chunks[k].at = ChunkEnd(k - 1)
               /\ chunks[k].frame > 0 /\ chunks[k].frame + chunks[k].n <= given + 1
          /\ Len(chunks) > 0 => chunks[1].at = op.at
      BY <1>1, <2>1 DEF MemoryInv, ChunksInv
    <3>2. ASSUME /\ pc' \in {"map", "finish"}
                 /\ pc' = "map" => cur' > 0 /\ cur' <= Len(chunks) /\ pos' < chunks[cur'].n
                 /\ pc' = "finish" => cur' = 0
          PROVE  ChunksInv'
      BY <1>1, <2>5, <3>1, <3>2, Fixed DEF ChunksInv, Serving, ChunkEnd
    <3>3. Len(chunks) \in Nat
      BY <1>1, ChunkTypes
    <3>4. CASE pos + 1 < n
      <4>1. pc' = "map" /\ cur' = cur /\ pos' = pos + 1
        BY <1>1, <2>5, <3>4
      <4>2. ChunksInv'
        BY <1>1, <2>1, <3>2, <3>3, <3>4, <4>1
      <4>3. SoFar' = (a .. a + ((pos + 1) - 1)) \cup (a + n .. hi - 1)
        BY <1>1, <2>1, <2>8b, <2>8c, <4>1
      <4>4. a .. a + ((pos + 1) - 1) = (a .. a + (pos - 1)) \cup {a + pos}
        BY <1>1
      <4> QED
        BY <2>1, <2>2, <4>2, <4>3, <4>4
    <3>5. CASE pos + 1 = n /\ cur = 1
      <4>1. pc' = "finish" /\ cur' = 0
        BY <1>1, <2>5, <3>5
      <4>2. ChunksInv'
        BY <3>2, <4>1
      <4>3. SoFar' = (lo .. hi - 1)
        <5>1. SoFar' = (op.at .. op.at + op.n - 1)'
          BY <4>1 DEF SoFar, Span
        <5> QED
          BY <2>1, <2>5, <2>8a, <5>1
      <4>4. a = lo /\ SoFar = (a .. a + (pos - 1)) \cup (a + n .. hi - 1)
        BY <2>1, <3>5
      <4>5. lo .. hi - 1 = (a .. a + (pos - 1)) \cup (a + n .. hi - 1) \cup {a + pos}
        BY <1>1, <2>1a, <3>5, <4>4
      <4> QED
        BY <2>2, <4>2, <4>3, <4>4, <4>5
    <3>6. CASE pos + 1 = n /\ cur # 1
      <4>1. pc' = "map" /\ d = cur - 1 /\ e = 0 /\ pos' = 0 /\ cur > 1 /\ d > 0 /\ cur' = d
        BY <1>1, <2>5, <2>8b, <3>6
      <4>2. d \in 1 .. Len(chunks)
        <5>1. cur \in 1 .. Len(chunks)
          BY <2>1
        <5> QED
          BY <1>1, <3>3, <4>1, <5>1
      <4>3. chunks[d].n > 0 /\ chunks[d].at \in Nat /\ chunks[d].n \in Nat
        BY <1>1, <3>1, <4>2, ChunkTypes
      <4>4. ChunksInv'
        BY <3>2, <3>3, <4>1, <4>2, <4>3
      <4>5. PICK x \in Nat, y \in Nat : x = chunks[d].at /\ y = chunks[d].n
        BY <4>3
      <4>6. SoFar' = (x .. x + (e - 1)) \cup (x + y .. hi - 1)
        BY <2>8c, <4>1, <4>5
      <4>7. x + y = a
        <5>1. ChunkEnd(cur - 1) = a
          BY <2>1, <4>1
        <5> QED
          BY <4>1, <4>5, <5>1 DEF ChunkEnd
      <4>8. x .. x + (e - 1) = {}
        BY <4>1
      <4>9. a .. hi - 1 = (a .. a + (pos - 1)) \cup (a + n .. hi - 1) \cup {a + pos}
        BY <1>1, <2>1a, <3>6
      <4>10. SoFar = (a .. a + (pos - 1)) \cup (a + n .. hi - 1)
        BY <2>1
      <4> QED
        BY <2>2, <4>4, <4>6, <4>7, <4>8, <4>9, <4>10
    <3> QED
      BY <1>1, <2>1a, <3>4, <3>5, <3>6
  <2>10. PagesInv'
    <3>1. /\ SoFar \subseteq Mapped /\ own \subseteq Mapped \cup torn
          /\ Mapped \subseteq own \cup stray \cup left \cup SoFar /\ own \subseteq Below
          /\ (left = {} => Mapped \subseteq Below \cup SoFar)
      BY <1>1 DEF MemoryInv, PagesInv, Stops
    <3>2. own' = own /\ stray' = stray /\ left' = left /\ torn' = torn
      BY <2>5
    <3> QED
      BY <2>7, <2>9, <3>1, <3>2 DEF PagesInv
  <2>11. FramesInv'
    <3> SUFFICES ASSUME left = {}
                 PROVE  /\ EachOnce'
                        /\ pc' # "finish" => \A j, k \in 1 .. Len(chunks) : j # k => Flight(j)' \cap Flight(k)' = {}
      <4>1. pc' # "corrupt" /\ chunks' = chunks /\ left' = left
        BY <2>5
      <4> QED
        BY <4>1 DEF FramesInv
    <3>1. EachOnce /\ \A j, k \in 1 .. Len(chunks) : j # k => Flight(j) \cap Flight(k) = {}
      BY <1>1 DEF MemoryInv, FramesInv
    <3>2. InFlight = UNION {Flight(k) : k \in 1 .. Len(chunks)} /\ cur \in 1 .. Len(chunks)
      BY <1>1, <2>1 DEF InFlight
    <3>3. Flight(cur) = (b + pos .. (b + n) - 1)
      <4>1. Flight(cur) = Span(chunks[cur].frame + pos, chunks[cur].n - pos)
        BY <1>1 DEF Flight
      <4>2. Span(b + pos, n - pos) = (b + pos .. (b + n) - 1)
        BY <1>1 DEF Span
      <4> QED
        BY <2>1, <4>1, <4>2
    <3>4. g \in Flight(cur) /\ g \in InFlight
      <4>1. g \in Flight(cur)
        BY <1>1, <2>1a, <2>2, <3>3
      <4> QED
        BY <3>2, <4>1
    <3>5. ASSUME pc' # "finish", NEW k \in 1 .. Len(chunks)
          PROVE  Flight(k)' = IF k = cur THEN Flight(k) \ {g} ELSE Flight(k)
      <4>1. pc' = "map" /\ chunks' = chunks
        BY <2>5, <3>5
      <4>2. CASE pos + 1 < n
        <5>1. cur' = cur /\ pos' = pos + 1
          BY <2>5, <4>2
        <5>2. CASE k < cur
          <6>1. Flight(k) = Span(chunks[k].frame, chunks[k].n)
            BY <5>2 DEF Flight
          <6>2. Flight(k)' = Span(chunks[k].frame, chunks[k].n)
            BY <4>1, <5>1, <5>2 DEF Flight, Span
          <6> QED
            BY <1>1, <5>2, <6>1, <6>2
        <5>3. CASE k = cur
          <6>1. Flight(cur)' = Span(chunks[cur].frame + pos, chunks[cur].n - pos)'
            BY <1>1, <5>1 DEF Flight
          <6>2. Flight(cur)' = Span(b + (pos + 1), n - (pos + 1))
            BY <2>1, <4>1, <5>1, <6>1 DEF Span
          <6>3. Span(b + (pos + 1), n - (pos + 1)) = (b + pos .. (b + n) - 1) \ {b + pos}
            BY <1>1, <2>1a DEF Span
          <6>4. Flight(k)' = Flight(cur)'
            BY <5>1, <5>3 DEF Flight
          <6> QED
            BY <2>2, <3>3, <5>3, <6>2, <6>3, <6>4
        <5>4. CASE k > cur
          <6>1. Flight(k) = {}
            BY <1>1, <5>4 DEF Flight
          <6>2. Flight(k)' = {}
            BY <1>1, <5>1, <5>4 DEF Flight
          <6> QED
            BY <1>1, <5>4, <6>1, <6>2
        <5> QED
          BY <1>1, <5>2, <5>3, <5>4
      <4>3. CASE pos + 1 = n
        <5>1. d = cur - 1 /\ d > 0 /\ cur' = d /\ pos' = 0
          BY <1>1, <2>5, <2>8b, <3>5, <4>3
        <5>2. CASE k < d
          <6>1. k < cur /\ k # cur
            BY <1>1, <5>1, <5>2
          <6>2. Flight(k) = Span(chunks[k].frame, chunks[k].n)
            BY <6>1 DEF Flight
          <6>3. Flight(k)' = Span(chunks[k].frame, chunks[k].n)
            BY <4>1, <5>1, <5>2 DEF Flight, Span
          <6> QED
            BY <6>1, <6>2, <6>3
        <5>3. CASE k = d
          <6>1. k < cur /\ k # cur /\ ~(k < d) /\ d # 0
            BY <1>1, <5>1, <5>3
          <6>2. PICK x \in Nat, y \in Nat : x = chunks[k].frame /\ y = chunks[k].n
            BY <1>1, ChunkTypes
          <6>3. Flight(k) = Span(x, y)
            BY <6>1, <6>2 DEF Flight
          <6>4. Flight(k)' = Span(chunks[k].frame + 0, chunks[k].n - 0)
            BY <4>1, <5>1, <5>3, <6>1 DEF Flight, Span
          <6>5. Flight(k)' = Span(x + 0, y - 0)
            BY <6>2, <6>4
          <6>6. x + 0 = x /\ y - 0 = y
            OBVIOUS
          <6> QED
            BY <6>1, <6>3, <6>5, <6>6
        <5>4. CASE k > d
          <6>1. Flight(k)' = {}
            BY <1>1, <5>1, <5>4 DEF Flight
          <6>2. CASE k = cur
            <7>1. Flight(k) = {g}
              BY <1>1, <2>2, <3>3, <4>3, <6>2
            <7> QED
              BY <6>1, <6>2, <7>1
          <6>3. CASE k # cur
            <7>1. k > cur
              BY <1>1, <5>1, <5>4, <6>3
            <7>2. Flight(k) = {}
              BY <1>1, <7>1 DEF Flight
            <7> QED
              BY <6>1, <6>3, <7>2
          <6> QED
            BY <6>2, <6>3
        <5> QED
          BY <5>2, <5>3, <5>4
      <4> QED
        BY <1>1, <2>1a, <4>2, <4>3
    <3>6. InFlight' = InFlight \ {g}
      <4>1. CASE pc' = "finish"
        <5>1. cur = 1 /\ pos + 1 = n
          BY <2>5, <4>1
        <5>2. Flight(cur) = {g}
          BY <1>1, <2>2, <3>3, <5>1
        <5>3. ASSUME NEW k \in 1 .. Len(chunks), k # cur PROVE Flight(k) = {}
          BY <1>1, <5>1, <5>3 DEF Flight
        <5>4. InFlight' = {}
          BY <4>1 DEF InFlight
        <5> QED
          BY <3>2, <5>2, <5>3, <5>4
      <4>2. CASE pc' # "finish"
        <5>1. InFlight' = UNION {Flight(k)' : k \in 1 .. Len(chunks)}
          BY <2>5, <4>2 DEF InFlight
        <5>2. ASSUME NEW f
              PROVE  f \in InFlight' <=> f \in InFlight /\ f # g
          BY <3>1, <3>2, <3>4, <3>5, <4>2, <5>1
        <5> QED
          BY <5>2
      <4> QED
        BY <4>1, <4>2
    <3>7. EachOnce'
      BY <1>1, <2>3, <2>4, <2>5, <2>7, <3>1, <3>4, <3>6, MapFrame
    <3> QED
      BY <3>1, <3>5, <3>7
  <2> QED
    BY <2>6, <2>8, <2>9, <2>10, <2>11 DEF MemoryInv
<1> QED
  BY <1>1, <1>2, <1>3, <1>4 DEF MapPage

-----------------------------------------------------------------------------
(* The end of a request.                                                   *)

LEMMA NoOpIs == NoOp \in [name : Names, at : Nat, n : Nat, from : Ranges, drop : BOOLEAN]
  BY DEF NoOp, Names, BrkStart, Ranges

LEMMA UndoKeeps ==
    ASSUME MemoryInv, Undo
    PROVE  MemoryInv'
<1> USE DEF chunkVars, heapVars, hostVars, tableVars, lineVars, history
<1>1. /\ pc = "undo" /\ TypeOK /\ cur > 0 /\ cur \in Nat /\ pos \in Nat /\ given \in Nat /\ Serving
  BY DEF Undo, MemoryInv, ChunksInv, TypeOK, Serving
<1>2. PICK lo \in Nat, hi \in Nat, a \in Nat, n \in Nat, b \in Nat :
             /\ lo = op.at /\ hi = op.at + op.n
             /\ a = chunks[cur].at /\ n = chunks[cur].n /\ b = chunks[cur].frame
             /\ 0 < lo /\ lo <= a /\ a + n <= hi /\ hi <= VEnd + 1
             /\ 0 < n /\ pos < n /\ 0 < b /\ b + n <= given + 1
             /\ cur \in 1 .. Len(chunks) /\ ChunkEnd(cur) = a + n
             /\ cur = 1 => a = lo
             /\ cur > 1 => ChunkEnd(cur - 1) = a
             /\ SoFar = (a .. a + (pos - 1)) \cup (a + n .. hi - 1)
             /\ lo .. hi - 1 \subseteq VPages /\ (lo .. hi - 1) \cap Below = {}
  BY <1>1, CurIs
<1>3. PICK out, here, back :
        /\ out = Behind /\ here = (a .. a + (pos - 1)) /\ back = FramesOfChunks(1 .. cur)
  OBVIOUS
<1>4. /\ pt' = Without(out) /\ free' = (free \cup back) \cup FramesOf(out)
      /\ left' = left \cup here
      /\ pc' = "idle" /\ op' = NoOp /\ chunks' = << >> /\ cur' = 0 /\ pos' = 0 /\ ret' = "ENOMEM"
      /\ UNCHANGED <<given, lastAlloc, size, host, slots, tab, brkEnd, nextMmap, own, stray, torn>>
  <2>1. Span(chunks[cur].at, pos) = here
    BY <1>2, <1>3 DEF Span
  <2> QED
    BY <1>3, <2>1 DEF Undo
<1>5. out = (a + n .. hi - 1) /\ out \subseteq Mapped /\ SoFar = here \cup out
  <2>1. op.at + op.n - 1 = hi - 1
    <3>1. op.at \in Nat /\ op.n \in Nat
      BY <1>1, ChunkTypes
    <3>2. \A x, y \in Nat : x + y - 1 = (x + y) - 1
      OBVIOUS
    <3>3. op.at + op.n - 1 = (op.at + op.n) - 1
      BY <3>1, <3>2
    <3> QED
      BY <1>2, <3>3
  <2>2. out = Unmapped(a + n, hi - 1)
    BY <1>2, <1>3, <2>1 DEF Behind
  <2>3. a + n .. hi - 1 \subseteq Mapped
    BY <1>1, <1>2 DEF MemoryInv, PagesInv, Stops
  <2>4. ASSUME NEW p \in a + n .. hi - 1, NEW q \in a + n .. p PROVE q \in a + n .. hi - 1
    OBVIOUS
  <2>5. Unmapped(a + n, hi - 1) = (a + n .. hi - 1)
    BY <2>3, <2>4 DEF Unmapped
  <2> QED
    BY <1>2, <1>3, <2>2, <2>3, <2>5
<1>6. here \subseteq lo .. hi - 1 /\ out \subseteq lo .. hi - 1
  <2>1. lo <= a /\ a + n <= hi /\ pos < n
    BY <1>2
  <2> QED
    BY <1>1, <1>3, <1>5, <2>1
<1>7. back \subseteq 1 .. given
  <2>1. ASSUME NEW k \in 1 .. cur PROVE Span(chunks[k].frame, chunks[k].n) \subseteq 1 .. given
    <3>1. k \in 1 .. Len(chunks)
      <4>1. Len(chunks) \in Nat /\ cur \in 1 .. Len(chunks)
        BY <1>1, <1>2, ChunkTypes
      <4> QED
        BY <4>1
    <3>2. PICK x \in Nat, y \in Nat : x = chunks[k].frame /\ y = chunks[k].n /\ x > 0 /\ x + y <= given + 1
      BY <1>1, <3>1, ChunkTypes DEF MemoryInv, ChunksInv
    <3> QED
      BY <1>1, <3>2 DEF Span
  <2> QED
    BY <1>3, <2>1 DEF FramesOfChunks
<1>8. /\ Mapped' = Mapped \ out /\ pt' \in [VPages -> 0 .. given]
      /\ Mapped \subseteq VPages /\ FramesOf(out) \subseteq 1 .. given
  BY <1>1, <1>4, <1>5, WithoutIs, MappedIs
<1>9. TypeOK'
  <2>1. left' \subseteq VPages /\ free' \subseteq 1 .. given
    BY <1>1, <1>2, <1>4, <1>6, <1>7, <1>8 DEF TypeOK
  <2>2. /\ ret' \in Errors /\ pt' \in [VPages -> 0 .. given']
        /\ op' \in [name : Names, at : Nat, n : Nat, from : Ranges, drop : BOOLEAN]
        /\ chunks' \in Seq([at : VPages, frame : Nat, n : Nat])
    BY <1>4, <1>8, NoOpIs DEF Errors
  <2> QED
    BY <1>1, <1>4, <2>1, <2>2, Fixed DEF TypeOK
<1>10. ChunksInv'
  BY <1>4 DEF ChunksInv, Serving
<1>11. InFlight' = {} /\ SoFar' = {} /\ Below' = Below /\ 1 .. Len(chunks)' = {}
  <2>1. 1 .. 0 = {} /\ Len(chunks)' = 0
    BY <1>4
  <2> QED
    BY <1>4, <2>1, Fixed DEF InFlight, SoFar, Below
<1>12. PagesInv'
  <2>1. /\ own \subseteq Mapped \cup torn
        /\ Mapped \subseteq own \cup stray \cup left \cup (here \cup out) /\ own \subseteq Below
        /\ (left = {} => Mapped \subseteq Below \cup (here \cup out))
    BY <1>1, <1>5 DEF MemoryInv, PagesInv, Stops
  <2>2. out \cap Below = {}
    BY <1>2, <1>6
  <2>3. own \subseteq Mapped' \cup torn /\ Mapped' \subseteq own \cup stray \cup left'
    BY <1>4, <1>8, <2>1, <2>2
  <2>4. left' = {} => Mapped' \subseteq Below
    BY <1>4, <1>8, <2>1
  <2>5. own' = own /\ stray' = stray /\ torn' = torn
    BY <1>4
  <2> QED
    BY <1>11, <2>1, <2>3, <2>4, <2>5 DEF PagesInv
<1>13. FramesInv'
  <2> SUFFICES ASSUME left' = {} PROVE EachOnce'
    BY <1>4, <1>11 DEF FramesInv
  <2>1. left = {} /\ pos = 0
    <3>1. left = {} /\ here = {}
      BY <1>4
    <3>2. pos > 0 => a \in here
      BY <1>1, <1>3
    <3> QED
      BY <1>1, <3>1, <3>2
  <2>2. InFlight = back
    <3>1. InFlight = UNION {Flight(k) : k \in 1 .. Len(chunks)}
      BY <1>1 DEF InFlight
    <3>2. ASSUME NEW k \in 1 .. cur PROVE Flight(k) = Span(chunks[k].frame, chunks[k].n)
      <4>1. CASE k < cur
        BY <4>1 DEF Flight
      <4>2. CASE k = cur
        <5>1. Flight(cur) = Span(chunks[cur].frame + pos, chunks[cur].n - pos)
          BY <1>1 DEF Flight
        <5>2. b + 0 = b /\ n - 0 = n
          OBVIOUS
        <5> QED
          BY <1>2, <2>1, <4>2, <5>1, <5>2
      <4> QED
        BY <1>1, <4>1, <4>2
    <3>3. ASSUME NEW k \in 1 .. Len(chunks), k \notin 1 .. cur PROVE Flight(k) = {}
      <4>1. k > cur
        BY <1>1, <3>3
      <4> QED
        BY <1>1, <4>1 DEF Flight
    <3>4. 1 .. cur \subseteq 1 .. Len(chunks)
      <4>1. Len(chunks) \in Nat /\ cur \in 1 .. Len(chunks)
        BY <1>1, <1>2, ChunkTypes
      <4> QED
        BY <4>1
    <3>5. back = UNION {Span(chunks[k].frame, chunks[k].n) : k \in 1 .. cur}
      BY <1>3 DEF FramesOfChunks
    <3> QED
      BY <3>1, <3>2, <3>3, <3>4, <3>5
  <2>3. free' = (free \cup InFlight) \cup FramesOf(out) /\ given' = given /\ tab' = tab
    BY <1>4, <2>2
  <2> QED
    BY <1>4, <1>5, <1>11, <2>1, <2>3, ReturnAll
<1>14. HostInv'
  BY <1>1, <1>4 DEF MemoryInv, HostInv, Exhausted
<1> QED
  BY <1>9, <1>10, <1>12, <1>13, <1>14 DEF MemoryInv

\* What Finish unmaps of the pages mremap copied from.
LEMMA RangeIs ==
    ASSUME NEW s \in Ranges, s # {}
    PROVE  \E i, j \in Int : s = i .. j /\ i <= j
<1>1. PICK x \in Addrs, y \in Lens : s = PageOf(x) .. PageOf(x + y - 1)
  BY DEF Ranges
<1>2. x \in Nat /\ y \in Nat /\ PageSize \in Nat /\ PageSize > 0
  BY Sizes
<1>3. PICK u \in Int : u = x + y - 1
  BY <1>2
<1>4. PageOf(x) \in Int /\ PageOf(u) \in Int
  BY <1>2 DEF PageOf
<1>5. s = PageOf(x) .. PageOf(u)
  BY <1>1, <1>3
<1>6. PageOf(x) <= PageOf(u)
  <2>1. PICK z \in PageOf(x) .. PageOf(u) : TRUE
    BY <1>5
  <2> QED
    BY <1>4, <2>1
<1> QED
  BY <1>4, <1>5, <1>6

LEMMA OldIs ==
    ASSUME NEW s \in Ranges, s # {},
           NEW lo, lo = CHOOSE p \in s : \A q \in s : p <= q,
           NEW hi, hi = CHOOSE p \in s : \A q \in s : p >= q
    PROVE  Unmapped(lo, hi) \subseteq Mapped /\ Unmapped(lo, hi) \subseteq s
<1>1. PICK i \in Int, j \in Int : s = i .. j /\ i <= j
  BY RangeIs
<1>2. lo \in s
  <2>1. i \in s /\ \A q \in s : i <= q
    BY <1>1
  <2> QED
    BY <2>1
<1>3. hi \in s
  <2>1. j \in s /\ \A q \in s : j >= q
    BY <1>1
  <2> QED
    BY <2>1
<1>4. lo \in Int /\ hi \in Int /\ lo .. hi \subseteq s
  <2>1. lo \in i .. j /\ hi \in i .. j
    BY <1>1, <1>2, <1>3
  <2>2. \A u, v \in i .. j : u \in Int /\ u .. v \subseteq i .. j
    OBVIOUS
  <2> QED
    BY <1>1, <2>1, <2>2
<1> QED
  BY <1>4, UnmappedIs

LEMMA FinishKeeps ==
    ASSUME MemoryInv, Finish
    PROVE  MemoryInv'
<1> USE DEF chunkVars, heapVars, hostVars, tableVars, lineVars, history
<1>1. pc = "finish" /\ TypeOK /\ Serving /\ cur = 0
  BY DEF Finish, MemoryInv, ChunksInv, Serving
<1>2. op.at \in Nat /\ op.n \in Nat /\ given \in Nat
  BY <1>1, ChunkTypes
<1>3. PICK lo \in Nat, hi \in Nat : lo = op.at /\ hi = op.at + op.n
  BY <1>2
<1>3a. PICK new, gone : new = Span(op.at, op.n) /\ gone = IF op.drop THEN op.from ELSE {}
  OBVIOUS
<1> DEFINE old == IF gone = {} THEN {}
                  ELSE Unmapped(CHOOSE p \in gone : \A q \in gone : p <= q,
                                CHOOSE p \in gone : \A q \in gone : p >= q)
<1> HIDE DEF old
<1>4. PICK out : out = old
  OBVIOUS
<1>5. out \subseteq Mapped /\ out \subseteq gone
  <2>1. CASE gone = {}
    BY <1>4, <2>1 DEF old
  <2>2. CASE gone # {}
    <3>1. gone \in Ranges
      BY <1>1, <1>3a, <2>2 DEF TypeOK
    <3>2. PICK x, y : /\ x = CHOOSE p \in gone : \A q \in gone : p <= q
                      /\ y = CHOOSE p \in gone : \A q \in gone : p >= q
      OBVIOUS
    <3>3. Unmapped(x, y) \subseteq Mapped /\ Unmapped(x, y) \subseteq gone
      BY <2>2, <3>1, <3>2, OldIs
    <3>4. out = Unmapped(x, y)
      BY <1>4, <2>2, <3>2 DEF old
    <3> QED
      BY <3>3, <3>4
  <2> QED
    BY <2>1, <2>2
<1>6. /\ brkEnd' = IF op.name = "brk" THEN hi ELSE brkEnd
      /\ nextMmap' = IF op.name = "brk" THEN nextMmap ELSE hi
      /\ pt' = Without(out) /\ free' = free \cup FramesOf(out)
      /\ own' = (own \cup new) \ gone
      /\ stray' = (stray \ out) \cup ((Mapped \cap gone) \ out)
      /\ torn' = torn \ (gone \cup new)
      /\ pc' = IF ~(op.from \subseteq Mapped) THEN "faulted"
               ELSE IF TwiceFree(out) THEN "corrupt" ELSE "idle"
      /\ op' = NoOp /\ chunks' = << >> /\ cur' = 0 /\ pos' = 0 /\ ret' = "none"
      /\ UNCHANGED <<given, lastAlloc, size, host, slots, tab, left>>
  BY <1>3, <1>3a, <1>4 DEF Finish, old
<1>7. pc' \in {"idle", "corrupt", "faulted"}
  BY <1>6
<1>8. new = (lo .. hi - 1) /\ SoFar = new
  <2>1. \A x, y \in Nat : x + y - 1 = (x + y) - 1
    OBVIOUS
  <2>2. op.at + op.n - 1 = (op.at + op.n) - 1
    BY <1>2, <2>1
  <2>3. new = (op.at .. op.at + op.n - 1)
    BY <1>3a DEF Span
  <2>4. new = (lo .. hi - 1)
    BY <1>3, <2>2, <2>3
  <2> QED
    BY <1>1, <1>3a, <2>4 DEF SoFar
<1>9. /\ lo < hi
      /\ lo = IF op.name = "brk" THEN brkEnd ELSE nextMmap
      /\ hi <= IF op.name = "brk" THEN MmapStart ELSE VEnd + 1
      /\ brkEnd \in Nat /\ brkEnd >= 1 /\ brkEnd <= MmapStart
      /\ nextMmap \in Nat /\ nextMmap >= MmapStart /\ nextMmap <= VEnd + 1
  <2>1. /\ op.n > 0
        /\ lo = IF op.name = "brk" THEN brkEnd ELSE nextMmap
        /\ hi <= IF op.name = "brk" THEN MmapStart ELSE VEnd + 1
    BY <1>1, <1>3 DEF MemoryInv, ChunksInv
  <2>2. /\ brkEnd \in BrkStart .. BrkStart + BrkPages
        /\ nextMmap \in MmapStart .. MmapStart + MmapPages
    BY <1>1 DEF TypeOK
  <2>3. lo < hi
    BY <1>2, <1>3, <2>1
  <2> QED
    BY <2>1, <2>2, <2>3, Sizes
<1>10. /\ Mapped' = Mapped \ out /\ pt' \in [VPages -> 0 .. given]
       /\ Mapped \subseteq VPages /\ FramesOf(out) \subseteq 1 .. given
  BY <1>1, <1>5, <1>6, WithoutIs, MappedIs
<1>11. TypeOK'
  <2>1. new \subseteq VPages
    BY <1>8, <1>9, Sizes
  <2>2. own' \subseteq VPages /\ stray' \subseteq VPages /\ torn' \subseteq VPages /\ free' \subseteq 1 .. given
    BY <1>1, <1>6, <1>10, <2>1 DEF TypeOK
  <2>3. /\ ret' \in Errors /\ pt' \in [VPages -> 0 .. given']
        /\ op' \in [name : Names, at : Nat, n : Nat, from : Ranges, drop : BOOLEAN]
        /\ chunks' \in Seq([at : VPages, frame : Nat, n : Nat])
    BY <1>6, <1>10, NoOpIs DEF Errors
  <2>4. /\ brkEnd' \in BrkStart .. BrkStart + BrkPages
        /\ nextMmap' \in MmapStart .. MmapStart + MmapPages
    <3>1. brkEnd' \in Nat /\ brkEnd' >= 1 /\ brkEnd' <= MmapStart
      BY <1>6, <1>9
    <3>2. nextMmap' \in Nat /\ nextMmap' >= MmapStart /\ nextMmap' <= VEnd + 1
      BY <1>6, <1>9, Sizes
    <3> QED
      BY <3>1, <3>2, Sizes
  <2> QED
    BY <1>1, <1>6, <1>7, <2>2, <2>3, <2>4, Fixed DEF TypeOK
<1>12. ChunksInv'
  BY <1>6, <1>7 DEF ChunksInv, Serving
<1>13. InFlight = {} /\ InFlight' = {} /\ SoFar' = {} /\ 1 .. Len(chunks)' = {}
  <2>1. 1 .. 0 = {} /\ Len(chunks)' = 0
    BY <1>6
  <2> QED
    BY <1>1, <1>6, <1>7, <2>1 DEF InFlight, SoFar
<1>14. Below \cup new \subseteq Below'
  <2>1. Below = (1 .. brkEnd - 1) \cup (MmapStart .. nextMmap - 1)
    BY Sizes DEF Below
  <2>2. Below' = (1 .. brkEnd' - 1) \cup (MmapStart .. nextMmap' - 1)
    BY Sizes, Fixed DEF Below
  <2>3. CASE op.name = "brk"
    BY <1>6, <1>8, <1>9, <2>1, <2>2, <2>3, Sizes
  <2>4. CASE op.name # "brk"
    BY <1>6, <1>8, <1>9, <2>1, <2>2, <2>4, Sizes
  <2> QED
    BY <2>3, <2>4
<1>15. PagesInv'
  <2>1. /\ new \subseteq Mapped /\ own \subseteq Mapped \cup torn
        /\ Mapped \subseteq own \cup stray \cup left \cup new /\ own \subseteq Below
        /\ (left = {} => Mapped \subseteq Below \cup new)
    BY <1>1, <1>8 DEF MemoryInv, PagesInv, Stops
  <2>2. own' \subseteq Mapped' \cup torn' /\ Mapped' \subseteq own' \cup stray' \cup left
    BY <1>5, <1>6, <1>10, <2>1
  <2>3. own' \subseteq Below' /\ (left = {} => Mapped' \subseteq Below')
    BY <1>6, <1>10, <1>14, <2>1
  <2>4. left' = left
    BY <1>6
  <2> QED
    BY <1>13, <2>2, <2>3, <2>4 DEF PagesInv
<1>16. FramesInv'
  <2> SUFFICES ASSUME left = {} PROVE pc' # "corrupt" /\ EachOnce'
    BY <1>6, <1>13 DEF FramesInv
  <2>1. EachOnce' /\ ~TwiceFree(out)
    BY <1>5, <1>6, <1>13, ReturnFrames
  <2> QED
    BY <1>6, <2>1
<1>17. HostInv'
  BY <1>6, <1>7 DEF MemoryInv, HostInv, Exhausted
<1> QED
  BY <1>11, <1>12, <1>15, <1>16, <1>17 DEF MemoryInv

-----------------------------------------------------------------------------
LEMMA StutterKeeps ==
    ASSUME MemoryInv, UNCHANGED vars
    PROVE  MemoryInv'
<1>1. ret' \in Errors /\ UNCHANGED <<pc, op, chunkVars, heapVars, size, hostVars, tableVars, lineVars, history>>
  BY DEF vars, MemoryInv, TypeOK
<1> QED
  BY <1>1, SameMemory

\* The invariant holds in every state of every keep.
THEOREM MemoryInvariant == Spec => []MemoryInv
<1>1. MemoryInv /\ [Next]_vars => MemoryInv'
  BY SyscallKeeps, EnsureKeeps, AllocHalfKeeps, BalloonOkKeeps, BalloonErrKeeps, MapPageKeeps,
     UndoKeeps, FinishKeeps, StutterKeeps DEF Next, Step, Stopped
<1> QED
  BY InitKeeps, <1>1, PTL DEF Spec

\* Whatever the host grants or refuses and whatever the workload asks, a
\* map_memory that fails inside a half has found the host with nothing left.
THEOREM FailsOnlyWhenExhausted == Spec => []FailsOnlyExhausted
<1>1. MemoryInv => FailsOnlyExhausted
  BY DEF MemoryInv, HostInv, FailsOnlyExhausted
<1> QED
  BY <1>1, MemoryInvariant, PTL

-----------------------------------------------------------------------------
(* From places to numbers.                                                 *)

\* As many frames as pages, when no two pages share one.
LEMMA OneEach ==
    ASSUME NEW F, NEW S, NEW g \in Nat, \A x \in S : F[x] \in 1 .. g,
           \A x, y \in S : F[x] = F[y] => x = y
    PROVE  Cardinality(S) = Cardinality({F[x] : x \in S})
<1> DEFINE T == {F[x] : x \in S}
           h == [x \in S |-> F[x]]
<1>1. IsFiniteSet(T)
  <2>1. T \in SUBSET (1 .. g) /\ IsFiniteSet(1 .. g)
    BY FS_Interval
  <2> QED
    BY <2>1, FS_Subset
<1>2. h \in [S -> T] /\ (\A x, y \in S : h[x] = h[y] => x = y) /\ (\A t \in T : \E x \in S : h[x] = t)
  OBVIOUS
<1> HIDE DEF h, T
<1>3. h \in Injection(S, T) /\ h \in Surjection(S, T)
  BY <1>2, Fun_IsInj, Fun_IsSurj
<1>4. Cardinality(S) = Cardinality(T)
  BY <1>1, <1>3, FS_Injection
<1> QED
  BY <1>4 DEF T

LEMMA Apart ==
    ASSUME NEW A, NEW B, IsFiniteSet(A), IsFiniteSet(B), A \cap B = {}
    PROVE  /\ IsFiniteSet(A \cup B) /\ Cardinality(A) \in Nat /\ Cardinality(B) \in Nat
           /\ Cardinality(A \cup B) = Cardinality(A) + Cardinality(B)
<1>1. /\ IsFiniteSet(A \cup B)
      /\ Cardinality(A \cup B) = Cardinality(A) + Cardinality(B) - Cardinality(A \cap B)
  BY FS_Union
<1>2. Cardinality(A) \in Nat /\ Cardinality(B) \in Nat /\ Cardinality(A \cap B) = 0
  BY FS_CardinalityType, FS_EmptySet
<1> QED
  BY <1>1, <1>2

LEMMA Accounted ==
    ASSUME MemoryInv, left = {}
    PROVE  LET mapped == FramesOf(Mapped)
               tables == {tab[t] : t \in TablesMade}
           IN  /\ free \cup mapped \cup tables \cup InFlight = 1 .. given
               /\ Cardinality(free) + Cardinality(Mapped) + Cardinality(TablesMade)
                    + Cardinality(InFlight) = given
<1>1. TypeOK /\ EachOnce
  BY DEF MemoryInv, FramesInv
<1>2. PICK M, T, fl :
        M = {pt[p] : p \in Mapped} /\ T = {tab[t] : t \in TablesMade} /\ fl = InFlight
  OBVIOUS
<1>3. /\ given \in Nat /\ free \subseteq 1 .. given
      /\ \A p \in Mapped : pt[p] \in 1 .. given
      /\ Mapped \subseteq VPages /\ TablesMade \subseteq Tables
  BY <1>1, MappedIs DEF TypeOK, TablesMade
<1>4. \A t \in TablesMade : tab[t] \in 1 .. given
  <2>1. ASSUME NEW t \in Tables, tab[t] # 0 PROVE tab[t] \in 1 .. given
    BY <1>1, <2>1 DEF TypeOK
  <2> QED
    BY <2>1 DEF TablesMade
<1>5. fl \subseteq 1 .. given
  <2>1. CASE Serving
    BY <1>2, <2>1, FlightIs DEF InFlight
  <2>2. CASE ~Serving
    BY <1>2, <2>2, NoChunks
  <2> QED
    BY <2>1, <2>2
<1>6. ASSUME NEW f \in 1 .. given PROVE f \in free \/ f \in fl \/ f \in M \/ f \in T
  <2>1. ASSUME NEW p \in VPages, pt[p] = f PROVE f \in M
    <3>1. p \in Mapped
      BY <1>6, <2>1 DEF Mapped
    <3> QED
      BY <1>2, <2>1, <3>1
  <2>2. ASSUME NEW t \in Tables, tab[t] = f PROVE f \in T
    <3>1. t \in TablesMade
      BY <1>6, <2>2 DEF TablesMade
    <3> QED
      BY <1>2, <2>2, <3>1
  <2> QED
    BY <1>1, <1>2, <2>1, <2>2 DEF EachOnce
<1>7. ((free \cup M) \cup T) \cup fl = 1 .. given /\ M \subseteq 1 .. given /\ T \subseteq 1 .. given
  BY <1>2, <1>3, <1>4, <1>5, <1>6
<1>8. free \cap M = {} /\ (free \cup M) \cap T = {} /\ ((free \cup M) \cup T) \cap fl = {}
  BY <1>1, <1>2 DEF EachOnce
<1>9. Cardinality(Mapped) = Cardinality(M) /\ Cardinality(TablesMade) = Cardinality(T)
  <2>1. /\ \A x, y \in Mapped : pt[x] = pt[y] => x = y
        /\ \A x, y \in TablesMade : tab[x] = tab[y] => x = y
    BY <1>1 DEF EachOnce
  <2>2. Cardinality(Mapped) = Cardinality({pt[p] : p \in Mapped})
    BY <1>3, <2>1, OneEach
  <2>3. Cardinality(TablesMade) = Cardinality({tab[t] : t \in TablesMade})
    BY <1>3, <1>4, <2>1, OneEach
  <2> QED
    BY <1>2, <2>2, <2>3
<1>10. /\ IsFiniteSet(free) /\ IsFiniteSet(M) /\ IsFiniteSet(T) /\ IsFiniteSet(fl)
       /\ Cardinality(1 .. given) = given
  <2>1. IsFiniteSet(1 .. given) /\ Cardinality(1 .. given) = given
    BY <1>3, FS_Interval
  <2>2. free \in SUBSET (1 .. given) /\ M \in SUBSET (1 .. given) /\ T \in SUBSET (1 .. given) /\ fl \in SUBSET (1 .. given)
    BY <1>3, <1>5, <1>7
  <2> QED
    BY <2>1, <2>2, FS_Subset
<1>11. /\ IsFiniteSet(free \cup M) /\ Cardinality(free) \in Nat /\ Cardinality(M) \in Nat
       /\ Cardinality(free \cup M) = Cardinality(free) + Cardinality(M)
  BY <1>8, <1>10, Apart
<1>12. /\ IsFiniteSet((free \cup M) \cup T) /\ Cardinality(T) \in Nat
       /\ Cardinality((free \cup M) \cup T) = Cardinality(free \cup M) + Cardinality(T)
  BY <1>8, <1>10, <1>11, Apart
<1>13. /\ Cardinality(fl) \in Nat
       /\ Cardinality(((free \cup M) \cup T) \cup fl) = Cardinality((free \cup M) \cup T) + Cardinality(fl)
  BY <1>8, <1>10, <1>12, Apart
<1>14. Cardinality(free) + Cardinality(M) + Cardinality(T) + Cardinality(fl) = given
  BY <1>7, <1>10, <1>11, <1>12, <1>13
<1>15. FramesOf(Mapped) = M
  BY <1>2 DEF FramesOf
<1> QED
  BY <1>2, <1>7, <1>9, <1>14, <1>15

\* For every size of the memory, the tables and the requests: each frame is in
\* exactly one place at every step, the workload's pages are mapped between
\* requests, and no others are.
THEOREM MemoryAlwaysAccounted == Spec => []MemoryAccounted
<1>1. MemoryInv => MemoryAccounted
  <2> SUFFICES ASSUME MemoryInv PROVE MemoryAccounted
    OBVIOUS
  <2>1. pc = "corrupt" => left # {}
    BY DEF MemoryInv, FramesInv
  <2>2. FramesAccounted
    BY <2>1, Accounted DEF FramesAccounted
  <2>3. ASSUME pc = "idle" PROVE own \subseteq Mapped \cup torn /\ Mapped \subseteq own \cup stray \cup left
    <3>1. SoFar = {}
      BY <2>3, NoChunks DEF Serving
    <3> QED
      BY <2>3, <3>1 DEF MemoryInv, PagesInv, Stops
  <2> QED
    BY <2>2, <2>3 DEF MemoryAccounted, OwnedMapped, MappedOwned
<1> QED
  BY <1>1, MemoryInvariant, PTL
=============================================================================
