------------------------ MODULE SallyportProxy_proofs ------------------------
(***************************************************************************)
(* A proxied call, for every set of requests, every size of the block,     *)
(* every backend and every width of the words: staging lays the arguments  *)
(* apart, each call's item suits the host's arm for it, every answer of    *)
(* the kernel reads back as what it meant, and collecting takes no more    *)
(* than was staged.                                                        *)
(***************************************************************************)
EXTENDS SallyportProxy, SequenceTheorems, TLAPS

\* The constants are numbers, and the widths leave room for every count and error.
LEMMA Constants ==
    /\ WordMax \in Nat /\ MaxErrno \in Nat /\ IntMax \in Nat /\ ByteMax \in Nat
    /\ MaxErrno >= 4 /\ ByteMax + 1 < IntMax /\ IntMax < WordMax - MaxErrno
    /\ EventSize \in Nat /\ EventSize > 0 /\ KernelEventSize \in Nat /\ KernelEventSize > 0
    /\ KernelEventSize <= EventSize
    /\ MaxAddr \in Nat /\ TargetInfoSize \in Nat /\ ReportSize \in Nat
    /\ \A c \in Caps : c \in Nat /\ c < IntMax
    /\ \A w \in HostileWords : w \in Nat
BY WidthsAssumption, ProxyAssumption DEF WidthsAssumption, ProxyAssumption, ENOSYS

----------------------------------------------------------------------------
(* Staging.                                                                *)

\* n elements of a layout take a whole number of cells.
LEMMA Product == ASSUME NEW m \in Nat, NEW n \in Nat PROVE m * n \in Nat
OBVIOUS

\* A product grows with its factors.
LEMMA ProductGrows ==
    ASSUME NEW a \in Nat, NEW b \in Nat, NEW c \in Nat, NEW d \in Nat, a <= b, c <= d
    PROVE  a * c <= b * d
<1>1. a * c <= b * c
  OBVIOUS
<1>2. b * c <= b * d
  OBVIOUS
<1>3. a * c \in Nat /\ b * c \in Nat /\ b * d \in Nat
  OBVIOUS
<1> QED
  BY ONLY <1>1, <1>2, <1>3

\* Padding goes to the next multiple, past one cell at most.
LEMMA Padding ==
    ASSUME NEW n \in Nat, NEW align \in {1, 2}
    PROVE  /\ PaddedTo(n, align) \in Nat /\ n <= PaddedTo(n, align)
           /\ PaddedTo(n, align) % align = 0
           /\ align = 1 => PaddedTo(n, align) = n
           /\ align = 2 => PaddedTo(n, align) <= n + 1
<1>1. CASE align = 1
  BY <1>1 DEF PaddedTo
<1>2. CASE align = 2
  BY <1>2 DEF PaddedTo
<1> QED
  BY <1>1, <1>2

IsRegion(g) ==
    /\ g.role \in Roles /\ g.n \in Nat /\ g.max \in BOOLEAN
    /\ g.layout \in {U8, Obj, EpollEvent} /\ (g.max => g.layout = U8)

IsRegions(R) ==
    /\ Len(R) \in 0..3 /\ DOMAIN R = 1..Len(R)
    /\ \A j \in 1..Len(R) : IsRegion(R[j])
    /\ \A i, j \in 1..Len(R) : i # j => R[i].role # R[j].role

\* The layouts a region may have.
LEMMA RegionLayout ==
    ASSUME NEW g, IsRegion(g)
    PROVE  /\ g.n \in Nat /\ g.layout.size \in Nat /\ g.layout.size > 0 /\ g.layout.align \in {1, 2}
           /\ g.max \in BOOLEAN /\ (g.max => g.layout.size = 1 /\ g.layout.align = 1)
BY Constants DEF IsRegion, U8, Obj, EpollEvent

(* Where a region has come to lie.                                         *)
Spot(s, g, end, room) ==
    /\ s.region = g
    /\ s.off \in Nat /\ s.n \in Nat /\ Cells(s) \in Nat
    /\ s.n <= g.n /\ (~g.max => s.n = g.n) /\ (s.n < g.n => end >= room)
    /\ s.off % g.layout.align = 0
    /\ s.off + Cells(s) <= end

Laid(R, room, k, acc) ==
    /\ acc.end \in Nat /\ acc.fits \in BOOLEAN
    /\ DOMAIN acc.place = {R[j].role : j \in 1..k}
    /\ \A j \in 1..k : Spot(acc.place[R[j].role], R[j], acc.end, room)
    /\ \A i, j \in 1..k : i < j =>
          acc.place[R[i].role].off + Cells(acc.place[R[i].role]) <= acc.place[R[j].role].off
    /\ acc.fits => acc.end <= room

\* Nothing is laid before the first region.
LEMMA LaidFirst == ASSUME NEW R, NEW room \in Nat PROVE Laid(R, room, 0, NothingStaged)
<1>1. \A j \in 1..0 : FALSE
  OBVIOUS
<1>2. DOMAIN NothingStaged.place = {} /\ NothingStaged.end = 0
  BY DEF NothingStaged
<1>3. NothingStaged.fits \in BOOLEAN
  BY DEF NothingStaged
<1>4. {R[j].role : j \in 1..0} = {}
  BY <1>1
<1>5. 0 \in Nat /\ 0 <= room
  OBVIOUS
<1> HIDE DEF NothingStaged
<1> QED
  BY <1>1, <1>2, <1>3, <1>4, <1>5 DEF Laid

\* Staging one region after others keeps them where they are, each apart from the next.
LEMMA LaidNext ==
    ASSUME NEW R, NEW room \in Nat, IsRegions(R), NEW k \in 1..Len(R), NEW acc, Laid(R, room, k - 1, acc)
    PROVE  Laid(R, room, k, StageRegion(room, acc, R[k]))
<1>1. PICK g : g = R[k] /\ IsRegion(g)
  BY DEF IsRegions
<1>2. PICK z \in Nat, align \in {1, 2} : z = g.layout.size /\ align = g.layout.align /\ z > 0
  BY <1>1, RegionLayout
<1>3. g.n \in Nat /\ g.max \in BOOLEAN /\ (g.max => z = 1 /\ align = 1)
  BY <1>1, <1>2, RegionLayout
<1>4. acc.end \in Nat /\ acc.fits \in BOOLEAN
  BY DEF Laid
<1>5. PICK off \in Nat : off = PaddedTo(acc.end, align) /\ acc.end <= off /\ off % align = 0
                         /\ (align = 1 => off = acc.end)
  BY <1>4, Padding
<1>6. PICK n \in Nat : /\ n = IF g.max THEN AtMost(g.n, room - AtMost(acc.end, room)) ELSE g.n
                       /\ n <= g.n /\ (~g.max => n = g.n)
                       /\ (n < g.n => g.max /\ n = room - AtMost(acc.end, room))
  BY <1>3, <1>4 DEF AtMost
<1>7. PICK e \in Nat : e = off + n * z /\ n * z \in Nat
  BY Product
<1>8. n < g.n => e >= room
  <2> HAVE n < g.n
  <2>1. z = 1 /\ off = acc.end /\ n = room - AtMost(acc.end, room)
    BY <1>3, <1>5, <1>6
  <2>2. e = off + n
    BY <1>7, <2>1
  <2> QED
    BY <1>4, <2>1, <2>2 DEF AtMost
<1> DEFINE spot == [off |-> off, n |-> n, region |-> g]
           new == StageRegion(room, acc, R[k])
<1>9. /\ new.end = e /\ new.fits = (acc.fits /\ e <= room)
      /\ new.place = [r \in DOMAIN acc.place \cup {g.role} |-> IF r = g.role THEN spot ELSE acc.place[r]]
  BY <1>1, <1>2, <1>5, <1>6, <1>7 DEF StageRegion
<1>10. Spot(spot, g, e, room)
  BY <1>2, <1>3, <1>5, <1>6, <1>7, <1>8 DEF Spot, Cells
<1> HIDE DEF spot, new
<1>11. k - 1 \in Nat /\ \A j \in 1..k : j \in 1..(k - 1) \/ j = k
  BY DEF IsRegions
<1>12. \A j \in 1..(k - 1) : R[j].role # g.role /\ R[j].role \in DOMAIN acc.place /\ j \in 1..Len(R)
  <2>1. \A j \in 1..(k - 1) : j \in 1..Len(R) /\ j # k
    BY DEF IsRegions
  <2> QED
    BY <1>1, <2>1 DEF IsRegions, Laid
<1>13. /\ new.place[g.role] = spot
       /\ \A j \in 1..(k - 1) : new.place[R[j].role] = acc.place[R[j].role]
       /\ DOMAIN new.place = DOMAIN acc.place \cup {g.role}
  BY <1>9, <1>12
<1>14. DOMAIN new.place = {R[j].role : j \in 1..k}
  BY <1>1, <1>11, <1>13 DEF Laid
<1>15. ASSUME NEW j \in 1..(k - 1)
       PROVE  /\ Spot(acc.place[R[j].role], R[j], e, room)
              /\ acc.place[R[j].role].off + Cells(acc.place[R[j].role]) <= off
  <2>1. Spot(acc.place[R[j].role], R[j], acc.end, room)
    BY DEF Laid
  <2>2. acc.end <= e
    BY <1>4, <1>5, <1>7
  <2> QED
    BY SMTT(30), <1>4, <1>5, <2>1, <2>2 DEF Spot
<1>16. \A j \in 1..k : Spot(new.place[R[j].role], R[j], e, room)
  BY <1>1, <1>10, <1>11, <1>13, <1>15
<1>17. ASSUME NEW i \in 1..k, NEW j \in 1..k, i < j
       PROVE  new.place[R[i].role].off + Cells(new.place[R[i].role]) <= new.place[R[j].role].off
  <2>1. i \in 1..(k - 1)
    BY <1>11, <1>17
  <2>2. CASE j = k
    BY <1>1, <1>13, <1>15, <2>1, <2>2 DEF spot
  <2>3. CASE j \in 1..(k - 1)
    BY <1>13, <1>17, <2>1, <2>3 DEF Laid
  <2> QED
    BY <1>11, <2>2, <2>3
<1> QED
  BY <1>4, <1>9, <1>14, <1>16, <1>17 DEF new, Laid

\* The recursion over at most three regions has a solution.
LEMMA StagingUnfolds ==
    ASSUME NEW c, NEW room, Len(c.regions) \in 0..3
    PROVE  \E after : /\ Staging(c, room) = after[Len(c.regions)]
                      /\ after = [k \in 0..Len(c.regions) |->
                            IF k = 0 THEN NothingStaged ELSE StageRegion(room, after[k - 1], c.regions[k])]
<1>1. PICK n \in 0..3 : n = Len(c.regions)
  OBVIOUS
<1> DEFINE Solves(f) == f = [k \in 0..n |->
              IF k = 0 THEN NothingStaged ELSE StageRegion(room, f[k - 1], c.regions[k])]
           s1 == StageRegion(room, NothingStaged, c.regions[1])
           s2 == StageRegion(room, s1, c.regions[2])
           s3 == StageRegion(room, s2, c.regions[3])
           w == [k \in 0..n |-> IF k = 0 THEN NothingStaged ELSE IF k = 1 THEN s1 ELSE IF k = 2 THEN s2 ELSE s3]
<1>2. Staging(c, room) = (CHOOSE f : Solves(f))[n]
  BY <1>1 DEF Staging
<1>3. Solves(w)
  <2>1. ASSUME NEW k \in 0..n
        PROVE  w[k] = IF k = 0 THEN NothingStaged ELSE StageRegion(room, w[k - 1], c.regions[k])
    <3>1. k = 0 \/ k = 1 \/ k = 2 \/ k = 3
      OBVIOUS
    <3>2. k # 0 => k - 1 \in 0..n
      OBVIOUS
    <3> HIDE DEF s3
    <3>3. CASE k = 0
      BY <3>3
    <3>4. CASE k = 1
      <4>1. w[0] = NothingStaged /\ w[1] = s1
        BY <3>2, <3>4
      <4> QED
        BY <3>4, <4>1
    <3>5. CASE k = 2
      <4>1. w[1] = s1 /\ w[2] = s2
        BY <3>2, <3>5
      <4> QED
        BY <3>5, <4>1
    <3>6. CASE k = 3
      <4>1. w[2] = s2 /\ w[3] = s3
        BY <3>2, <3>6
      <4> QED
        BY <3>6, <4>1 DEF s3
    <3> QED
      BY <3>1, <3>3, <3>4, <3>5, <3>6
  <2> QED
    BY <2>1
<1> HIDE DEF Solves, w
<1>4. Solves(CHOOSE f : Solves(f))
  BY <1>3
<1> QED
  BY <1>1, <1>2, <1>4 DEF Solves

\* All regions of a call are laid one after another.
LEMMA StagingLaid ==
    ASSUME NEW c, NEW room \in Nat, IsRegions(c.regions)
    PROVE  Laid(c.regions, room, Len(c.regions), Staging(c, room))
<1>1. PICK n \in 0..3 : n = Len(c.regions)
  BY DEF IsRegions
<1>2. PICK after : /\ Staging(c, room) = after[n]
                   /\ after = [k \in 0..n |->
                          IF k = 0 THEN NothingStaged ELSE StageRegion(room, after[k - 1], c.regions[k])]
  BY <1>1, StagingUnfolds
<1>3. Laid(c.regions, room, 0, after[0])
  BY <1>2, LaidFirst
<1>4. ASSUME NEW k \in 1..n, Laid(c.regions, room, k - 1, after[k - 1])
      PROVE  Laid(c.regions, room, k, after[k])
  <2>1. after[k] = StageRegion(room, after[k - 1], c.regions[k])
    BY <1>2
  <2> QED
    BY <1>1, <1>4, <2>1, LaidNext
<1>5. n >= 1 => Laid(c.regions, room, 1, after[1])
  BY <1>3, <1>4
<1>6. n >= 2 => Laid(c.regions, room, 2, after[2])
  BY <1>4, <1>5
<1>7. n >= 3 => Laid(c.regions, room, 3, after[3])
  BY <1>4, <1>6
<1>8. n = 0 \/ n = 1 \/ n = 2 \/ n = 3
  OBVIOUS
<1>9. Laid(c.regions, room, n, after[n])
  <2>1. CASE n = 0
    BY <1>3, <2>1
  <2>2. CASE n = 1
    BY <1>5, <2>2
  <2>3. CASE n = 2
    BY <1>6, <2>3
  <2>4. CASE n = 3
    BY <1>7, <2>4
  <2> QED
    BY <1>8, <2>1, <2>2, <2>3, <2>4
<1> QED
  BY <1>1, <1>2, <1>9

(* Where the regions of a call lie in its item.                            *)
Settled(s, g, size, room) ==
    /\ s.region = g
    /\ s.off \in Nat /\ s.n \in Nat /\ Cells(s) \in Nat
    /\ s.off + Cells(s) <= size /\ s.off % g.layout.align = 0
    /\ s.n <= g.n /\ (~g.max => s.n = g.n) /\ (s.n < g.n => size >= room)

Apart(s, t) == s.off + Cells(s) <= t.off \/ t.off + Cells(t) <= s.off

\* When everything fits, the regions lie apart from each other inside the item.
LEMMA Layout ==
    ASSUME NEW c, NEW room \in Nat, IsRegions(c.regions), Fits(Staging(c, room), room)
    PROVE  LET place == Staging(c, room).place
               size == ItemSize(Staging(c, room))
           IN  /\ size \in Nat /\ size <= room
               /\ DOMAIN place = {c.regions[j].role : j \in 1..Len(c.regions)}
               /\ \A j \in 1..Len(c.regions) : Settled(place[c.regions[j].role], c.regions[j], size, room)
               /\ \A r, s \in DOMAIN place : r # s => Apart(place[r], place[s])
<1> DEFINE n == Len(c.regions)
           R == c.regions
<1>1. PICK st : st = Staging(c, room)
  OBVIOUS
<1>2. Laid(R, room, n, st)
  BY <1>1, StagingLaid
<1>3. n \in Nat /\ st.end \in Nat
  BY <1>2 DEF Laid, IsRegions
<1>4. PICK size \in Nat : size = ItemSize(st) /\ st.end <= size /\ size <= room
  BY <1>1, <1>3, Padding DEF ItemSize, Fits
<1>5. ASSUME NEW j \in 1..n PROVE Settled(st.place[R[j].role], R[j], size, room)
  <2>1. Spot(st.place[R[j].role], R[j], st.end, room)
    BY <1>2 DEF Laid
  <2>2. PICK s : s = st.place[R[j].role]
    OBVIOUS
  <2>3. s.off + Cells(s) <= size
    BY <1>3, <1>4, <2>1, <2>2 DEF Spot
  <2>4. s.n < R[j].n => size >= room
    BY <1>3, <1>4, <2>1, <2>2 DEF Spot
  <2> QED
    BY <2>1, <2>2, <2>3, <2>4 DEF Spot, Settled
<1>6. ASSUME NEW r \in DOMAIN st.place, NEW s \in DOMAIN st.place, r # s
      PROVE  Apart(st.place[r], st.place[s])
  <2>1. PICK i \in 1..n, j \in 1..n : r = R[i].role /\ s = R[j].role
    BY <1>2 DEF Laid
  <2>2. i < j \/ j < i
    BY <1>3, <1>6, <2>1
  <2> QED
    BY <1>2, <2>1, <2>2 DEF Laid, Apart
<1>7. DOMAIN st.place = {R[j].role : j \in 1..n}
  BY <1>2 DEF Laid
<1> QED
  BY <1>1, <1>4, <1>5, <1>6, <1>7

----------------------------------------------------------------------------
(* The shape of a staged call: its regions against the request's           *)
(* arguments, its words against the host's arms and the kernel's           *)
(* convention.                                                             *)

RegionsOf(c) == {c.regions[j] : j \in 1..Len(c.regions)}
Has(c, role) == \E g \in RegionsOf(c) : g.role = role
Counting == {"prefix", "scatter", "prefix_sockaddr", "count"}
Convention(num) == {Abi[num][p] : p \in DOMAIN Abi[num]}

Mirrors(c, g) ==
    /\ g.role \in Arguments
    /\ g.n * g.layout.size = Len(Whole(UserMem(req), g.role))
    /\ g.layout.size = IF g.role = "buf" /\ IsEpoll(req) THEN EventSize ELSE 1
    /\ g.dir # "out" => (g.dir = "gather" <=> (g.role = "buf" /\ Vectored))
    /\ g.role \in Reads(c.num) => g.dir # "out"
    /\ g.max => g.role = "buf" /\ c.collect \in Counting
    /\ c.num \in DOMAIN Abi /\ g.role \in Convention(c.num)
    /\ g.role = "buf" /\ c.collect = "always" => g.dir # "out"
    /\ g.role = "buf2" /\ c.collect = "interrupted" => g.dir # "out"
    /\ g.role = "len" => g.dir # "out"

Collects(c, option) ==
    /\ c.collect \in {"none", "ok", "always", "interrupted", "sockaddr"} \cup Counting
    /\ c.collect \in Counting => option /\ Has(c, "buf") /\ c.num \in DOMAIN Abi /\ "#buf" \in Convention(c.num)
    /\ c.collect \in {"sockaddr", "prefix_sockaddr"} => (Has(c, "addr") <=> Has(c, "len"))
    /\ Has(c, "addr") => "#addr" \in Convention(c.num) \/ Has(c, "len")
    /\ c.collect = "sockaddr" => req.call \in {"accept", "accept4", "getsockname"}
    /\ c.collect = "scatter" <=> req.call = "readv"
    /\ req.call = "writev" => c.collect = "count"
    /\ c.collect \in {"prefix_sockaddr", "prefix"} => ~Vectored

Shape(c, option) ==
    /\ IsRegions(c.regions)
    /\ \A g \in RegionsOf(c) : Mirrors(c, g)
    /\ c.num \in DOMAIN Abi => \A r \in Roles \cap Convention(c.num) : Absent(r) <=> ~Has(c, r)
    /\ Collects(c, option)

OffAt(c, i, role) == i \in 1..Len(c.argv) /\ c.argv[i] = Off(role)
CountAt(c, i, role) == i \in 1..Len(c.argv) /\ c.argv[i] = Count(role)
NullAt(c, i) == i > Len(c.argv) \/ \E r \in Roles : OffAt(c, i, r) /\ ~Has(c, r)

Counts(c, spec, g) ==
    \/ spec.n.k = "word" /\ CountAt(c, spec.n.v, g.role)
    \/ spec.n.k = "num" /\ spec.n.v = g.n /\ ~g.max
    \/ spec.n.k = "cell" /\ OffAt(c, spec.n.v, "len") /\ Has(c, "len") /\ g.role = "addr" /\ ~g.max

PointsTo(c, spec, role) ==
    /\ spec.k = "ptr"
    /\ Has(c, role) =>
         /\ OffAt(c, spec.i, role)
         /\ spec.null = 0 \/ \E r \in Roles : OffAt(c, spec.null, r) /\ Has(c, r)
         /\ \E g \in RegionsOf(c) : g.role = role /\ spec.layout = g.layout /\ Counts(c, spec, g)
    /\ ~Has(c, role) => spec.null \in 1..6 /\ NullAt(c, spec.null)

Matches(c, spec, mode, p) ==
    \/ mode = "reg" /\ spec.k = "word" /\ spec.null = 0 /\ spec.i \in 1..Len(c.argv) /\ c.argv[spec.i] = Arg(p)
    \/ mode \in Roles /\ PointsTo(c, spec, mode)
    \/ mode = "#buf" /\ spec.k = "word" /\ CountAt(c, spec.i, "buf")
         /\ (spec.null = 0 \/ OffAt(c, spec.null, "buf"))
    \/ mode = "#addr" /\ spec.k = "word" /\ spec.null = 0 /\ (Has(c, "addr") => CountAt(c, spec.i, "addr"))

Words6(c) == Len(c.argv) \in 0..6 /\ DOMAIN c.argv = 1..Len(c.argv)

Suits(c, specs) ==
    /\ Words6(c)
    /\ IF c.num \in DOMAIN Abi
       THEN /\ DOMAIN specs \subseteq DOMAIN Abi[c.num]
            /\ DOMAIN specs = DOMAIN Abi[c.num] \/ c.num = "epoll_pwait"
            /\ \A p \in DOMAIN Abi[c.num] : Abi[c.num][p] # "reg" => p \in DOMAIN specs
            /\ \A p \in DOMAIN specs : Matches(c, specs[p], Abi[c.num][p], p)
       ELSE \A p \in DOMAIN specs : specs[p].k = "word"

\* The regions of a call, as a set: none, one, two, three.
LEMMA NoRegions == ASSUME NEW c, c.regions = <<>> PROVE IsRegions(c.regions) /\ RegionsOf(c) = {}
BY DEF IsRegions, RegionsOf

LEMMA OneRegion ==
    ASSUME NEW c, NEW g, c.regions = <<g>>, IsRegion(g)
    PROVE  IsRegions(c.regions) /\ RegionsOf(c) = {g}
<1>1. Len(c.regions) = 1 /\ c.regions[1] = g /\ DOMAIN c.regions = 1..1
  OBVIOUS
<1>2. \A j \in 1..1 : j = 1
  OBVIOUS
<1> QED
  BY <1>1, <1>2 DEF IsRegions, RegionsOf

LEMMA TwoRegions ==
    ASSUME NEW c, NEW g, NEW h, c.regions = <<g, h>>, IsRegion(g), IsRegion(h), g.role # h.role
    PROVE  IsRegions(c.regions) /\ RegionsOf(c) = {g, h}
<1>1. Len(c.regions) = 2 /\ c.regions[1] = g /\ c.regions[2] = h /\ DOMAIN c.regions = 1..2
  OBVIOUS
<1>2. \A j \in 1..2 : j = 1 \/ j = 2
  OBVIOUS
<1> QED
  BY <1>1, <1>2 DEF IsRegions, RegionsOf

LEMMA ThreeRegions ==
    ASSUME NEW c, NEW g, NEW h, NEW k, c.regions = <<g, h, k>>, IsRegion(g), IsRegion(h), IsRegion(k),
           g.role # h.role, g.role # k.role, h.role # k.role
    PROVE  IsRegions(c.regions) /\ RegionsOf(c) = {g, h, k}
<1>1. Len(c.regions) = 3 /\ c.regions[1] = g /\ c.regions[2] = h /\ c.regions[3] = k /\ DOMAIN c.regions = 1..3
  OBVIOUS
<1>2. \A j \in 1..3 : j = 1 \/ j = 2 \/ j = 3
  OBVIOUS
<1> QED
  BY <1>1, <1>2 DEF IsRegions, RegionsOf

----------------------------------------------------------------------------
(* Which calls are staged, and what is known of their pointers then.       *)

AcceptStaged ==
    /\ req.call = "accept" /\ Handle(req) = Execute(Accept(req))
    /\ "addr" \in req.null \/ "len" \notin req.null
Accept4Staged ==
    /\ req.call = "accept4" /\ Handle(req) = Execute(Accept4(req))
    /\ "addr" \in req.null \/ "len" \notin req.null
BindStaged ==
    /\ req.call = "bind" /\ Handle(req) = Execute(Bind(req))
    /\ "addr" \notin req.null
ClockGetresStaged ==
    /\ req.call = "clock_getres" /\ Handle(req) = Execute(ClockGetres(req))
ClockGettimeStaged ==
    /\ req.call = "clock_gettime" /\ Handle(req) = Execute(ClockGettime(req))
    /\ "buf" \notin req.null
ConnectStaged ==
    /\ req.call = "connect" /\ Handle(req) = Execute(Connect(req))
    /\ "addr" \notin req.null
EpollCtlStaged ==
    /\ req.call = "epoll_ctl" /\ Handle(req) = Execute(EpollCtl(req))
    /\ "buf" \notin req.null
EpollWaitStaged ==
    /\ req.call \in {"epoll_wait", "epoll_pwait"} /\ Handle(req) = OrAttacked(EpollWait(req))
    /\ "buf" \notin req.null
EpollPwaitStaged ==
    /\ req.call = "epoll_pwait" /\ Handle(req) = OrAttacked(EpollPwait(req))
    /\ "buf" \notin req.null /\ "buf2" \notin req.null
PassthroughStaged ==
    /\ req.call \in DOMAIN PassthroughArgs \ {"exit", "exit_group"} /\ Handle(req) = Execute(Passthrough(req))
ExitStaged ==
    /\ req.call \in {"exit", "exit_group"} /\ Handle(req) = OrAttacked(Passthrough(req))
FcntlStaged ==
    /\ req.call = "fcntl" /\ Handle(req) = Execute(AllocFcntl(req))
GetsocknameStaged ==
    /\ req.call = "getsockname" /\ Handle(req) = Execute(Getsockname(req))
    /\ "addr" \notin req.null /\ "len" \notin req.null
IoctlStaged ==
    /\ req.call = "ioctl" /\ Handle(req) = Execute(AllocIoctl(req))
    /\ req.sel[2] \in {"FIONBIO", "FIONREAD"}
NanosleepStaged ==
    /\ req.call = "nanosleep" /\ Handle(req) = Execute(Nanosleep(req))
    /\ "buf" \notin req.null
OpenStaged ==
    /\ req.call = "open" /\ Handle(req) = Execute(AllocOpen(req))
    /\ "buf" \notin req.null
PollStaged ==
    /\ req.call = "poll" /\ Handle(req) = OrAttacked(Poll(req))
    /\ "buf" \notin req.null
ReadStaged ==
    /\ req.call = "read" /\ Handle(req) = OrAttacked(Read(req))
    /\ "buf" \notin req.null
ReadvStaged ==
    /\ req.call = "readv" /\ Handle(req) = OrAttacked(Readv(req))
    /\ "buf" \notin req.null /\ "buf2" \notin req.null
RecvStaged ==
    /\ req.call = "recvfrom" /\ Handle(req) = OrAttacked(Recv(req))
    /\ "buf" \notin req.null /\ "addr" \in req.null
RecvfromStaged ==
    /\ req.call = "recvfrom" /\ Handle(req) = OrAttacked(Recvfrom(req))
    /\ {"buf", "addr", "len"} \cap req.null = {}
SendStaged ==
    /\ req.call = "sendto" /\ Handle(req) = OrAttacked(Send(req))
    /\ "buf" \notin req.null /\ "addr" \in req.null
SendtoStaged ==
    /\ req.call = "sendto" /\ Handle(req) = OrAttacked(Sendto(req))
    /\ "buf" \notin req.null /\ "addr" \notin req.null
SetsockoptStaged ==
    /\ req.call = "setsockopt" /\ Handle(req) = Execute(Setsockopt(req))
WriteStaged ==
    /\ req.call = "write" /\ Handle(req) = OrAttacked(Write(req))
    /\ "buf" \notin req.null
WritevStaged ==
    /\ req.call = "writev" /\ Handle(req) = OrAttacked(Writev(req))
    /\ "buf" \notin req.null /\ "buf2" \notin req.null
WriteAllStaged ==
    /\ req.call = "gdb_write_all" /\ Handle(req) = OrAttacked(WriteAll(req))
GdbStaged ==
    /\ req.call \in DOMAIN GdbPassthroughRet /\ Handle(req) = Execute(GdbPassthrough(req))
CpuidStaged ==
    /\ req.call = "cpuid" /\ Handle(req) = Execute(Cpuid(req))
QuoteStaged ==
    /\ req.call = "get_sgx_quote" /\ Handle(req) = OrAttacked(GetSgxQuote(req))
TargetInfoStaged ==
    /\ req.call = "get_sgx_target_info" /\ Handle(req) = Execute(GetSgxTargetInfo(req))
VcekStaged ==
    /\ req.call = "get_snp_vcek" /\ Handle(req) = OrAttacked(GetSnpVcek(req))
EnarxStaged ==
    /\ req.call \in DOMAIN EnarxPassthroughArgs /\ Handle(req) = Execute(EnarxPassthrough(req))

\* What the other answers of the handler are.
LEMMA Unstaged ==
    ASSUME NEW x, NEW y
    PROVE  /\ Refuse(x).k = "refuse" /\ Memory(x).k = "memory" /\ SetAction.k = "sigaction"
           /\ Stub(x, y).k = "stub" /\ StubAnyOf(x).k = "stub"
BY DEF Refuse, Memory, SetAction, Stub, StubAnyOf

\* Which calls are staged, from Handle: the calls up to exit.
LEMMA StagedToExit ==
    ASSUME req.call \in CallsToExit, Handle(req).k = "stage"
    PROVE  \/ AcceptStaged
           \/ Accept4Staged
           \/ BindStaged
           \/ ClockGetresStaged
           \/ ClockGettimeStaged
           \/ ConnectStaged
           \/ EpollCtlStaged
           \/ EpollWaitStaged
           \/ EpollPwaitStaged
           \/ PassthroughStaged
           \/ ExitStaged
<1>1. Handle(req) = SyscallToExit(req)
  BY DEF Handle, CallsToExit, CallsToMunmap, CallsToRtSigaction, PassthroughArgs, GdbPassthroughRet, EnarxPassthroughArgs
<1> USE DEF PassthroughArgs, AcceptStaged, Accept4Staged, BindStaged, ClockGetresStaged, ClockGettimeStaged, ConnectStaged, EpollCtlStaged, EpollWaitStaged, EpollPwaitStaged, PassthroughStaged, ExitStaged
<1> USE DEF Validated, NonNull, ValidateSockaddrOutput, Staged, Execute, OrAttacked
<1>2. CASE req.call = "accept"
  BY <1>1, <1>2, Unstaged DEF SyscallToExit, MethodsToExit, MethodsToMremap
<1>3. CASE req.call = "accept4"
  BY <1>1, <1>3, Unstaged DEF SyscallToExit, MethodsToExit, MethodsToMremap
<1>4. CASE req.call = "arch_prctl"
  BY <1>1, <1>4, Unstaged DEF SyscallToExit, MethodsToExit, MethodsToMremap
<1>5. CASE req.call = "bind"
  BY <1>1, <1>5, Unstaged DEF SyscallToExit, MethodsToExit, MethodsToMremap
<1>6. CASE req.call = "brk"
  BY <1>1, <1>6, Unstaged DEF SyscallToExit, MethodsToExit, MethodsToMremap
<1>7. CASE req.call = "clock_getres"
  BY <1>1, <1>7, Unstaged DEF SyscallToExit, MethodsToExit, MethodsToMremap
<1>8. CASE req.call = "clock_gettime"
  BY <1>1, <1>8, Unstaged DEF SyscallToExit, MethodsToExit, MethodsToMremap
<1>9. CASE req.call = "close"
  BY <1>1, <1>9, Unstaged DEF SyscallToExit, MethodsToExit, MethodsToMremap
<1>10. CASE req.call = "connect"
  BY <1>1, <1>10, Unstaged DEF SyscallToExit, MethodsToExit, MethodsToMremap
<1>11. CASE req.call = "dup"
  BY <1>1, <1>11, Unstaged DEF SyscallToExit, MethodsToExit, MethodsToMremap
<1>12. CASE req.call = "dup2"
  BY <1>1, <1>12, Unstaged DEF SyscallToExit, MethodsToExit, MethodsToMremap
<1>13. CASE req.call = "dup3"
  BY <1>1, <1>13, Unstaged DEF SyscallToExit, MethodsToExit, MethodsToMremap
<1>14. CASE req.call = "epoll_create1"
  BY <1>1, <1>14, Unstaged DEF SyscallToExit, MethodsToExit, MethodsToMremap
<1>15. CASE req.call = "epoll_ctl"
  BY <1>1, <1>15, Unstaged DEF SyscallToExit, MethodsToExit, MethodsToMremap
<1>16. CASE req.call = "epoll_pwait"
  BY <1>1, <1>16, Unstaged DEF SyscallToExit, MethodsToExit, MethodsToMremap
<1>17. CASE req.call = "epoll_wait"
  BY <1>1, <1>17, Unstaged DEF SyscallToExit, MethodsToExit, MethodsToMremap
<1>18. CASE req.call = "eventfd2"
  BY <1>1, <1>18, Unstaged DEF SyscallToExit, MethodsToExit, MethodsToMremap
<1>19. CASE req.call = "exit"
  BY <1>1, <1>19, Unstaged DEF SyscallToExit, MethodsToExit, MethodsToMremap
<1>20. CASE req.call = "exit_group"
  BY <1>1, <1>20, Unstaged DEF SyscallToExit, MethodsToExit, MethodsToMremap
<1> QED
  BY <1>2, <1>3, <1>4, <1>5, <1>6, <1>7, <1>8, <1>9, <1>10, <1>11, <1>12, <1>13, <1>14, <1>15, <1>16, <1>17, <1>18, <1>19, <1>20 DEF CallsToExit

\* The calls up to munmap.
LEMMA StagedToMunmap ==
    ASSUME req.call \in CallsToMunmap, Handle(req).k = "stage"
    PROVE  \/ FcntlStaged
           \/ GetsocknameStaged
           \/ IoctlStaged
           \/ PassthroughStaged
<1>1. Handle(req) = SyscallToMunmap(req)
  BY DEF Handle, CallsToExit, CallsToMunmap, CallsToRtSigaction, PassthroughArgs, GdbPassthroughRet, EnarxPassthroughArgs
<1> USE DEF PassthroughArgs, FcntlStaged, GetsocknameStaged, IoctlStaged, PassthroughStaged
<1> USE DEF Validated, NonNull, ValidateSockaddrOutput, Staged, Execute, OrAttacked
<1>2. CASE req.call = "fcntl"
  BY <1>1, <1>2, Unstaged DEF SyscallToMunmap, MethodsToMremap, Fcntl
<1>3. CASE req.call = "fstat"
  BY <1>1, <1>3, Unstaged DEF SyscallToMunmap, MethodsToMremap, Fstat
<1>4. CASE req.call = "getegid"
  BY <1>1, <1>4, Unstaged DEF SyscallToMunmap, MethodsToMremap, Ignoring
<1>5. CASE req.call = "geteuid"
  BY <1>1, <1>5, Unstaged DEF SyscallToMunmap, MethodsToMremap, Ignoring
<1>6. CASE req.call = "getgid"
  BY <1>1, <1>6, Unstaged DEF SyscallToMunmap, MethodsToMremap, Ignoring
<1>7. CASE req.call = "getpid"
  BY <1>1, <1>7, Unstaged DEF SyscallToMunmap, MethodsToMremap, Ignoring
<1>8. CASE req.call = "getrandom"
  BY <1>1, <1>8, Unstaged DEF SyscallToMunmap, MethodsToMremap, Getrandom
<1>9. CASE req.call = "getsockname"
  BY <1>1, <1>9, Unstaged DEF SyscallToMunmap, MethodsToMremap
<1>10. CASE req.call = "getuid"
  BY <1>1, <1>10, Unstaged DEF SyscallToMunmap, MethodsToMremap, Ignoring
<1>11. CASE req.call = "ioctl"
  BY <1>1, <1>11, Unstaged DEF SyscallToMunmap, MethodsToMremap, Ioctl
<1>12. CASE req.call = "listen"
  BY <1>1, <1>12, Unstaged DEF SyscallToMunmap, MethodsToMremap
<1>13. CASE req.call = "madvise"
  BY <1>1, <1>13, Unstaged DEF SyscallToMunmap, MethodsToMremap
<1>14. CASE req.call = "mmap"
  BY <1>1, <1>14, Unstaged DEF SyscallToMunmap, MethodsToMremap
<1>15. CASE req.call = "mprotect"
  BY <1>1, <1>15, Unstaged DEF SyscallToMunmap, MethodsToMremap
<1>16. CASE req.call = "mremap"
  BY <1>1, <1>16, Unstaged DEF SyscallToMunmap, MethodsToMremap
<1>17. CASE req.call = "munmap"
  BY <1>1, <1>17, Unstaged DEF SyscallToMunmap, MethodsToMremap
<1> QED
  BY <1>2, <1>3, <1>4, <1>5, <1>6, <1>7, <1>8, <1>9, <1>10, <1>11, <1>12, <1>13, <1>14, <1>15, <1>16, <1>17 DEF CallsToMunmap

\* The calls up to rt_sigaction.
LEMMA StagedToRtSigaction ==
    ASSUME req.call \in CallsToRtSigaction, Handle(req).k = "stage"
    PROVE  \/ NanosleepStaged
           \/ OpenStaged
           \/ PollStaged
           \/ ReadStaged
           \/ ReadvStaged
           \/ RecvStaged
           \/ RecvfromStaged
<1>1. Handle(req) = SyscallToRtSigaction(req)
  BY DEF Handle, CallsToExit, CallsToMunmap, CallsToRtSigaction, PassthroughArgs, GdbPassthroughRet, EnarxPassthroughArgs
<1> USE DEF PassthroughArgs, NanosleepStaged, OpenStaged, PollStaged, ReadStaged, ReadvStaged, RecvStaged, RecvfromStaged
<1> USE DEF Validated, NonNull, ValidateSockaddrOutput, Staged, Execute, OrAttacked
<1>2. CASE req.call = "nanosleep"
  BY <1>1, <1>2, Unstaged DEF SyscallToRtSigaction, MethodsToRecv
<1>3. CASE req.call = "open"
  BY <1>1, <1>3, Unstaged DEF SyscallToRtSigaction, MethodsToRecv, Open
<1>4. CASE req.call = "poll"
  BY <1>1, <1>4, Unstaged DEF SyscallToRtSigaction, MethodsToRecv
<1>5. CASE req.call = "read"
  BY <1>1, <1>5, Unstaged DEF SyscallToRtSigaction, MethodsToRecv
<1>6. CASE req.call = "readlink"
  BY <1>1, <1>6, Unstaged DEF SyscallToRtSigaction, MethodsToRecv, Readlink
<1>7. CASE req.call = "readv"
  BY <1>1, <1>7, Unstaged DEF SyscallToRtSigaction, MethodsToRecv
<1>8. CASE req.call = "recvfrom"
  BY <1>1, <1>8, Unstaged DEF SyscallToRtSigaction, MethodsToRecv
<1>9. CASE req.call = "rt_sigaction"
  BY <1>1, <1>9, Unstaged DEF SyscallToRtSigaction, MethodsToRecv
<1> QED
  BY <1>2, <1>3, <1>4, <1>5, <1>6, <1>7, <1>8, <1>9 DEF CallsToRtSigaction

\* The calls up to writev.
LEMMA StagedToWritev ==
    ASSUME Handle(req) = SyscallToWritev(req), Handle(req).k = "stage"
    PROVE  \/ SendStaged
           \/ SendtoStaged
           \/ SetsockoptStaged
           \/ WriteStaged
           \/ WritevStaged
           \/ PassthroughStaged
<1> USE DEF PassthroughArgs, SendStaged, SendtoStaged, SetsockoptStaged, WriteStaged, WritevStaged, PassthroughStaged
<1> USE DEF Validated, NonNull, Staged, Execute, OrAttacked
<1>1. CASE req.call = "sendto"
  BY <1>1, Unstaged DEF SyscallToWritev, MethodsToWritev
<1>2. CASE req.call = "set_tid_address"
  BY <1>2, Unstaged DEF SyscallToWritev, MethodsToWritev, Ignoring
<1>3. CASE req.call = "uname"
  BY <1>3, Unstaged DEF SyscallToWritev, MethodsToWritev, Uname
<1>4. CASE req.call = "write"
  BY <1>4, Unstaged DEF SyscallToWritev, MethodsToWritev
<1>5. CASE req.call = "writev"
  BY <1>5, Unstaged DEF SyscallToWritev, MethodsToWritev
<1>6. CASE req.call = "rt_sigprocmask"
  BY <1>6, Unstaged DEF SyscallToWritev, MethodsToWritev, Ignoring
<1>7. CASE req.call = "setsockopt"
  BY <1>7, Unstaged DEF SyscallToWritev, MethodsToWritev
<1>8. CASE req.call = "sigaltstack"
  BY <1>8, Unstaged DEF SyscallToWritev, MethodsToWritev, Ignoring
<1>9. CASE req.call = "socket"
  BY <1>9, Unstaged DEF SyscallToWritev, MethodsToWritev
<1>10. CASE req.call = "sync"
  BY <1>10, Unstaged DEF SyscallToWritev, MethodsToWritev
<1>11. CASE req.call \notin {"sendto", "set_tid_address", "uname", "write", "writev", "rt_sigprocmask", "setsockopt", "sigaltstack", "socket", "sync"}
  BY <1>11, Unstaged DEF SyscallToWritev
<1> QED
  BY <1>1, <1>2, <1>3, <1>4, <1>5, <1>6, <1>7, <1>8, <1>9, <1>10, <1>11

\* The calls the shim makes for itself: gdb and attestation.
LEMMA StagedForShim ==
    ASSUME req.call \in DOMAIN GdbPassthroughRet \cup {"gdb_write_all"}, Handle(req) = GdbMethods(req.call, req)
    PROVE  WriteAllStaged \/ GdbStaged
BY DEF GdbMethods, WriteAllStaged, GdbStaged

\* The Enarx calls.
LEMMA StagedForEnarx ==
    ASSUME req.call \in DOMAIN EnarxPassthroughArgs
                          \cup {"cpuid", "get_sgx_quote", "get_sgx_target_info", "get_snp_vcek"},
           Handle(req) = EnarxMethods(req.call, req)
    PROVE  CpuidStaged \/ QuoteStaged \/ TargetInfoStaged \/ VcekStaged \/ EnarxStaged
<1> USE DEF CpuidStaged, QuoteStaged, TargetInfoStaged, VcekStaged, EnarxStaged, EnarxMethods
<1>1. CASE req.call = "cpuid"
  BY <1>1
<1>2. CASE req.call = "get_sgx_quote"
  BY <1>2
<1>3. CASE req.call = "get_sgx_target_info"
  BY <1>3
<1>4. CASE req.call = "get_snp_vcek"
  BY <1>4
<1>5. CASE req.call \in DOMAIN EnarxPassthroughArgs
  BY <1>5 DEF EnarxPassthroughArgs
<1> QED
  BY <1>1, <1>2, <1>3, <1>4, <1>5

\* Every staged request is one of these.
LEMMA WhatIsStaged ==
    ASSUME Handle(req).k = "stage"
    PROVE  \/ AcceptStaged
           \/ Accept4Staged
           \/ BindStaged
           \/ ClockGetresStaged
           \/ ClockGettimeStaged
           \/ ConnectStaged
           \/ EpollCtlStaged
           \/ EpollWaitStaged
           \/ EpollPwaitStaged
           \/ PassthroughStaged
           \/ ExitStaged
           \/ FcntlStaged
           \/ GetsocknameStaged
           \/ IoctlStaged
           \/ NanosleepStaged
           \/ OpenStaged
           \/ PollStaged
           \/ ReadStaged
           \/ ReadvStaged
           \/ RecvStaged
           \/ RecvfromStaged
           \/ SendStaged
           \/ SendtoStaged
           \/ SetsockoptStaged
           \/ WriteStaged
           \/ WritevStaged
           \/ WriteAllStaged
           \/ GdbStaged
           \/ CpuidStaged
           \/ QuoteStaged
           \/ TargetInfoStaged
           \/ VcekStaged
           \/ EnarxStaged
<1>1. CASE req.call \in CallsToExit
  BY <1>1, StagedToExit
<1>2. CASE req.call \in CallsToMunmap
  BY <1>2, StagedToMunmap
<1>3. CASE req.call \in CallsToRtSigaction
  BY <1>3, StagedToRtSigaction
<1>4. CASE req.call \notin CallsToExit \cup CallsToMunmap \cup CallsToRtSigaction
  <2>1. CASE req.call \in DOMAIN GdbPassthroughRet \cup {"gdb_write_all"}
    <3>1. Handle(req) = GdbMethods(req.call, req)
      BY <1>4, <2>1 DEF Handle, GdbPassthroughRet, EnarxPassthroughArgs
    <3> QED
      BY <2>1, <3>1, StagedForShim
  <2>2. CASE req.call \notin DOMAIN GdbPassthroughRet \cup {"gdb_write_all"}
    <3>1. CASE req.call \in DOMAIN EnarxPassthroughArgs
                          \cup {"cpuid", "get_sgx_quote", "get_sgx_target_info", "get_snp_vcek"}
      <4>1. Handle(req) = EnarxMethods(req.call, req)
        BY <1>4, <2>2, <3>1 DEF Handle
      <4> QED
        BY <3>1, <4>1, StagedForEnarx
    <3>2. CASE req.call \notin DOMAIN EnarxPassthroughArgs
                          \cup {"cpuid", "get_sgx_quote", "get_sgx_target_info", "get_snp_vcek"}
      <4>1. Handle(req) = SyscallToWritev(req)
        BY <1>4, <2>2, <3>2 DEF Handle
      <4> QED
        BY <4>1, StagedToWritev
    <3> QED
      BY <3>1, <3>2
  <2> QED
    BY <2>1, <2>2
<1> QED
  BY <1>1, <1>2, <1>3, <1>4

----------------------------------------------------------------------------
(* The caller's storage.                                                   *)

\* The cells of two sequences put together.
LEMMA Gathering ==
    ASSUME NEW m \in Nat, NEW n \in Nat, NEW s, NEW t,
           s = [i \in 1..m |-> s[i]], t = [i \in 1..n |-> t[i]]
    PROVE  /\ Len(s) = m /\ Len(t) = n
           /\ Len(s \o t) = m + n /\ DOMAIN (s \o t) = 1..(m + n)
           /\ \A i \in 1..(m + n) : (s \o t)[i] = IF i <= m THEN s[i] ELSE t[i - m]
<1> DEFINE S == {s[i] : i \in 1..m} \cup {t[i] : i \in 1..n}
<1>1. s \in [1..m -> S] /\ t \in [1..n -> S]
  OBVIOUS
<1>2. s \in Seq(S) /\ t \in Seq(S) /\ Len(s) = m /\ Len(t) = n
  BY SMTT(30), <1>1
<1> HIDE DEF S
<1>3. s \o t \in Seq(S) /\ Len(s \o t) = m + n
      /\ \A i \in 1..(m + n) : (s \o t)[i] = IF i <= m THEN s[i] ELSE t[i - m]
  BY ZenonT(30), <1>2, ConcatProperties
<1>4. DOMAIN (s \o t) = 1..(m + n)
  BY <1>3
<1> QED
  BY <1>2, <1>3, <1>4

\* What an argument spans, and what of it the caller owns.
LEMMA SpannedNat ==
    ASSUME IsRequest(req), NEW r \in Roles
    PROVE  Spanned(req, r) \in Nat /\ Owned(req, r) \in Nat /\ Owned(req, r) <= Spanned(req, r)
<1>1. req.n * KernelEventSize \in Nat /\ req.n * EventSize \in Nat /\ req.n * KernelEventSize <= req.n * EventSize
  BY Constants, Product, ProductGrows DEF IsRequest
<1>2. req.n \in Nat /\ req.n2 \in Nat /\ req.a \in Nat /\ req.n * 1 = req.n
  BY DEF IsRequest
<1> QED
  BY <1>1, <1>2 DEF Spanned, Owned, Roles

\* A function from Roles to sequences.
IsStorage(m) == \A r \in Roles : m[r] = [i \in 1..Spanned(req, r) |-> m[r][i]]

\* The caller's storage, by role.
LEMMA UserStorage ==
    ASSUME IsRequest(req)
    PROVE  /\ IsStorage(UserMem(req)) /\ DOMAIN UserMem(req) = Roles
           /\ \A r \in Roles : \A i \in 1..Spanned(req, r) : UserMem(req)[r][i] = Mine(req, r, i)
BY DEF IsStorage, UserMem

\* An argument as one sequence, the parts of an iovec put together.
LEMMA WholeOf ==
    ASSUME IsRequest(req), NEW m, IsStorage(m), NEW r \in Roles
    PROVE  LET size == IF r = "buf" /\ Vectored THEN Spanned(req, "buf") + Spanned(req, "buf2")
                       ELSE Spanned(req, r)
           IN  /\ size \in Nat /\ Len(Whole(m, r)) = size /\ DOMAIN Whole(m, r) = 1..size
               /\ \A i \in 1..size : Whole(m, r)[i] =
                    IF r = "buf" /\ Vectored /\ i > Spanned(req, "buf")
                    THEN m["buf2"][i - Spanned(req, "buf")] ELSE m[r][i]
<1>1. CASE r = "buf" /\ Vectored
  <2>1. PICK n1 \in Nat : n1 = Spanned(req, "buf")
    BY SpannedNat DEF Roles
  <2>2. PICK n2 \in Nat : n2 = Spanned(req, "buf2")
    BY SpannedNat DEF Roles
  <2>3. PICK s, t : s = m["buf"] /\ t = m["buf2"]
    OBVIOUS
  <2>4. s = [i \in 1..n1 |-> s[i]] /\ t = [i \in 1..n2 |-> t[i]]
    BY <2>1, <2>2, <2>3 DEF IsStorage, Roles
  <2>5. Whole(m, r) = s \o t
    BY <1>1, <2>3 DEF Whole
  <2>6. /\ Len(s \o t) = n1 + n2 /\ DOMAIN (s \o t) = 1..(n1 + n2)
        /\ \A i \in 1..(n1 + n2) : (s \o t)[i] = IF i <= n1 THEN s[i] ELSE t[i - n1]
    BY <2>4, Gathering
  <2>7. \A i \in 1..(n1 + n2) : (s \o t)[i] = IF i > n1 THEN t[i - n1] ELSE s[i]
    BY <2>6
  <2>8. PICK w : w = Whole(m, r) /\ Len(w) = n1 + n2 /\ DOMAIN w = 1..(n1 + n2)
              /\ \A i \in 1..(n1 + n2) : w[i] = IF i > n1 THEN t[i - n1] ELSE s[i]
    BY <2>5, <2>6, <2>7
  <2>9. PICK size \in Nat : size = n1 + n2
    OBVIOUS
  <2>10. \A i \in 1..size : w[i] = IF r = "buf" /\ Vectored /\ i > n1 THEN m["buf2"][i - n1] ELSE m[r][i]
    BY <1>1, <2>3, <2>8, <2>9
  <2> QED
    BY <1>1, <2>1, <2>2, <2>8, <2>9, <2>10
<1>2. CASE ~(r = "buf" /\ Vectored)
  <2>1. Whole(m, r) = m[r]
    BY <1>2 DEF Whole
  <2>2. PICK n \in Nat : n = Spanned(req, r)
    BY SpannedNat
  <2>3. PICK s : s = m[r] /\ s = [i \in 1..n |-> s[i]]
    BY <2>2 DEF IsStorage
  <2>4. Len(s) = n /\ DOMAIN s = 1..n
    BY <2>3
  <2> QED
    BY <1>2, <2>1, <2>2, <2>3, <2>4
<1> QED
  BY <1>1, <1>2

\* What the arguments of a request measure.
LEMMA Lengths ==
    ASSUME IsRequest(req)
    PROVE  /\ req.n \in Nat /\ req.n2 \in Nat /\ req.a \in Nat
           /\ "buf" \notin req.null /\ IsEpoll(req) => Len(Whole(UserMem(req), "buf")) = req.n * EventSize
           /\ "buf" \notin req.null /\ ~IsEpoll(req) /\ ~Vectored => Len(Whole(UserMem(req), "buf")) = req.n
           /\ "buf" \notin req.null /\ "buf2" \notin req.null /\ Vectored =>
                Len(Whole(UserMem(req), "buf")) = req.n + req.n2
           /\ "buf2" \notin req.null => Len(Whole(UserMem(req), "buf2")) = req.n2
           /\ "addr" \notin req.null => Len(Whole(UserMem(req), "addr")) = req.a
           /\ "len" \notin req.null => Len(Whole(UserMem(req), "len")) = 1
<1>1. req.n \in Nat /\ req.n2 \in Nat /\ req.a \in Nat /\ req.n * 1 = req.n
  BY DEF IsRequest
<1>2. \A r \in Roles : Len(Whole(UserMem(req), r)) =
          IF r = "buf" /\ Vectored THEN Spanned(req, "buf") + Spanned(req, "buf2") ELSE Spanned(req, r)
  BY WholeOf, UserStorage
<1>3. /\ "buf" \notin req.null => Spanned(req, "buf") = IF IsEpoll(req) THEN req.n * EventSize ELSE req.n
      /\ "buf2" \notin req.null => Spanned(req, "buf2") = req.n2
      /\ "addr" \notin req.null => Spanned(req, "addr") = req.a
      /\ "len" \notin req.null => Spanned(req, "len") = 1
  BY <1>1 DEF Spanned, Owned
<1>4. Vectored => ~IsEpoll(req)
  BY DEF Vectored, IsEpoll
<1> QED
  BY <1>1, <1>2, <1>3, <1>4 DEF Roles

----------------------------------------------------------------------------
(* The host's arms by name.                                                *)

SyscallNames ==
  {"accept", "accept4", "bind", "clock_getres", "clock_gettime", "close", "connect", "dup", "dup2",
   "dup3", "epoll_create1", "epoll_ctl", "epoll_pwait", "epoll_wait", "eventfd2", "exit",
   "exit_group", "fcntl", "getsockname", "ioctl", "listen", "nanosleep", "open", "poll", "read",
   "recvfrom", "sendto", "setsockopt", "socket", "sync", "write"}

GdbNames ==
  {"gdb_on_session_start", "gdb_flush", "gdb_peek", "gdb_read", "gdb_write", "gdb_write_all"}

\* The numbers the host knows.
LEMMA ArmNames == DOMAIN SyscallArms = SyscallNames /\ DOMAIN GdbArms = GdbNames
<1>1. DOMAIN SyscallArmsToDup = {"accept", "accept4", "bind", "clock_getres", "clock_gettime", "close", "connect", "dup"}
  BY DEF SyscallArmsToDup
<1>2. DOMAIN SyscallArmsToFcntl = {"dup2", "dup3", "epoll_create1", "epoll_ctl", "epoll_pwait",
        "epoll_wait", "eventfd2", "exit", "exit_group", "fcntl"}
  BY DEF SyscallArmsToFcntl
<1>3. DOMAIN SyscallArmsToPoll = {"getsockname", "ioctl", "listen", "nanosleep", "open", "poll"}
  BY DEF SyscallArmsToPoll
<1>4. DOMAIN SyscallArmsToWrite = {"read", "recvfrom", "sendto", "setsockopt", "socket", "sync", "write"}
  BY DEF SyscallArmsToWrite
<1>5. DOMAIN SyscallArms = (DOMAIN SyscallArmsToDup \cup DOMAIN SyscallArmsToFcntl)
                             \cup (DOMAIN SyscallArmsToPoll \cup DOMAIN SyscallArmsToWrite)
  BY DEF SyscallArms, Joined
<1>6. DOMAIN SyscallArms = SyscallNames
  BY <1>1, <1>2, <1>3, <1>4, <1>5 DEF SyscallNames
<1>7. DOMAIN GdbArms = GdbNames
  BY DEF GdbArms, GdbNames
<1> QED
  BY <1>6, <1>7

\* Which arm serves a number.
LEMMA ArmsOf ==
    ASSUME NEW b, NEW num
    PROVE  /\ num \in SyscallNames => num \in DOMAIN Arms(b) /\ Arms(b)[num] = SyscallArms[num]
           /\ num \in GdbNames => num \in DOMAIN Arms(b) /\ Arms(b)[num] = GdbArms[num]
           /\ num = "cpuid" => num \in DOMAIN Arms(b) /\ Arms(b)[num] = HostEnarxArms[num]
           /\ num \notin SyscallNames \cup GdbNames \cup {"cpuid"} =>
                /\ num \in DOMAIN Arms(b) <=> num \in DOMAIN BackendArms(b)
                /\ num \in DOMAIN Arms(b) => Arms(b)[num] = BackendArms(b)[num]
<1>1. DOMAIN HostEnarxArms = {"cpuid"}
  BY DEF HostEnarxArms
<1>2. SyscallNames \cap GdbNames = {} /\ "cpuid" \notin SyscallNames \cup GdbNames
  BY DEF SyscallNames, GdbNames
<1>3. PICK f, g : f = Joined(SyscallArms, GdbArms) /\ g = Joined(HostEnarxArms, BackendArms(b))
  OBVIOUS
<1>4. DOMAIN f = SyscallNames \cup GdbNames /\ DOMAIN g = {"cpuid"} \cup DOMAIN BackendArms(b)
  BY <1>1, <1>3, ArmNames DEF Joined
<1>5. /\ \A x \in SyscallNames : f[x] = SyscallArms[x]
      /\ \A x \in GdbNames : f[x] = GdbArms[x]
  BY <1>2, <1>3, ArmNames DEF Joined
<1>6. /\ g["cpuid"] = HostEnarxArms["cpuid"]
      /\ \A x \in DOMAIN BackendArms(b) : x # "cpuid" => g[x] = BackendArms(b)[x]
  BY <1>1, <1>3 DEF Joined
<1>7. /\ DOMAIN Arms(b) = DOMAIN f \cup DOMAIN g
      /\ \A x \in DOMAIN f : Arms(b)[x] = f[x]
      /\ \A x \in DOMAIN g : x \notin DOMAIN f => Arms(b)[x] = g[x]
  BY <1>3 DEF Arms, Joined
<1> QED
  BY <1>2, <1>4, <1>5, <1>6, <1>7

\* The arms of the system calls, from the four tables.
LEMMA SyscallArmOf ==
    ASSUME NEW num
    PROVE  /\ num \in DOMAIN SyscallArmsToDup => SyscallArms[num] = SyscallArmsToDup[num]
           /\ num \in DOMAIN SyscallArmsToFcntl => SyscallArms[num] = SyscallArmsToFcntl[num]
           /\ num \in DOMAIN SyscallArmsToPoll => SyscallArms[num] = SyscallArmsToPoll[num]
           /\ num \in DOMAIN SyscallArmsToWrite => SyscallArms[num] = SyscallArmsToWrite[num]
<1>1. DOMAIN SyscallArmsToDup = {"accept", "accept4", "bind", "clock_getres", "clock_gettime", "close", "connect", "dup"}
  BY DEF SyscallArmsToDup
<1>2. DOMAIN SyscallArmsToFcntl = {"dup2", "dup3", "epoll_create1", "epoll_ctl", "epoll_pwait",
        "epoll_wait", "eventfd2", "exit", "exit_group", "fcntl"}
  BY DEF SyscallArmsToFcntl
<1>3. DOMAIN SyscallArmsToPoll = {"getsockname", "ioctl", "listen", "nanosleep", "open", "poll"}
  BY DEF SyscallArmsToPoll
<1>4. DOMAIN SyscallArmsToWrite = {"read", "recvfrom", "sendto", "setsockopt", "socket", "sync", "write"}
  BY DEF SyscallArmsToWrite
<1>5. PICK f, g : f = Joined(SyscallArmsToDup, SyscallArmsToFcntl) /\ g = Joined(SyscallArmsToPoll, SyscallArmsToWrite)
  OBVIOUS
<1>6. DOMAIN f = DOMAIN SyscallArmsToDup \cup DOMAIN SyscallArmsToFcntl
      /\ DOMAIN g = DOMAIN SyscallArmsToPoll \cup DOMAIN SyscallArmsToWrite
  BY <1>5 DEF Joined
<1>7. (\A x \in DOMAIN f : SyscallArms[x] = f[x]) /\ (\A x \in DOMAIN g : x \notin DOMAIN f => SyscallArms[x] = g[x])
  BY <1>5 DEF SyscallArms, Joined
<1>8. /\ num \in DOMAIN SyscallArmsToDup => f[num] = SyscallArmsToDup[num]
      /\ num \in DOMAIN SyscallArmsToFcntl => f[num] = SyscallArmsToFcntl[num]
  BY <1>1, <1>2, <1>5 DEF Joined
<1>9. /\ num \in DOMAIN SyscallArmsToPoll => g[num] = SyscallArmsToPoll[num]
      /\ num \in DOMAIN SyscallArmsToWrite => g[num] = SyscallArmsToWrite[num]
  BY <1>3, <1>4, <1>5 DEF Joined
<1>10. /\ num \in DOMAIN SyscallArmsToPoll => num \notin DOMAIN f
       /\ num \in DOMAIN SyscallArmsToWrite => num \notin DOMAIN f
  BY <1>1, <1>2, <1>3, <1>4, <1>6
<1> QED
  BY <1>6, <1>7, <1>8, <1>9, <1>10

Framed(c, option) ==
    Shape(c, option) /\ \A b \in Backends : c.num \in DOMAIN Arms(b) => Suits(c, Arms(b)[c.num])

\* The arms of the attestation services.
LEMMA QuoteArms ==
    ASSUME NEW b \in Backends
    PROVE  /\ "get_sgx_quote" \in DOMAIN Arms(b) => Arms(b)["get_sgx_quote"] =
                <<Pointer(1, [k |-> "num", v |-> ReportSize], U8), Bytes(2, 3), Word(3)>>
           /\ "get_sgx_target_info" \in DOMAIN Arms(b) => Arms(b)["get_sgx_target_info"] =
                <<Pointer(1, [k |-> "num", v |-> TargetInfoSize], U8)>>
           /\ "get_snp_vcek" \in DOMAIN Arms(b) => Arms(b)["get_snp_vcek"] = <<Bytes(1, 2), Word(2)>>
<1>1. DOMAIN SgxMemoryArms = {"mmap_host", "mprotect_host", "munmap_host", "trim_sgx_pages"}
  BY DEF SgxMemoryArms
<1>2. DOMAIN SgxEnarxArms = {"cpuid", "get_sgx_target_info", "get_sgx_quote", "get_sgx_quote_size"}
  BY DEF SgxEnarxArms
<1>3. DOMAIN KvmEnarxArms = {"mem_info", "balloon_memory"} /\ DOMAIN SnpEnarxArms = {"get_snp_vcek"}
  BY DEF KvmEnarxArms, SnpEnarxArms
<1>4. SgxEnarxArms["get_sgx_quote"] = <<Pointer(1, [k |-> "num", v |-> ReportSize], U8), Bytes(2, 3), Word(3)>>
      /\ SgxEnarxArms["get_sgx_target_info"] = <<Pointer(1, [k |-> "num", v |-> TargetInfoSize], U8)>>
  BY DEF SgxEnarxArms
<1>5. SnpEnarxArms["get_snp_vcek"] = <<Bytes(1, 2), Word(2)>>
  BY DEF SnpEnarxArms
<1>6. b \in {"sgx", "kvm", "snp"}
  BY ProxyAssumption DEF ProxyAssumption
<1>7. \A num \in {"get_sgx_quote", "get_sgx_target_info", "get_snp_vcek"} :
        num \in DOMAIN Arms(b) => num \in DOMAIN BackendArms(b) /\ Arms(b)[num] = BackendArms(b)[num]
  <2>1. \A num \in {"get_sgx_quote", "get_sgx_target_info", "get_snp_vcek"} : num \notin SyscallNames \cup GdbNames \cup {"cpuid"}
    BY DEF SyscallNames, GdbNames
  <2> QED
    BY <2>1, ArmsOf
<1>8. CASE b = "sgx"
  <2>1. BackendArms(b) = Joined(SgxEnarxArms, SgxMemoryArms)
    BY <1>8 DEF BackendArms
  <2> QED
    BY <1>1, <1>2, <1>4, <1>7, <2>1 DEF Joined
<1>9. CASE b = "kvm"
  <2>1. BackendArms(b) = KvmEnarxArms
    BY <1>9 DEF BackendArms
  <2> QED
    BY <1>3, <1>7, <2>1
<1>10. CASE b = "snp"
  <2>1. BackendArms(b) = Joined(KvmEnarxArms, SnpEnarxArms)
    BY <1>10 DEF BackendArms
  <2> QED
    BY <1>3, <1>5, <1>7, <2>1 DEF Joined
<1> QED
  BY <1>6, <1>8, <1>9, <1>10

\* Every staged call has the shape of the workload's request and suits the host's arm
\* for it: one lemma per call.
LEMMA AcceptFramed ==
    ASSUME AcceptStaged, IsRequest(req), "addr" \notin req.null
    PROVE  Framed(Item, Handle(req).option)
<1> DEFINE g == AddrOutput(req)
           h == AddrlenOutput
<1>1. PICK c : c = Item /\ c = Accept(req)
  BY DEF AcceptStaged, Execute, Staged, Item
<1>2. Handle(req).option = FALSE /\ req.call = "accept" /\ ("addr" \in req.null \/ "len" \notin req.null)
  BY DEF AcceptStaged, Execute, Staged
<1>3. /\ c.num = "accept" /\ c.regions = <<g, h>> /\ c.collect = "sockaddr"
      /\ c.argv = <<Arg(1), Off("addr"), Off("len")>>
  BY <1>1, <1>2 DEF Accept, Call, Optional, SockaddrOutput
<1>4. g.role = "addr" /\ g.dir = "out" /\ g.n = req.a /\ g.max = FALSE /\ g.layout = Obj
  BY DEF AddrOutput, Region
<1>5. h.role = "len" /\ h.dir = "inout" /\ h.n = 1 /\ h.max = FALSE /\ h.layout = Obj
  BY DEF AddrlenOutput, Region
<1> HIDE DEF g, h
<1>6. IsRegion(g)
  BY <1>4, Lengths DEF IsRegion, Roles
<1>7. IsRegion(h)
  <2>1. h.n \in Nat
    BY <1>5
  <2>2. h.role \in Roles /\ h.max \in BOOLEAN /\ ~h.max /\ h.layout = Obj
    BY <1>5 DEF Roles
  <2> QED
    BY <2>1, <2>2 DEF IsRegion
<1>8. IsRegions(c.regions) /\ RegionsOf(c) = {g, h}
  BY <1>3, <1>4, <1>5, <1>6, <1>7, TwoRegions
<1>9. "accept" \in DOMAIN Abi /\ Abi["accept"] = <<"reg", "addr", "len">>
  BY DEF Abi
<1>10. Convention("accept") = {"reg", "addr", "len"}
  BY <1>9 DEF Convention
<1>11. \A x \in RegionsOf(c) : Mirrors(c, x)
  <2>1. g.layout.size = 1 /\ Len(Whole(UserMem(req), "addr")) = req.a
    BY <1>2, <1>4, Lengths DEF Obj, IsRequest, OneObject, ByReference, IsEpoll, Vectored
  <2>2. Mirrors(c, g)
    BY <1>2, <1>3, <1>4, <1>9, <1>10, <2>1, Lengths DEF Mirrors, Arguments, Vectored, IsEpoll, Reads, Counting, Roles
  <2>3. h.layout.size = 1 /\ Len(Whole(UserMem(req), "len")) = 1
    BY <1>2, <1>5, Lengths DEF Obj, IsRequest, OneObject, ByReference, IsEpoll, Vectored
  <2>4. Mirrors(c, h)
    BY <1>2, <1>3, <1>5, <1>9, <1>10, <2>3, Lengths DEF Mirrors, Arguments, Vectored, IsEpoll, Reads, Counting, Roles
  <2> QED
    BY <1>8, <2>2, <2>4
<1>12. Collects(c, Handle(req).option)
  BY <1>2, <1>3, <1>4, <1>5, <1>8, <1>9, <1>10 DEF Collects, Has, Counting, Vectored
<1>13. \A r \in Roles \cap Convention(c.num) : Absent(r) <=> ~Has(c, r)
  BY <1>2, <1>3, <1>4, <1>5, <1>8, <1>10 DEF Has, Absent, Roles
<1>14. Shape(c, Handle(req).option)
  BY <1>3, <1>8, <1>9, <1>11, <1>12, <1>13 DEF Shape
<1>15. ASSUME NEW b \in Backends PROVE Suits(c, Arms(b)["accept"])
  <2>1. Arms(b)["accept"] = <<Word(1), OrNull(SockaddrOut(2, 3)), NullWith(SocklenOut(3), 2)>>
    BY ArmsOf, SyscallArmOf DEF SyscallNames, SyscallArmsToDup
  <2>2. PICK specs : specs = Arms(b)["accept"] /\ DOMAIN specs = 1..3
                    /\ specs[1] = Word(1) /\ specs[2] = OrNull(SockaddrOut(2, 3)) /\ specs[3] = NullWith(SocklenOut(3), 2)
    BY <2>1
  <2>3. Matches(c, specs[1], "reg", 1)
    BY <1>3, <2>2 DEF Matches, Word
  <2>4. Matches(c, specs[2], "addr", 2)
    BY <1>2, <1>3, <1>4, <1>5, <1>8, <2>2 DEF Matches, PointsTo, Counts, NullAt, Has, OffAt, CountAt, Roles, NullWith, OrNull, Pointer, SockaddrOut
  <2>5. Matches(c, specs[3], "len", 3)
    BY <1>2, <1>3, <1>4, <1>5, <1>8, <2>2 DEF Matches, PointsTo, Counts, NullAt, Has, OffAt, CountAt, Roles, Aligned, NullWith, Pointer, SocklenOut
  <2>6. \A p \in 1..3 : Matches(c, specs[p], Abi["accept"][p], p)
    <3>1. \A p \in 1..3 : p = 1 \/ p = 2 \/ p = 3
      OBVIOUS
    <3> QED
      BY <1>9, <2>3, <2>4, <2>5, <3>1
  <2> QED
    BY <1>3, <1>9, <2>2, <2>6 DEF Suits, Words6
<1> QED
  BY <1>1, <1>3, <1>14, <1>15 DEF Framed

LEMMA AcceptNullFramed ==
    ASSUME AcceptStaged, IsRequest(req), "addr" \in req.null
    PROVE  Framed(Item, Handle(req).option)
<1>1. PICK c : c = Item /\ c = Accept(req)
  BY DEF AcceptStaged, Execute, Staged, Item
<1>2. Handle(req).option = FALSE /\ req.call = "accept" /\ ("addr" \in req.null \/ "len" \notin req.null)
  BY DEF AcceptStaged, Execute, Staged
<1>3. /\ c.num = "accept" /\ c.regions = <<>> /\ c.collect = "sockaddr"
      /\ c.argv = <<Arg(1), Off("addr"), Off("len")>>
  BY <1>1, <1>2 DEF Accept, Call, Optional
<1>4. IsRegions(c.regions) /\ RegionsOf(c) = {}
  BY <1>3, NoRegions
<1>5. "accept" \in DOMAIN Abi /\ Abi["accept"] = <<"reg", "addr", "len">>
  BY DEF Abi
<1>6. Convention("accept") = {"reg", "addr", "len"}
  BY <1>5 DEF Convention
<1>7. \A x \in RegionsOf(c) : Mirrors(c, x)
  BY <1>4
<1>8. Collects(c, Handle(req).option)
  BY <1>2, <1>3, <1>4, <1>5, <1>6 DEF Collects, Has, Counting, Vectored
<1>9. \A r \in Roles \cap Convention(c.num) : Absent(r) <=> ~Has(c, r)
  BY <1>2, <1>3, <1>4, <1>6 DEF Has, Absent, Roles
<1>10. Shape(c, Handle(req).option)
  BY <1>3, <1>4, <1>5, <1>7, <1>8, <1>9 DEF Shape
<1>11. ASSUME NEW b \in Backends PROVE Suits(c, Arms(b)["accept"])
  <2>1. Arms(b)["accept"] = <<Word(1), OrNull(SockaddrOut(2, 3)), NullWith(SocklenOut(3), 2)>>
    BY ArmsOf, SyscallArmOf DEF SyscallNames, SyscallArmsToDup
  <2>2. PICK specs : specs = Arms(b)["accept"] /\ DOMAIN specs = 1..3
                    /\ specs[1] = Word(1) /\ specs[2] = OrNull(SockaddrOut(2, 3)) /\ specs[3] = NullWith(SocklenOut(3), 2)
    BY <2>1
  <2>3. Matches(c, specs[1], "reg", 1)
    BY <1>3, <2>2 DEF Matches, Word
  <2>4. Matches(c, specs[2], "addr", 2)
    BY <1>2, <1>3, <1>4, <2>2 DEF Matches, PointsTo, Counts, NullAt, Has, OffAt, CountAt, Roles, NullWith, OrNull, Pointer, SockaddrOut
  <2>5. Matches(c, specs[3], "len", 3)
    BY <1>2, <1>3, <1>4, <2>2 DEF Matches, PointsTo, Counts, NullAt, Has, OffAt, CountAt, Roles, Aligned, NullWith, Pointer, SocklenOut
  <2>6. \A p \in 1..3 : Matches(c, specs[p], Abi["accept"][p], p)
    <3>1. \A p \in 1..3 : p = 1 \/ p = 2 \/ p = 3
      OBVIOUS
    <3> QED
      BY <1>5, <2>3, <2>4, <2>5, <3>1
  <2> QED
    BY <1>3, <1>5, <2>2, <2>6 DEF Suits, Words6
<1> QED
  BY <1>1, <1>3, <1>10, <1>11 DEF Framed

LEMMA Accept4Framed ==
    ASSUME Accept4Staged, IsRequest(req), "addr" \notin req.null
    PROVE  Framed(Item, Handle(req).option)
<1> DEFINE g == AddrOutput(req)
           h == AddrlenOutput
<1>1. PICK c : c = Item /\ c = Accept4(req)
  BY DEF Accept4Staged, Execute, Staged, Item
<1>2. Handle(req).option = FALSE /\ req.call = "accept4" /\ ("addr" \in req.null \/ "len" \notin req.null)
  BY DEF Accept4Staged, Execute, Staged
<1>3. /\ c.num = "accept4" /\ c.regions = <<g, h>> /\ c.collect = "sockaddr"
      /\ c.argv = <<Arg(1), Off("addr"), Off("len"), Arg(4)>>
  BY <1>1, <1>2 DEF Accept4, Call, Optional, SockaddrOutput
<1>4. g.role = "addr" /\ g.dir = "out" /\ g.n = req.a /\ g.max = FALSE /\ g.layout = Obj
  BY DEF AddrOutput, Region
<1>5. h.role = "len" /\ h.dir = "inout" /\ h.n = 1 /\ h.max = FALSE /\ h.layout = Obj
  BY DEF AddrlenOutput, Region
<1> HIDE DEF g, h
<1>6. IsRegion(g)
  BY <1>4, Lengths DEF IsRegion, Roles
<1>7. IsRegion(h)
  <2>1. h.n \in Nat
    BY <1>5
  <2>2. h.role \in Roles /\ h.max \in BOOLEAN /\ ~h.max /\ h.layout = Obj
    BY <1>5 DEF Roles
  <2> QED
    BY <2>1, <2>2 DEF IsRegion
<1>8. IsRegions(c.regions) /\ RegionsOf(c) = {g, h}
  BY <1>3, <1>4, <1>5, <1>6, <1>7, TwoRegions
<1>9. "accept4" \in DOMAIN Abi /\ Abi["accept4"] = <<"reg", "addr", "len", "reg">>
  BY DEF Abi
<1>10. Convention("accept4") = {"reg", "addr", "len"}
  BY <1>9 DEF Convention
<1>11. \A x \in RegionsOf(c) : Mirrors(c, x)
  <2>1. g.layout.size = 1 /\ Len(Whole(UserMem(req), "addr")) = req.a
    BY <1>2, <1>4, Lengths DEF Obj, IsRequest, OneObject, ByReference, IsEpoll, Vectored
  <2>2. Mirrors(c, g)
    BY <1>2, <1>3, <1>4, <1>9, <1>10, <2>1, Lengths DEF Mirrors, Arguments, Vectored, IsEpoll, Reads, Counting, Roles
  <2>3. h.layout.size = 1 /\ Len(Whole(UserMem(req), "len")) = 1
    BY <1>2, <1>5, Lengths DEF Obj, IsRequest, OneObject, ByReference, IsEpoll, Vectored
  <2>4. Mirrors(c, h)
    BY <1>2, <1>3, <1>5, <1>9, <1>10, <2>3, Lengths DEF Mirrors, Arguments, Vectored, IsEpoll, Reads, Counting, Roles
  <2> QED
    BY <1>8, <2>2, <2>4
<1>12. Collects(c, Handle(req).option)
  BY <1>2, <1>3, <1>4, <1>5, <1>8, <1>9, <1>10 DEF Collects, Has, Counting, Vectored
<1>13. \A r \in Roles \cap Convention(c.num) : Absent(r) <=> ~Has(c, r)
  BY <1>2, <1>3, <1>4, <1>5, <1>8, <1>10 DEF Has, Absent, Roles
<1>14. Shape(c, Handle(req).option)
  BY <1>3, <1>8, <1>9, <1>11, <1>12, <1>13 DEF Shape
<1>15. ASSUME NEW b \in Backends PROVE Suits(c, Arms(b)["accept4"])
  <2>1. Arms(b)["accept4"] = <<Word(1), OrNull(SockaddrOut(2, 3)), NullWith(SocklenOut(3), 2), Word(4)>>
    BY ArmsOf, SyscallArmOf DEF SyscallNames, SyscallArmsToDup
  <2>2. PICK specs : specs = Arms(b)["accept4"] /\ DOMAIN specs = 1..4
                    /\ specs[1] = Word(1) /\ specs[2] = OrNull(SockaddrOut(2, 3)) /\ specs[3] = NullWith(SocklenOut(3), 2) /\ specs[4] = Word(4)
    BY <2>1
  <2>3. Matches(c, specs[1], "reg", 1)
    BY <1>3, <2>2 DEF Matches, Word
  <2>4. Matches(c, specs[2], "addr", 2)
    BY <1>2, <1>3, <1>4, <1>5, <1>8, <2>2 DEF Matches, PointsTo, Counts, NullAt, Has, OffAt, CountAt, Roles, NullWith, OrNull, Pointer, SockaddrOut
  <2>5. Matches(c, specs[3], "len", 3)
    BY <1>2, <1>3, <1>4, <1>5, <1>8, <2>2 DEF Matches, PointsTo, Counts, NullAt, Has, OffAt, CountAt, Roles, Aligned, NullWith, Pointer, SocklenOut
  <2>6. Matches(c, specs[4], "reg", 4)
    BY <1>3, <2>2 DEF Matches, Word
  <2>7. \A p \in 1..4 : Matches(c, specs[p], Abi["accept4"][p], p)
    <3>1. \A p \in 1..4 : p = 1 \/ p = 2 \/ p = 3 \/ p = 4
      OBVIOUS
    <3> QED
      BY <1>9, <2>3, <2>4, <2>5, <2>6, <3>1
  <2> QED
    BY <1>3, <1>9, <2>2, <2>7 DEF Suits, Words6
<1> QED
  BY <1>1, <1>3, <1>14, <1>15 DEF Framed

LEMMA Accept4NullFramed ==
    ASSUME Accept4Staged, IsRequest(req), "addr" \in req.null
    PROVE  Framed(Item, Handle(req).option)
<1>1. PICK c : c = Item /\ c = Accept4(req)
  BY DEF Accept4Staged, Execute, Staged, Item
<1>2. Handle(req).option = FALSE /\ req.call = "accept4" /\ ("addr" \in req.null \/ "len" \notin req.null)
  BY DEF Accept4Staged, Execute, Staged
<1>3. /\ c.num = "accept4" /\ c.regions = <<>> /\ c.collect = "sockaddr"
      /\ c.argv = <<Arg(1), Off("addr"), Off("len"), Arg(4)>>
  BY <1>1, <1>2 DEF Accept4, Call, Optional
<1>4. IsRegions(c.regions) /\ RegionsOf(c) = {}
  BY <1>3, NoRegions
<1>5. "accept4" \in DOMAIN Abi /\ Abi["accept4"] = <<"reg", "addr", "len", "reg">>
  BY DEF Abi
<1>6. Convention("accept4") = {"reg", "addr", "len"}
  BY <1>5 DEF Convention
<1>7. \A x \in RegionsOf(c) : Mirrors(c, x)
  BY <1>4
<1>8. Collects(c, Handle(req).option)
  BY <1>2, <1>3, <1>4, <1>5, <1>6 DEF Collects, Has, Counting, Vectored
<1>9. \A r \in Roles \cap Convention(c.num) : Absent(r) <=> ~Has(c, r)
  BY <1>2, <1>3, <1>4, <1>6 DEF Has, Absent, Roles
<1>10. Shape(c, Handle(req).option)
  BY <1>3, <1>4, <1>5, <1>7, <1>8, <1>9 DEF Shape
<1>11. ASSUME NEW b \in Backends PROVE Suits(c, Arms(b)["accept4"])
  <2>1. Arms(b)["accept4"] = <<Word(1), OrNull(SockaddrOut(2, 3)), NullWith(SocklenOut(3), 2), Word(4)>>
    BY ArmsOf, SyscallArmOf DEF SyscallNames, SyscallArmsToDup
  <2>2. PICK specs : specs = Arms(b)["accept4"] /\ DOMAIN specs = 1..4
                    /\ specs[1] = Word(1) /\ specs[2] = OrNull(SockaddrOut(2, 3)) /\ specs[3] = NullWith(SocklenOut(3), 2) /\ specs[4] = Word(4)
    BY <2>1
  <2>3. Matches(c, specs[1], "reg", 1)
    BY <1>3, <2>2 DEF Matches, Word
  <2>4. Matches(c, specs[2], "addr", 2)
    BY <1>2, <1>3, <1>4, <2>2 DEF Matches, PointsTo, Counts, NullAt, Has, OffAt, CountAt, Roles, NullWith, OrNull, Pointer, SockaddrOut
  <2>5. Matches(c, specs[3], "len", 3)
    BY <1>2, <1>3, <1>4, <2>2 DEF Matches, PointsTo, Counts, NullAt, Has, OffAt, CountAt, Roles, Aligned, NullWith, Pointer, SocklenOut
  <2>6. Matches(c, specs[4], "reg", 4)
    BY <1>3, <2>2 DEF Matches, Word
  <2>7. \A p \in 1..4 : Matches(c, specs[p], Abi["accept4"][p], p)
    <3>1. \A p \in 1..4 : p = 1 \/ p = 2 \/ p = 3 \/ p = 4
      OBVIOUS
    <3> QED
      BY <1>5, <2>3, <2>4, <2>5, <2>6, <3>1
  <2> QED
    BY <1>3, <1>5, <2>2, <2>7 DEF Suits, Words6
<1> QED
  BY <1>1, <1>3, <1>10, <1>11 DEF Framed

LEMMA BindFramed ==
    ASSUME BindStaged, IsRequest(req)
    PROVE  Framed(Item, Handle(req).option)
<1> DEFINE g == SockaddrInput(req)
<1>1. PICK c : c = Item /\ c = Bind(req)
  BY DEF BindStaged, Execute, Staged, Item
<1>2. Handle(req).option = FALSE /\ req.call = "bind" /\ ("addr" \notin req.null)
  BY DEF BindStaged, Execute, Staged
<1>3. /\ c.num = "bind" /\ c.regions = <<g>> /\ c.collect = "none"
      /\ c.argv = <<Arg(1), Off("addr"), Count("addr")>>
  BY <1>1, <1>2 DEF Bind, Call
<1>4. g.role = "addr" /\ g.dir = "in" /\ g.n = req.a /\ g.max = FALSE /\ g.layout = Obj
  BY DEF SockaddrInput, Region
<1> HIDE DEF g
<1>5. IsRegion(g)
  BY <1>4, Lengths DEF IsRegion, Roles
<1>6. IsRegions(c.regions) /\ RegionsOf(c) = {g}
  BY <1>3, <1>4, <1>5, OneRegion
<1>7. "bind" \in DOMAIN Abi /\ Abi["bind"] = <<"reg", "addr", "#addr">>
  BY DEF Abi
<1>8. Convention("bind") = {"reg", "addr", "#addr"}
  BY <1>7 DEF Convention
<1>9. \A x \in RegionsOf(c) : Mirrors(c, x)
  <2>1. g.layout.size = 1 /\ Len(Whole(UserMem(req), "addr")) = req.a
    BY <1>2, <1>4, Lengths DEF Obj, IsRequest, OneObject, ByReference, IsEpoll, Vectored
  <2>2. Mirrors(c, g)
    BY <1>2, <1>3, <1>4, <1>7, <1>8, <2>1, Lengths DEF Mirrors, Arguments, Vectored, IsEpoll, Reads, Counting, Roles
  <2> QED
    BY <1>6, <2>2
<1>10. Collects(c, Handle(req).option)
  BY <1>2, <1>3, <1>4, <1>6, <1>7, <1>8 DEF Collects, Has, Counting, Vectored
<1>11. \A r \in Roles \cap Convention(c.num) : Absent(r) <=> ~Has(c, r)
  BY <1>2, <1>3, <1>4, <1>6, <1>8 DEF Has, Absent, Roles
<1>12. Shape(c, Handle(req).option)
  BY <1>3, <1>6, <1>7, <1>9, <1>10, <1>11 DEF Shape
<1>13. ASSUME NEW b \in Backends PROVE Suits(c, Arms(b)["bind"])
  <2>1. Arms(b)["bind"] = <<Word(1), SockaddrIn(2, 3), Word(3)>>
    BY ArmsOf, SyscallArmOf DEF SyscallNames, SyscallArmsToDup
  <2>2. PICK specs : specs = Arms(b)["bind"] /\ DOMAIN specs = 1..3
                    /\ specs[1] = Word(1) /\ specs[2] = SockaddrIn(2, 3) /\ specs[3] = Word(3)
    BY <2>1
  <2>3. Matches(c, specs[1], "reg", 1)
    BY <1>3, <2>2 DEF Matches, Word
  <2>4. Matches(c, specs[2], "addr", 2)
    BY <1>2, <1>3, <1>4, <1>6, <2>2 DEF Matches, PointsTo, Counts, NullAt, Has, OffAt, CountAt, Roles, AlignedSlice, Pointer, SockaddrIn
  <2>5. Matches(c, specs[3], "#addr", 3)
    BY <1>2, <1>3, <1>4, <1>6, <2>2 DEF Matches, Has, OffAt, CountAt, Roles, Word
  <2>6. \A p \in 1..3 : Matches(c, specs[p], Abi["bind"][p], p)
    <3>1. \A p \in 1..3 : p = 1 \/ p = 2 \/ p = 3
      OBVIOUS
    <3> QED
      BY <1>7, <2>3, <2>4, <2>5, <3>1
  <2> QED
    BY <1>3, <1>7, <2>2, <2>6 DEF Suits, Words6
<1> QED
  BY <1>1, <1>3, <1>12, <1>13 DEF Framed

LEMMA ClockGetresFramed ==
    ASSUME ClockGetresStaged, IsRequest(req), "buf" \notin req.null
    PROVE  Framed(Item, Handle(req).option)
<1> DEFINE g == Region("out", "buf", 1, Obj)
<1>1. PICK c : c = Item /\ c = ClockGetres(req)
  BY DEF ClockGetresStaged, Execute, Staged, Item
<1>2. Handle(req).option = FALSE /\ req.call = "clock_getres"
  BY DEF ClockGetresStaged, Execute, Staged
<1>3. /\ c.num = "clock_getres" /\ c.regions = <<g>> /\ c.collect = "ok"
      /\ c.argv = <<Arg(1), Off("buf")>>
  BY <1>1, <1>2 DEF ClockGetres, Call, Optional
<1>4. g.role = "buf" /\ g.dir = "out" /\ g.n = 1 /\ g.max = FALSE /\ g.layout = Obj
  BY DEF Region
<1> HIDE DEF g
<1>5. IsRegion(g)
  <2>1. g.n \in Nat
    BY <1>4
  <2>2. g.role \in Roles /\ g.max \in BOOLEAN /\ ~g.max /\ g.layout = Obj
    BY <1>4 DEF Roles
  <2> QED
    BY <2>1, <2>2 DEF IsRegion
<1>6. IsRegions(c.regions) /\ RegionsOf(c) = {g}
  BY <1>3, <1>4, <1>5, OneRegion
<1>7. "clock_getres" \in DOMAIN Abi /\ Abi["clock_getres"] = <<"reg", "buf">>
  BY DEF Abi
<1>8. Convention("clock_getres") = {"reg", "buf"}
  BY <1>7 DEF Convention
<1>9. \A x \in RegionsOf(c) : Mirrors(c, x)
  <2>1. g.layout.size = 1 /\ Len(Whole(UserMem(req), "buf")) = 1
    <3>1. Len(Whole(UserMem(req), "buf")) = req.n
      BY <1>2, Lengths DEF IsEpoll, Vectored, IsRequest, ByReference
    <3>2. req.n = 1
      BY <1>2 DEF IsRequest, OneObject
    <3> QED
      BY <1>4, <3>1, <3>2 DEF Obj
  <2>2. Mirrors(c, g)
    BY <1>2, <1>3, <1>4, <1>7, <1>8, <2>1, Lengths DEF Mirrors, Arguments, Vectored, IsEpoll, Reads, Counting, Roles
  <2> QED
    BY <1>6, <2>2
<1>10. Collects(c, Handle(req).option)
  BY <1>2, <1>3, <1>4, <1>6, <1>7, <1>8 DEF Collects, Has, Counting, Vectored
<1>11. \A r \in Roles \cap Convention(c.num) : Absent(r) <=> ~Has(c, r)
  BY <1>2, <1>3, <1>4, <1>6, <1>8 DEF Has, Absent, Roles
<1>12. Shape(c, Handle(req).option)
  BY <1>3, <1>6, <1>7, <1>9, <1>10, <1>11 DEF Shape
<1>13. ASSUME NEW b \in Backends PROVE Suits(c, Arms(b)["clock_getres"])
  <2>1. Arms(b)["clock_getres"] = <<Word(1), OrNull(Aligned(2, Obj))>>
    BY ArmsOf, SyscallArmOf DEF SyscallNames, SyscallArmsToDup
  <2>2. PICK specs : specs = Arms(b)["clock_getres"] /\ DOMAIN specs = 1..2
                    /\ specs[1] = Word(1) /\ specs[2] = OrNull(Aligned(2, Obj))
    BY <2>1
  <2>3. Matches(c, specs[1], "reg", 1)
    BY <1>3, <2>2 DEF Matches, Word
  <2>4. Matches(c, specs[2], "buf", 2)
    BY <1>2, <1>3, <1>4, <1>6, <2>2 DEF Matches, PointsTo, Counts, NullAt, Has, OffAt, CountAt, Roles, Aligned, NullWith, OrNull, Pointer
  <2>5. \A p \in 1..2 : Matches(c, specs[p], Abi["clock_getres"][p], p)
    <3>1. \A p \in 1..2 : p = 1 \/ p = 2
      OBVIOUS
    <3> QED
      BY <1>7, <2>3, <2>4, <3>1
  <2> QED
    BY <1>3, <1>7, <2>2, <2>5 DEF Suits, Words6
<1> QED
  BY <1>1, <1>3, <1>12, <1>13 DEF Framed

LEMMA ClockGetresNullFramed ==
    ASSUME ClockGetresStaged, IsRequest(req), "buf" \in req.null
    PROVE  Framed(Item, Handle(req).option)
<1>1. PICK c : c = Item /\ c = ClockGetres(req)
  BY DEF ClockGetresStaged, Execute, Staged, Item
<1>2. Handle(req).option = FALSE /\ req.call = "clock_getres"
  BY DEF ClockGetresStaged, Execute, Staged
<1>3. /\ c.num = "clock_getres" /\ c.regions = <<>> /\ c.collect = "ok"
      /\ c.argv = <<Arg(1), Off("buf")>>
  BY <1>1, <1>2 DEF ClockGetres, Call, Optional
<1>4. IsRegions(c.regions) /\ RegionsOf(c) = {}
  BY <1>3, NoRegions
<1>5. "clock_getres" \in DOMAIN Abi /\ Abi["clock_getres"] = <<"reg", "buf">>
  BY DEF Abi
<1>6. Convention("clock_getres") = {"reg", "buf"}
  BY <1>5 DEF Convention
<1>7. \A x \in RegionsOf(c) : Mirrors(c, x)
  BY <1>4
<1>8. Collects(c, Handle(req).option)
  BY <1>2, <1>3, <1>4, <1>5, <1>6 DEF Collects, Has, Counting, Vectored
<1>9. \A r \in Roles \cap Convention(c.num) : Absent(r) <=> ~Has(c, r)
  BY <1>2, <1>3, <1>4, <1>6 DEF Has, Absent, Roles
<1>10. Shape(c, Handle(req).option)
  BY <1>3, <1>4, <1>5, <1>7, <1>8, <1>9 DEF Shape
<1>11. ASSUME NEW b \in Backends PROVE Suits(c, Arms(b)["clock_getres"])
  <2>1. Arms(b)["clock_getres"] = <<Word(1), OrNull(Aligned(2, Obj))>>
    BY ArmsOf, SyscallArmOf DEF SyscallNames, SyscallArmsToDup
  <2>2. PICK specs : specs = Arms(b)["clock_getres"] /\ DOMAIN specs = 1..2
                    /\ specs[1] = Word(1) /\ specs[2] = OrNull(Aligned(2, Obj))
    BY <2>1
  <2>3. Matches(c, specs[1], "reg", 1)
    BY <1>3, <2>2 DEF Matches, Word
  <2>4. Matches(c, specs[2], "buf", 2)
    BY <1>2, <1>3, <1>4, <2>2 DEF Matches, PointsTo, Counts, NullAt, Has, OffAt, CountAt, Roles, Aligned, NullWith, OrNull, Pointer
  <2>5. \A p \in 1..2 : Matches(c, specs[p], Abi["clock_getres"][p], p)
    <3>1. \A p \in 1..2 : p = 1 \/ p = 2
      OBVIOUS
    <3> QED
      BY <1>5, <2>3, <2>4, <3>1
  <2> QED
    BY <1>3, <1>5, <2>2, <2>5 DEF Suits, Words6
<1> QED
  BY <1>1, <1>3, <1>10, <1>11 DEF Framed

LEMMA ClockGettimeFramed ==
    ASSUME ClockGettimeStaged, IsRequest(req)
    PROVE  Framed(Item, Handle(req).option)
<1> DEFINE g == Region("out", "buf", 1, Obj)
<1>1. PICK c : c = Item /\ c = ClockGettime(req)
  BY DEF ClockGettimeStaged, Execute, Staged, Item
<1>2. Handle(req).option = FALSE /\ req.call = "clock_gettime" /\ ("buf" \notin req.null)
  BY DEF ClockGettimeStaged, Execute, Staged
<1>3. /\ c.num = "clock_gettime" /\ c.regions = <<g>> /\ c.collect = "ok"
      /\ c.argv = <<Arg(1), Off("buf")>>
  BY <1>1, <1>2 DEF ClockGettime, Call
<1>4. g.role = "buf" /\ g.dir = "out" /\ g.n = 1 /\ g.max = FALSE /\ g.layout = Obj
  BY DEF Region
<1> HIDE DEF g
<1>5. IsRegion(g)
  <2>1. g.n \in Nat
    BY <1>4
  <2>2. g.role \in Roles /\ g.max \in BOOLEAN /\ ~g.max /\ g.layout = Obj
    BY <1>4 DEF Roles
  <2> QED
    BY <2>1, <2>2 DEF IsRegion
<1>6. IsRegions(c.regions) /\ RegionsOf(c) = {g}
  BY <1>3, <1>4, <1>5, OneRegion
<1>7. "clock_gettime" \in DOMAIN Abi /\ Abi["clock_gettime"] = <<"reg", "buf">>
  BY DEF Abi
<1>8. Convention("clock_gettime") = {"reg", "buf"}
  BY <1>7 DEF Convention
<1>9. \A x \in RegionsOf(c) : Mirrors(c, x)
  <2>1. g.layout.size = 1 /\ Len(Whole(UserMem(req), "buf")) = 1
    <3>1. Len(Whole(UserMem(req), "buf")) = req.n
      BY <1>2, Lengths DEF IsEpoll, Vectored, IsRequest, ByReference
    <3>2. req.n = 1
      BY <1>2 DEF IsRequest, OneObject
    <3> QED
      BY <1>4, <3>1, <3>2 DEF Obj
  <2>2. Mirrors(c, g)
    BY <1>2, <1>3, <1>4, <1>7, <1>8, <2>1, Lengths DEF Mirrors, Arguments, Vectored, IsEpoll, Reads, Counting, Roles
  <2> QED
    BY <1>6, <2>2
<1>10. Collects(c, Handle(req).option)
  BY <1>2, <1>3, <1>4, <1>6, <1>7, <1>8 DEF Collects, Has, Counting, Vectored
<1>11. \A r \in Roles \cap Convention(c.num) : Absent(r) <=> ~Has(c, r)
  BY <1>2, <1>3, <1>4, <1>6, <1>8 DEF Has, Absent, Roles
<1>12. Shape(c, Handle(req).option)
  BY <1>3, <1>6, <1>7, <1>9, <1>10, <1>11 DEF Shape
<1>13. ASSUME NEW b \in Backends PROVE Suits(c, Arms(b)["clock_gettime"])
  <2>1. Arms(b)["clock_gettime"] = <<Word(1), Aligned(2, Obj)>>
    BY ArmsOf, SyscallArmOf DEF SyscallNames, SyscallArmsToDup
  <2>2. PICK specs : specs = Arms(b)["clock_gettime"] /\ DOMAIN specs = 1..2
                    /\ specs[1] = Word(1) /\ specs[2] = Aligned(2, Obj)
    BY <2>1
  <2>3. Matches(c, specs[1], "reg", 1)
    BY <1>3, <2>2 DEF Matches, Word
  <2>4. Matches(c, specs[2], "buf", 2)
    BY <1>2, <1>3, <1>4, <1>6, <2>2 DEF Matches, PointsTo, Counts, NullAt, Has, OffAt, CountAt, Roles, Aligned, Pointer
  <2>5. \A p \in 1..2 : Matches(c, specs[p], Abi["clock_gettime"][p], p)
    <3>1. \A p \in 1..2 : p = 1 \/ p = 2
      OBVIOUS
    <3> QED
      BY <1>7, <2>3, <2>4, <3>1
  <2> QED
    BY <1>3, <1>7, <2>2, <2>5 DEF Suits, Words6
<1> QED
  BY <1>1, <1>3, <1>12, <1>13 DEF Framed

LEMMA ConnectFramed ==
    ASSUME ConnectStaged, IsRequest(req)
    PROVE  Framed(Item, Handle(req).option)
<1> DEFINE g == SockaddrInput(req)
<1>1. PICK c : c = Item /\ c = Connect(req)
  BY DEF ConnectStaged, Execute, Staged, Item
<1>2. Handle(req).option = FALSE /\ req.call = "connect" /\ ("addr" \notin req.null)
  BY DEF ConnectStaged, Execute, Staged
<1>3. /\ c.num = "connect" /\ c.regions = <<g>> /\ c.collect = "none"
      /\ c.argv = <<Arg(1), Off("addr"), Count("addr")>>
  BY <1>1, <1>2 DEF Connect, Call
<1>4. g.role = "addr" /\ g.dir = "in" /\ g.n = req.a /\ g.max = FALSE /\ g.layout = Obj
  BY DEF SockaddrInput, Region
<1> HIDE DEF g
<1>5. IsRegion(g)
  BY <1>4, Lengths DEF IsRegion, Roles
<1>6. IsRegions(c.regions) /\ RegionsOf(c) = {g}
  BY <1>3, <1>4, <1>5, OneRegion
<1>7. "connect" \in DOMAIN Abi /\ Abi["connect"] = <<"reg", "addr", "#addr">>
  BY DEF Abi
<1>8. Convention("connect") = {"reg", "addr", "#addr"}
  BY <1>7 DEF Convention
<1>9. \A x \in RegionsOf(c) : Mirrors(c, x)
  <2>1. g.layout.size = 1 /\ Len(Whole(UserMem(req), "addr")) = req.a
    BY <1>2, <1>4, Lengths DEF Obj, IsRequest, OneObject, ByReference, IsEpoll, Vectored
  <2>2. Mirrors(c, g)
    BY <1>2, <1>3, <1>4, <1>7, <1>8, <2>1, Lengths DEF Mirrors, Arguments, Vectored, IsEpoll, Reads, Counting, Roles
  <2> QED
    BY <1>6, <2>2
<1>10. Collects(c, Handle(req).option)
  BY <1>2, <1>3, <1>4, <1>6, <1>7, <1>8 DEF Collects, Has, Counting, Vectored
<1>11. \A r \in Roles \cap Convention(c.num) : Absent(r) <=> ~Has(c, r)
  BY <1>2, <1>3, <1>4, <1>6, <1>8 DEF Has, Absent, Roles
<1>12. Shape(c, Handle(req).option)
  BY <1>3, <1>6, <1>7, <1>9, <1>10, <1>11 DEF Shape
<1>13. ASSUME NEW b \in Backends PROVE Suits(c, Arms(b)["connect"])
  <2>1. Arms(b)["connect"] = <<Word(1), SockaddrIn(2, 3), Word(3)>>
    BY ArmsOf, SyscallArmOf DEF SyscallNames, SyscallArmsToDup
  <2>2. PICK specs : specs = Arms(b)["connect"] /\ DOMAIN specs = 1..3
                    /\ specs[1] = Word(1) /\ specs[2] = SockaddrIn(2, 3) /\ specs[3] = Word(3)
    BY <2>1
  <2>3. Matches(c, specs[1], "reg", 1)
    BY <1>3, <2>2 DEF Matches, Word
  <2>4. Matches(c, specs[2], "addr", 2)
    BY <1>2, <1>3, <1>4, <1>6, <2>2 DEF Matches, PointsTo, Counts, NullAt, Has, OffAt, CountAt, Roles, AlignedSlice, Pointer, SockaddrIn
  <2>5. Matches(c, specs[3], "#addr", 3)
    BY <1>2, <1>3, <1>4, <1>6, <2>2 DEF Matches, Has, OffAt, CountAt, Roles, Word
  <2>6. \A p \in 1..3 : Matches(c, specs[p], Abi["connect"][p], p)
    <3>1. \A p \in 1..3 : p = 1 \/ p = 2 \/ p = 3
      OBVIOUS
    <3> QED
      BY <1>7, <2>3, <2>4, <2>5, <3>1
  <2> QED
    BY <1>3, <1>7, <2>2, <2>6 DEF Suits, Words6
<1> QED
  BY <1>1, <1>3, <1>12, <1>13 DEF Framed

LEMMA EpollCtlFramed ==
    ASSUME EpollCtlStaged, IsRequest(req)
    PROVE  Framed(Item, Handle(req).option)
<1> DEFINE g == Region("in", "buf", 1, EpollEvent)
<1>1. PICK c : c = Item /\ c = EpollCtl(req)
  BY DEF EpollCtlStaged, Execute, Staged, Item
<1>2. Handle(req).option = FALSE /\ req.call = "epoll_ctl" /\ ("buf" \notin req.null)
  BY DEF EpollCtlStaged, Execute, Staged
<1>3. /\ c.num = "epoll_ctl" /\ c.regions = <<g>> /\ c.collect = "none"
      /\ c.argv = <<Arg(1), Arg(2), Arg(3), Off("buf")>>
  BY <1>1, <1>2 DEF EpollCtl, Call
<1>4. g.role = "buf" /\ g.dir = "in" /\ g.n = 1 /\ g.max = FALSE /\ g.layout = EpollEvent
  BY DEF Region
<1> HIDE DEF g
<1>5. IsRegion(g)
  <2>1. g.n \in Nat
    BY <1>4
  <2>2. g.role \in Roles /\ g.max \in BOOLEAN /\ ~g.max /\ g.layout = EpollEvent
    BY <1>4 DEF Roles
  <2> QED
    BY <2>1, <2>2 DEF IsRegion
<1>6. IsRegions(c.regions) /\ RegionsOf(c) = {g}
  BY <1>3, <1>4, <1>5, OneRegion
<1>7. "epoll_ctl" \in DOMAIN Abi /\ Abi["epoll_ctl"] = <<"reg", "reg", "reg", "buf">>
  BY DEF Abi
<1>8. Convention("epoll_ctl") = {"reg", "buf"}
  BY <1>7 DEF Convention
<1>9. \A x \in RegionsOf(c) : Mirrors(c, x)
  <2>1. g.layout.size = EventSize /\ Len(Whole(UserMem(req), "buf")) = 1 * EventSize
    <3>1. Len(Whole(UserMem(req), "buf")) = req.n * EventSize
      BY <1>2, Lengths DEF IsEpoll, Vectored, IsRequest, ByReference
    <3>2. req.n = 1
      BY <1>2 DEF IsRequest, OneObject
    <3> QED
      BY <1>4, <3>1, <3>2 DEF EpollEvent
  <2>2. Mirrors(c, g)
    BY <1>2, <1>3, <1>4, <1>7, <1>8, <2>1, Lengths DEF Mirrors, Arguments, Vectored, IsEpoll, Reads, Counting, Roles
  <2> QED
    BY <1>6, <2>2
<1>10. Collects(c, Handle(req).option)
  BY <1>2, <1>3, <1>4, <1>6, <1>7, <1>8 DEF Collects, Has, Counting, Vectored
<1>11. \A r \in Roles \cap Convention(c.num) : Absent(r) <=> ~Has(c, r)
  BY <1>2, <1>3, <1>4, <1>6, <1>8 DEF Has, Absent, Roles
<1>12. Shape(c, Handle(req).option)
  BY <1>3, <1>6, <1>7, <1>9, <1>10, <1>11 DEF Shape
<1>13. ASSUME NEW b \in Backends PROVE Suits(c, Arms(b)["epoll_ctl"])
  <2>1. Arms(b)["epoll_ctl"] = <<Word(1), Word(2), Word(3), Aligned(4, EpollEvent)>>
    BY ArmsOf, SyscallArmOf DEF SyscallNames, SyscallArmsToFcntl
  <2>2. PICK specs : specs = Arms(b)["epoll_ctl"] /\ DOMAIN specs = 1..4
                    /\ specs[1] = Word(1) /\ specs[2] = Word(2) /\ specs[3] = Word(3) /\ specs[4] = Aligned(4, EpollEvent)
    BY <2>1
  <2>3. Matches(c, specs[1], "reg", 1)
    BY <1>3, <2>2 DEF Matches, Word
  <2>4. Matches(c, specs[2], "reg", 2)
    BY <1>3, <2>2 DEF Matches, Word
  <2>5. Matches(c, specs[3], "reg", 3)
    BY <1>3, <2>2 DEF Matches, Word
  <2>6. Matches(c, specs[4], "buf", 4)
    BY <1>2, <1>3, <1>4, <1>6, <2>2 DEF Matches, PointsTo, Counts, NullAt, Has, OffAt, CountAt, Roles, Aligned, Pointer
  <2>7. \A p \in 1..4 : Matches(c, specs[p], Abi["epoll_ctl"][p], p)
    <3>1. \A p \in 1..4 : p = 1 \/ p = 2 \/ p = 3 \/ p = 4
      OBVIOUS
    <3> QED
      BY <1>7, <2>3, <2>4, <2>5, <2>6, <3>1
  <2> QED
    BY <1>3, <1>7, <2>2, <2>7 DEF Suits, Words6
<1> QED
  BY <1>1, <1>3, <1>12, <1>13 DEF Framed

LEMMA EpollWaitFramed ==
    ASSUME EpollWaitStaged, IsRequest(req)
    PROVE  Framed(Item, Handle(req).option)
<1> DEFINE g == Region("out", "buf", req.n, EpollEvent)
<1>1. PICK c : c = Item /\ c = EpollWait(req)
  BY DEF EpollWaitStaged, OrAttacked, Staged, Item
<1>2. Handle(req).option = TRUE /\ req.call \in {"epoll_wait", "epoll_pwait"} /\ ("buf" \notin req.null)
  BY DEF EpollWaitStaged, OrAttacked, Staged
<1>3. /\ c.num = "epoll_wait" /\ c.regions = <<g>> /\ c.collect = "prefix"
      /\ c.argv = <<Arg(1), Off("buf"), Count("buf"), Arg(4)>>
  BY <1>1, <1>2 DEF EpollWait, Call
<1>4. g.role = "buf" /\ g.dir = "out" /\ g.n = req.n /\ g.max = FALSE /\ g.layout = EpollEvent
  BY DEF Region
<1> HIDE DEF g
<1>5. IsRegion(g)
  BY <1>4, Lengths DEF IsRegion, Roles
<1>6. IsRegions(c.regions) /\ RegionsOf(c) = {g}
  BY <1>3, <1>4, <1>5, OneRegion
<1>7. "epoll_wait" \in DOMAIN Abi /\ Abi["epoll_wait"] = <<"reg", "buf", "#buf", "reg">>
  BY DEF Abi
<1>8. Convention("epoll_wait") = {"reg", "buf", "#buf"}
  BY <1>7 DEF Convention
<1>9. \A x \in RegionsOf(c) : Mirrors(c, x)
  <2>1. g.layout.size = EventSize /\ Len(Whole(UserMem(req), "buf")) = req.n * EventSize
    BY <1>2, <1>4, Lengths DEF EpollEvent, IsRequest, OneObject, ByReference, IsEpoll, Vectored
  <2>2. Mirrors(c, g)
    BY <1>2, <1>3, <1>4, <1>7, <1>8, <2>1, Lengths DEF Mirrors, Arguments, Vectored, IsEpoll, Reads, Counting, Roles
  <2> QED
    BY <1>6, <2>2
<1>10. Collects(c, Handle(req).option)
  BY <1>2, <1>3, <1>4, <1>6, <1>7, <1>8 DEF Collects, Has, Counting, Vectored
<1>11. \A r \in Roles \cap Convention(c.num) : Absent(r) <=> ~Has(c, r)
  BY <1>2, <1>3, <1>4, <1>6, <1>8 DEF Has, Absent, Roles
<1>12. Shape(c, Handle(req).option)
  BY <1>3, <1>6, <1>7, <1>9, <1>10, <1>11 DEF Shape
<1>13. ASSUME NEW b \in Backends PROVE Suits(c, Arms(b)["epoll_wait"])
  <2>1. Arms(b)["epoll_wait"] = <<Word(1), AlignedSlice(2, 3, EpollEvent), Word(3), Word(4)>>
    BY ArmsOf, SyscallArmOf DEF SyscallNames, SyscallArmsToFcntl
  <2>2. PICK specs : specs = Arms(b)["epoll_wait"] /\ DOMAIN specs = 1..4
                    /\ specs[1] = Word(1) /\ specs[2] = AlignedSlice(2, 3, EpollEvent) /\ specs[3] = Word(3) /\ specs[4] = Word(4)
    BY <2>1
  <2>3. Matches(c, specs[1], "reg", 1)
    BY <1>3, <2>2 DEF Matches, Word
  <2>4. Matches(c, specs[2], "buf", 2)
    BY <1>2, <1>3, <1>4, <1>6, <2>2 DEF Matches, PointsTo, Counts, NullAt, Has, OffAt, CountAt, Roles, AlignedSlice, Pointer
  <2>5. Matches(c, specs[3], "#buf", 3)
    BY <1>2, <1>3, <1>4, <1>6, <2>2 DEF Matches, Has, OffAt, CountAt, Roles, Word
  <2>6. Matches(c, specs[4], "reg", 4)
    BY <1>3, <2>2 DEF Matches, Word
  <2>7. \A p \in 1..4 : Matches(c, specs[p], Abi["epoll_wait"][p], p)
    <3>1. \A p \in 1..4 : p = 1 \/ p = 2 \/ p = 3 \/ p = 4
      OBVIOUS
    <3> QED
      BY <1>7, <2>3, <2>4, <2>5, <2>6, <3>1
  <2> QED
    BY <1>3, <1>7, <2>2, <2>7 DEF Suits, Words6
<1> QED
  BY <1>1, <1>3, <1>12, <1>13 DEF Framed

LEMMA EpollPwaitFramed ==
    ASSUME EpollPwaitStaged, IsRequest(req)
    PROVE  Framed(Item, Handle(req).option)
<1> DEFINE g == Region("out", "buf", req.n, EpollEvent)
           h == Region("in", "buf2", 1, Obj)
<1>1. PICK c : c = Item /\ c = EpollPwait(req)
  BY DEF EpollPwaitStaged, OrAttacked, Staged, Item
<1>2. Handle(req).option = TRUE /\ req.call = "epoll_pwait" /\ ("buf" \notin req.null /\ "buf2" \notin req.null)
  BY DEF EpollPwaitStaged, OrAttacked, Staged
<1>3. /\ c.num = "epoll_pwait" /\ c.regions = <<g, h>> /\ c.collect = "prefix"
      /\ c.argv = <<Arg(1), Off("buf"), Count("buf"), Arg(4), Off("buf2")>>
  BY <1>1, <1>2 DEF EpollPwait, Call
<1>4. g.role = "buf" /\ g.dir = "out" /\ g.n = req.n /\ g.max = FALSE /\ g.layout = EpollEvent
  BY DEF Region
<1>5. h.role = "buf2" /\ h.dir = "in" /\ h.n = 1 /\ h.max = FALSE /\ h.layout = Obj
  BY DEF Region
<1> HIDE DEF g, h
<1>6. IsRegion(g)
  BY <1>4, Lengths DEF IsRegion, Roles
<1>7. IsRegion(h)
  <2>1. h.n \in Nat
    BY <1>5
  <2>2. h.role \in Roles /\ h.max \in BOOLEAN /\ ~h.max /\ h.layout = Obj
    BY <1>5 DEF Roles
  <2> QED
    BY <2>1, <2>2 DEF IsRegion
<1>8. IsRegions(c.regions) /\ RegionsOf(c) = {g, h}
  BY <1>3, <1>4, <1>5, <1>6, <1>7, TwoRegions
<1>9. "epoll_pwait" \in DOMAIN Abi /\ Abi["epoll_pwait"] = <<"reg", "buf", "#buf", "reg", "buf2", "reg">>
  BY DEF Abi
<1>10. Convention("epoll_pwait") = {"reg", "buf", "#buf", "buf2"}
  BY <1>9 DEF Convention
<1>11. \A x \in RegionsOf(c) : Mirrors(c, x)
  <2>1. g.layout.size = EventSize /\ Len(Whole(UserMem(req), "buf")) = req.n * EventSize
    BY <1>2, <1>4, Lengths DEF EpollEvent, IsRequest, OneObject, ByReference, IsEpoll, Vectored
  <2>2. Mirrors(c, g)
    BY <1>2, <1>3, <1>4, <1>9, <1>10, <2>1, Lengths DEF Mirrors, Arguments, Vectored, IsEpoll, Reads, Counting, Roles
  <2>3. h.layout.size = 1 /\ Len(Whole(UserMem(req), "buf2")) = 1
    <3>1. Len(Whole(UserMem(req), "buf2")) = req.n2
      BY <1>2, Lengths DEF IsEpoll, Vectored, IsRequest, ByReference
    <3>2. req.n2 = 1
      BY <1>2 DEF IsRequest, OneObject
    <3> QED
      BY <1>5, <3>1, <3>2 DEF Obj
  <2>4. Mirrors(c, h)
    BY <1>2, <1>3, <1>5, <1>9, <1>10, <2>3, Lengths DEF Mirrors, Arguments, Vectored, IsEpoll, Reads, Counting, Roles
  <2> QED
    BY <1>8, <2>2, <2>4
<1>12. Collects(c, Handle(req).option)
  BY <1>2, <1>3, <1>4, <1>5, <1>8, <1>9, <1>10 DEF Collects, Has, Counting, Vectored
<1>13. \A r \in Roles \cap Convention(c.num) : Absent(r) <=> ~Has(c, r)
  BY <1>2, <1>3, <1>4, <1>5, <1>8, <1>10 DEF Has, Absent, Roles
<1>14. Shape(c, Handle(req).option)
  BY <1>3, <1>8, <1>9, <1>11, <1>12, <1>13 DEF Shape
<1>15. ASSUME NEW b \in Backends PROVE Suits(c, Arms(b)["epoll_pwait"])
  <2>1. Arms(b)["epoll_pwait"] = <<Word(1), AlignedSlice(2, 3, EpollEvent), Word(3), Word(4), Aligned(5, Obj)>>
    BY ArmsOf, SyscallArmOf DEF SyscallNames, SyscallArmsToFcntl
  <2>2. PICK specs : specs = Arms(b)["epoll_pwait"] /\ DOMAIN specs = 1..5
                    /\ specs[1] = Word(1) /\ specs[2] = AlignedSlice(2, 3, EpollEvent) /\ specs[3] = Word(3) /\ specs[4] = Word(4) /\ specs[5] = Aligned(5, Obj)
    BY <2>1
  <2>3. Matches(c, specs[1], "reg", 1)
    BY <1>3, <2>2 DEF Matches, Word
  <2>4. Matches(c, specs[2], "buf", 2)
    BY <1>2, <1>3, <1>4, <1>5, <1>8, <2>2 DEF Matches, PointsTo, Counts, NullAt, Has, OffAt, CountAt, Roles, AlignedSlice, Pointer
  <2>5. Matches(c, specs[3], "#buf", 3)
    BY <1>2, <1>3, <1>4, <1>5, <1>8, <2>2 DEF Matches, Has, OffAt, CountAt, Roles, Word
  <2>6. Matches(c, specs[4], "reg", 4)
    BY <1>3, <2>2 DEF Matches, Word
  <2>7. Matches(c, specs[5], "buf2", 5)
    BY <1>2, <1>3, <1>4, <1>5, <1>8, <2>2 DEF Matches, PointsTo, Counts, NullAt, Has, OffAt, CountAt, Roles, Aligned, Pointer
  <2>8. \A p \in 1..5 : Matches(c, specs[p], Abi["epoll_pwait"][p], p)
    <3>1. \A p \in 1..5 : p = 1 \/ p = 2 \/ p = 3 \/ p = 4 \/ p = 5
      OBVIOUS
    <3> QED
      BY <1>9, <2>3, <2>4, <2>5, <2>6, <2>7, <3>1
  <2> QED
    BY <1>3, <1>9, <2>2, <2>8 DEF Suits, Words6
<1> QED
  BY <1>1, <1>3, <1>14, <1>15 DEF Framed

LEMMA GetsocknameFramed ==
    ASSUME GetsocknameStaged, IsRequest(req)
    PROVE  Framed(Item, Handle(req).option)
<1> DEFINE g == AddrOutput(req)
           h == AddrlenOutput
<1>1. PICK c : c = Item /\ c = Getsockname(req)
  BY DEF GetsocknameStaged, Execute, Staged, Item
<1>2. Handle(req).option = FALSE /\ req.call = "getsockname" /\ ("addr" \notin req.null /\ "len" \notin req.null)
  BY DEF GetsocknameStaged, Execute, Staged
<1>3. /\ c.num = "getsockname" /\ c.regions = <<g, h>> /\ c.collect = "sockaddr"
      /\ c.argv = <<Arg(1), Off("addr"), Off("len")>>
  BY <1>1, <1>2 DEF Getsockname, Call, SockaddrOutput
<1>4. g.role = "addr" /\ g.dir = "out" /\ g.n = req.a /\ g.max = FALSE /\ g.layout = Obj
  BY DEF AddrOutput, Region
<1>5. h.role = "len" /\ h.dir = "inout" /\ h.n = 1 /\ h.max = FALSE /\ h.layout = Obj
  BY DEF AddrlenOutput, Region
<1> HIDE DEF g, h
<1>6. IsRegion(g)
  BY <1>4, Lengths DEF IsRegion, Roles
<1>7. IsRegion(h)
  <2>1. h.n \in Nat
    BY <1>5
  <2>2. h.role \in Roles /\ h.max \in BOOLEAN /\ ~h.max /\ h.layout = Obj
    BY <1>5 DEF Roles
  <2> QED
    BY <2>1, <2>2 DEF IsRegion
<1>8. IsRegions(c.regions) /\ RegionsOf(c) = {g, h}
  BY <1>3, <1>4, <1>5, <1>6, <1>7, TwoRegions
<1>9. "getsockname" \in DOMAIN Abi /\ Abi["getsockname"] = <<"reg", "addr", "len">>
  BY DEF Abi
<1>10. Convention("getsockname") = {"reg", "addr", "len"}
  BY <1>9 DEF Convention
<1>11. \A x \in RegionsOf(c) : Mirrors(c, x)
  <2>1. g.layout.size = 1 /\ Len(Whole(UserMem(req), "addr")) = req.a
    BY <1>2, <1>4, Lengths DEF Obj, IsRequest, OneObject, ByReference, IsEpoll, Vectored
  <2>2. Mirrors(c, g)
    BY <1>2, <1>3, <1>4, <1>9, <1>10, <2>1, Lengths DEF Mirrors, Arguments, Vectored, IsEpoll, Reads, Counting, Roles
  <2>3. h.layout.size = 1 /\ Len(Whole(UserMem(req), "len")) = 1
    BY <1>2, <1>5, Lengths DEF Obj, IsRequest, OneObject, ByReference, IsEpoll, Vectored
  <2>4. Mirrors(c, h)
    BY <1>2, <1>3, <1>5, <1>9, <1>10, <2>3, Lengths DEF Mirrors, Arguments, Vectored, IsEpoll, Reads, Counting, Roles
  <2> QED
    BY <1>8, <2>2, <2>4
<1>12. Collects(c, Handle(req).option)
  BY <1>2, <1>3, <1>4, <1>5, <1>8, <1>9, <1>10 DEF Collects, Has, Counting, Vectored
<1>13. \A r \in Roles \cap Convention(c.num) : Absent(r) <=> ~Has(c, r)
  BY <1>2, <1>3, <1>4, <1>5, <1>8, <1>10 DEF Has, Absent, Roles
<1>14. Shape(c, Handle(req).option)
  BY <1>3, <1>8, <1>9, <1>11, <1>12, <1>13 DEF Shape
<1>15. ASSUME NEW b \in Backends PROVE Suits(c, Arms(b)["getsockname"])
  <2>1. Arms(b)["getsockname"] = <<Word(1), SockaddrOut(2, 3), SocklenOut(3)>>
    BY ArmsOf, SyscallArmOf DEF SyscallNames, SyscallArmsToPoll
  <2>2. PICK specs : specs = Arms(b)["getsockname"] /\ DOMAIN specs = 1..3
                    /\ specs[1] = Word(1) /\ specs[2] = SockaddrOut(2, 3) /\ specs[3] = SocklenOut(3)
    BY <2>1
  <2>3. Matches(c, specs[1], "reg", 1)
    BY <1>3, <2>2 DEF Matches, Word
  <2>4. Matches(c, specs[2], "addr", 2)
    BY <1>2, <1>3, <1>4, <1>5, <1>8, <2>2 DEF Matches, PointsTo, Counts, NullAt, Has, OffAt, CountAt, Roles, Pointer, SockaddrOut
  <2>5. Matches(c, specs[3], "len", 3)
    BY <1>2, <1>3, <1>4, <1>5, <1>8, <2>2 DEF Matches, PointsTo, Counts, NullAt, Has, OffAt, CountAt, Roles, Aligned, Pointer, SocklenOut
  <2>6. \A p \in 1..3 : Matches(c, specs[p], Abi["getsockname"][p], p)
    <3>1. \A p \in 1..3 : p = 1 \/ p = 2 \/ p = 3
      OBVIOUS
    <3> QED
      BY <1>9, <2>3, <2>4, <2>5, <3>1
  <2> QED
    BY <1>3, <1>9, <2>2, <2>6 DEF Suits, Words6
<1> QED
  BY <1>1, <1>3, <1>14, <1>15 DEF Framed

LEMMA IoctlFramed ==
    ASSUME IoctlStaged, IsRequest(req), "buf" \notin req.null
    PROVE  Framed(Item, Handle(req).option)
<1> DEFINE g == Region("inout", "buf", 1, U8)
<1>1. PICK c : c = Item /\ c = AllocIoctl(req)
  BY DEF IoctlStaged, Execute, Staged, Item
<1>2. Handle(req).option = FALSE /\ req.call = "ioctl" /\ (req.sel[2] \in {"FIONBIO", "FIONREAD"})
  BY DEF IoctlStaged, Execute, Staged
<1>3. /\ c.num = "ioctl" /\ c.regions = <<g>> /\ c.collect = "always"
      /\ c.argv = <<Arg(1), Arg(2), Off("buf"), Count("buf")>>
  BY <1>1, <1>2 DEF AllocIoctl, Call, Optional
<1>4. g.role = "buf" /\ g.dir = "inout" /\ g.n = 1 /\ g.max = FALSE /\ g.layout = U8
  BY DEF Region
<1> HIDE DEF g
<1>5. IsRegion(g)
  <2>1. g.n \in Nat
    BY <1>4
  <2>2. g.role \in Roles /\ g.max \in BOOLEAN /\ ~g.max /\ g.layout = U8
    BY <1>4 DEF Roles
  <2> QED
    BY <2>1, <2>2 DEF IsRegion
<1>6. IsRegions(c.regions) /\ RegionsOf(c) = {g}
  BY <1>3, <1>4, <1>5, OneRegion
<1>7. "ioctl" \in DOMAIN Abi /\ Abi["ioctl"] = <<"reg", "reg", "buf">>
  BY DEF Abi
<1>8. Convention("ioctl") = {"reg", "buf"}
  BY <1>7 DEF Convention
<1>9. \A x \in RegionsOf(c) : Mirrors(c, x)
  <2>1. g.layout.size = 1 /\ Len(Whole(UserMem(req), "buf")) = 1
    <3>1. Len(Whole(UserMem(req), "buf")) = req.n
      BY <1>2, Lengths DEF IsEpoll, Vectored, IsRequest, ByReference
    <3>2. req.n = 1
      BY <1>2 DEF IsRequest, OneObject
    <3> QED
      BY <1>4, <3>1, <3>2 DEF U8
  <2>2. Mirrors(c, g)
    BY <1>2, <1>3, <1>4, <1>7, <1>8, <2>1, Lengths DEF Mirrors, Arguments, Vectored, IsEpoll, Reads, Counting, Roles
  <2> QED
    BY <1>6, <2>2
<1>10. Collects(c, Handle(req).option)
  BY <1>2, <1>3, <1>4, <1>6, <1>7, <1>8 DEF Collects, Has, Counting, Vectored
<1>11. \A r \in Roles \cap Convention(c.num) : Absent(r) <=> ~Has(c, r)
  BY <1>2, <1>3, <1>4, <1>6, <1>8 DEF Has, Absent, Roles
<1>12. Shape(c, Handle(req).option)
  BY <1>3, <1>6, <1>7, <1>9, <1>10, <1>11 DEF Shape
<1>13. ASSUME NEW b \in Backends PROVE Suits(c, Arms(b)["ioctl"])
  <2>1. Arms(b)["ioctl"] = <<Word(1), Word(2), OrNull(Bytes(3, 4))>>
    BY ArmsOf, SyscallArmOf DEF SyscallNames, SyscallArmsToPoll
  <2>2. PICK specs : specs = Arms(b)["ioctl"] /\ DOMAIN specs = 1..3
                    /\ specs[1] = Word(1) /\ specs[2] = Word(2) /\ specs[3] = OrNull(Bytes(3, 4))
    BY <2>1
  <2>3. Matches(c, specs[1], "reg", 1)
    BY <1>3, <2>2 DEF Matches, Word
  <2>4. Matches(c, specs[2], "reg", 2)
    BY <1>3, <2>2 DEF Matches, Word
  <2>5. Matches(c, specs[3], "buf", 3)
    BY <1>2, <1>3, <1>4, <1>6, <2>2 DEF Matches, PointsTo, Counts, NullAt, Has, OffAt, CountAt, Roles, Bytes, NullWith, OrNull, Pointer
  <2>6. \A p \in 1..3 : Matches(c, specs[p], Abi["ioctl"][p], p)
    <3>1. \A p \in 1..3 : p = 1 \/ p = 2 \/ p = 3
      OBVIOUS
    <3> QED
      BY <1>7, <2>3, <2>4, <2>5, <3>1
  <2> QED
    BY <1>3, <1>7, <2>2, <2>6 DEF Suits, Words6
<1> QED
  BY <1>1, <1>3, <1>12, <1>13 DEF Framed

LEMMA IoctlNullFramed ==
    ASSUME IoctlStaged, IsRequest(req), "buf" \in req.null
    PROVE  Framed(Item, Handle(req).option)
<1>1. PICK c : c = Item /\ c = AllocIoctl(req)
  BY DEF IoctlStaged, Execute, Staged, Item
<1>2. Handle(req).option = FALSE /\ req.call = "ioctl" /\ (req.sel[2] \in {"FIONBIO", "FIONREAD"})
  BY DEF IoctlStaged, Execute, Staged
<1>3. /\ c.num = "ioctl" /\ c.regions = <<>> /\ c.collect = "always"
      /\ c.argv = <<Arg(1), Arg(2), Off("buf"), Count("buf")>>
  BY <1>1, <1>2 DEF AllocIoctl, Call, Optional
<1>4. IsRegions(c.regions) /\ RegionsOf(c) = {}
  BY <1>3, NoRegions
<1>5. "ioctl" \in DOMAIN Abi /\ Abi["ioctl"] = <<"reg", "reg", "buf">>
  BY DEF Abi
<1>6. Convention("ioctl") = {"reg", "buf"}
  BY <1>5 DEF Convention
<1>7. \A x \in RegionsOf(c) : Mirrors(c, x)
  BY <1>4
<1>8. Collects(c, Handle(req).option)
  BY <1>2, <1>3, <1>4, <1>5, <1>6 DEF Collects, Has, Counting, Vectored
<1>9. \A r \in Roles \cap Convention(c.num) : Absent(r) <=> ~Has(c, r)
  BY <1>2, <1>3, <1>4, <1>6 DEF Has, Absent, Roles
<1>10. Shape(c, Handle(req).option)
  BY <1>3, <1>4, <1>5, <1>7, <1>8, <1>9 DEF Shape
<1>11. ASSUME NEW b \in Backends PROVE Suits(c, Arms(b)["ioctl"])
  <2>1. Arms(b)["ioctl"] = <<Word(1), Word(2), OrNull(Bytes(3, 4))>>
    BY ArmsOf, SyscallArmOf DEF SyscallNames, SyscallArmsToPoll
  <2>2. PICK specs : specs = Arms(b)["ioctl"] /\ DOMAIN specs = 1..3
                    /\ specs[1] = Word(1) /\ specs[2] = Word(2) /\ specs[3] = OrNull(Bytes(3, 4))
    BY <2>1
  <2>3. Matches(c, specs[1], "reg", 1)
    BY <1>3, <2>2 DEF Matches, Word
  <2>4. Matches(c, specs[2], "reg", 2)
    BY <1>3, <2>2 DEF Matches, Word
  <2>5. Matches(c, specs[3], "buf", 3)
    BY <1>2, <1>3, <1>4, <2>2 DEF Matches, PointsTo, Counts, NullAt, Has, OffAt, CountAt, Roles, Bytes, NullWith, OrNull, Pointer
  <2>6. \A p \in 1..3 : Matches(c, specs[p], Abi["ioctl"][p], p)
    <3>1. \A p \in 1..3 : p = 1 \/ p = 2 \/ p = 3
      OBVIOUS
    <3> QED
      BY <1>5, <2>3, <2>4, <2>5, <3>1
  <2> QED
    BY <1>3, <1>5, <2>2, <2>6 DEF Suits, Words6
<1> QED
  BY <1>1, <1>3, <1>10, <1>11 DEF Framed

LEMMA NanosleepFramed ==
    ASSUME NanosleepStaged, IsRequest(req), "buf2" \notin req.null
    PROVE  Framed(Item, Handle(req).option)
<1> DEFINE g == Region("in", "buf", 1, Obj)
           h == Region("inout", "buf2", 1, Obj)
<1>1. PICK c : c = Item /\ c = Nanosleep(req)
  BY DEF NanosleepStaged, Execute, Staged, Item
<1>2. Handle(req).option = FALSE /\ req.call = "nanosleep" /\ ("buf" \notin req.null)
  BY DEF NanosleepStaged, Execute, Staged
<1>3. /\ c.num = "nanosleep" /\ c.regions = <<g, h>> /\ c.collect = "interrupted"
      /\ c.argv = <<Off("buf"), Off("buf2")>>
  BY <1>1, <1>2 DEF Nanosleep, Call
<1>4. g.role = "buf" /\ g.dir = "in" /\ g.n = 1 /\ g.max = FALSE /\ g.layout = Obj
  BY DEF Region
<1>5. h.role = "buf2" /\ h.dir = "inout" /\ h.n = 1 /\ h.max = FALSE /\ h.layout = Obj
  BY DEF Region
<1> HIDE DEF g, h
<1>6. IsRegion(g)
  <2>1. g.n \in Nat
    BY <1>4
  <2>2. g.role \in Roles /\ g.max \in BOOLEAN /\ ~g.max /\ g.layout = Obj
    BY <1>4 DEF Roles
  <2> QED
    BY <2>1, <2>2 DEF IsRegion
<1>7. IsRegion(h)
  <2>1. h.n \in Nat
    BY <1>5
  <2>2. h.role \in Roles /\ h.max \in BOOLEAN /\ ~h.max /\ h.layout = Obj
    BY <1>5 DEF Roles
  <2> QED
    BY <2>1, <2>2 DEF IsRegion
<1>8. IsRegions(c.regions) /\ RegionsOf(c) = {g, h}
  BY <1>3, <1>4, <1>5, <1>6, <1>7, TwoRegions
<1>9. "nanosleep" \in DOMAIN Abi /\ Abi["nanosleep"] = <<"buf", "buf2">>
  BY DEF Abi
<1>10. Convention("nanosleep") = {"buf", "buf2"}
  BY <1>9 DEF Convention
<1>11. \A x \in RegionsOf(c) : Mirrors(c, x)
  <2>1. g.layout.size = 1 /\ Len(Whole(UserMem(req), "buf")) = 1
    <3>1. Len(Whole(UserMem(req), "buf")) = req.n
      BY <1>2, Lengths DEF IsEpoll, Vectored, IsRequest, ByReference
    <3>2. req.n = 1
      BY <1>2 DEF IsRequest, OneObject
    <3> QED
      BY <1>4, <3>1, <3>2 DEF Obj
  <2>2. Mirrors(c, g)
    BY <1>2, <1>3, <1>4, <1>9, <1>10, <2>1, Lengths DEF Mirrors, Arguments, Vectored, IsEpoll, Reads, Counting, Roles
  <2>3. h.layout.size = 1 /\ Len(Whole(UserMem(req), "buf2")) = 1
    <3>1. Len(Whole(UserMem(req), "buf2")) = req.n2
      BY <1>2, Lengths DEF IsEpoll, Vectored, IsRequest, ByReference
    <3>2. req.n2 = 1
      BY <1>2 DEF IsRequest, OneObject
    <3> QED
      BY <1>5, <3>1, <3>2 DEF Obj
  <2>4. Mirrors(c, h)
    BY <1>2, <1>3, <1>5, <1>9, <1>10, <2>3, Lengths DEF Mirrors, Arguments, Vectored, IsEpoll, Reads, Counting, Roles
  <2> QED
    BY <1>8, <2>2, <2>4
<1>12. Collects(c, Handle(req).option)
  BY <1>2, <1>3, <1>4, <1>5, <1>8, <1>9, <1>10 DEF Collects, Has, Counting, Vectored
<1>13. \A r \in Roles \cap Convention(c.num) : Absent(r) <=> ~Has(c, r)
  BY <1>2, <1>3, <1>4, <1>5, <1>8, <1>10 DEF Has, Absent, Roles
<1>14. Shape(c, Handle(req).option)
  BY <1>3, <1>8, <1>9, <1>11, <1>12, <1>13 DEF Shape
<1>15. ASSUME NEW b \in Backends PROVE Suits(c, Arms(b)["nanosleep"])
  <2>1. Arms(b)["nanosleep"] = <<Aligned(1, Obj), OrNull(Aligned(2, Obj))>>
    BY ArmsOf, SyscallArmOf DEF SyscallNames, SyscallArmsToPoll
  <2>2. PICK specs : specs = Arms(b)["nanosleep"] /\ DOMAIN specs = 1..2
                    /\ specs[1] = Aligned(1, Obj) /\ specs[2] = OrNull(Aligned(2, Obj))
    BY <2>1
  <2>3. Matches(c, specs[1], "buf", 1)
    BY <1>2, <1>3, <1>4, <1>5, <1>8, <2>2 DEF Matches, PointsTo, Counts, NullAt, Has, OffAt, CountAt, Roles, Aligned, Pointer
  <2>4. Matches(c, specs[2], "buf2", 2)
    BY <1>2, <1>3, <1>4, <1>5, <1>8, <2>2 DEF Matches, PointsTo, Counts, NullAt, Has, OffAt, CountAt, Roles, Aligned, NullWith, OrNull, Pointer
  <2>5. \A p \in 1..2 : Matches(c, specs[p], Abi["nanosleep"][p], p)
    <3>1. \A p \in 1..2 : p = 1 \/ p = 2
      OBVIOUS
    <3> QED
      BY <1>9, <2>3, <2>4, <3>1
  <2> QED
    BY <1>3, <1>9, <2>2, <2>5 DEF Suits, Words6
<1> QED
  BY <1>1, <1>3, <1>14, <1>15 DEF Framed

LEMMA NanosleepNullFramed ==
    ASSUME NanosleepStaged, IsRequest(req), "buf2" \in req.null
    PROVE  Framed(Item, Handle(req).option)
<1> DEFINE g == Region("in", "buf", 1, Obj)
<1>1. PICK c : c = Item /\ c = Nanosleep(req)
  BY DEF NanosleepStaged, Execute, Staged, Item
<1>2. Handle(req).option = FALSE /\ req.call = "nanosleep" /\ ("buf" \notin req.null)
  BY DEF NanosleepStaged, Execute, Staged
<1>3. /\ c.num = "nanosleep" /\ c.regions = <<g>> /\ c.collect = "interrupted"
      /\ c.argv = <<Off("buf"), Off("buf2")>>
  BY <1>1, <1>2 DEF Nanosleep, Call
<1>4. g.role = "buf" /\ g.dir = "in" /\ g.n = 1 /\ g.max = FALSE /\ g.layout = Obj
  BY DEF Region
<1> HIDE DEF g
<1>5. IsRegion(g)
  <2>1. g.n \in Nat
    BY <1>4
  <2>2. g.role \in Roles /\ g.max \in BOOLEAN /\ ~g.max /\ g.layout = Obj
    BY <1>4 DEF Roles
  <2> QED
    BY <2>1, <2>2 DEF IsRegion
<1>6. IsRegions(c.regions) /\ RegionsOf(c) = {g}
  BY <1>3, <1>4, <1>5, OneRegion
<1>7. "nanosleep" \in DOMAIN Abi /\ Abi["nanosleep"] = <<"buf", "buf2">>
  BY DEF Abi
<1>8. Convention("nanosleep") = {"buf", "buf2"}
  BY <1>7 DEF Convention
<1>9. \A x \in RegionsOf(c) : Mirrors(c, x)
  <2>1. g.layout.size = 1 /\ Len(Whole(UserMem(req), "buf")) = 1
    <3>1. Len(Whole(UserMem(req), "buf")) = req.n
      BY <1>2, Lengths DEF IsEpoll, Vectored, IsRequest, ByReference
    <3>2. req.n = 1
      BY <1>2 DEF IsRequest, OneObject
    <3> QED
      BY <1>4, <3>1, <3>2 DEF Obj
  <2>2. Mirrors(c, g)
    BY <1>2, <1>3, <1>4, <1>7, <1>8, <2>1, Lengths DEF Mirrors, Arguments, Vectored, IsEpoll, Reads, Counting, Roles
  <2> QED
    BY <1>6, <2>2
<1>10. Collects(c, Handle(req).option)
  BY <1>2, <1>3, <1>4, <1>6, <1>7, <1>8 DEF Collects, Has, Counting, Vectored
<1>11. \A r \in Roles \cap Convention(c.num) : Absent(r) <=> ~Has(c, r)
  BY <1>2, <1>3, <1>4, <1>6, <1>8 DEF Has, Absent, Roles
<1>12. Shape(c, Handle(req).option)
  BY <1>3, <1>6, <1>7, <1>9, <1>10, <1>11 DEF Shape
<1>13. ASSUME NEW b \in Backends PROVE Suits(c, Arms(b)["nanosleep"])
  <2>1. Arms(b)["nanosleep"] = <<Aligned(1, Obj), OrNull(Aligned(2, Obj))>>
    BY ArmsOf, SyscallArmOf DEF SyscallNames, SyscallArmsToPoll
  <2>2. PICK specs : specs = Arms(b)["nanosleep"] /\ DOMAIN specs = 1..2
                    /\ specs[1] = Aligned(1, Obj) /\ specs[2] = OrNull(Aligned(2, Obj))
    BY <2>1
  <2>3. Matches(c, specs[1], "buf", 1)
    BY <1>2, <1>3, <1>4, <1>6, <2>2 DEF Matches, PointsTo, Counts, NullAt, Has, OffAt, CountAt, Roles, Aligned, Pointer
  <2>4. Matches(c, specs[2], "buf2", 2)
    BY <1>2, <1>3, <1>4, <1>6, <2>2 DEF Matches, PointsTo, Counts, NullAt, Has, OffAt, CountAt, Roles, Aligned, NullWith, OrNull, Pointer
  <2>5. \A p \in 1..2 : Matches(c, specs[p], Abi["nanosleep"][p], p)
    <3>1. \A p \in 1..2 : p = 1 \/ p = 2
      OBVIOUS
    <3> QED
      BY <1>7, <2>3, <2>4, <3>1
  <2> QED
    BY <1>3, <1>7, <2>2, <2>5 DEF Suits, Words6
<1> QED
  BY <1>1, <1>3, <1>12, <1>13 DEF Framed

LEMMA OpenFramed ==
    ASSUME OpenStaged, IsRequest(req)
    PROVE  Framed(Item, Handle(req).option)
<1> DEFINE g == Region("in", "buf", req.n, U8)
<1>1. PICK c : c = Item /\ c = AllocOpen(req)
  BY DEF OpenStaged, Execute, Staged, Item
<1>2. Handle(req).option = FALSE /\ req.call = "open" /\ ("buf" \notin req.null)
  BY DEF OpenStaged, Execute, Staged
<1>3. /\ c.num = "open" /\ c.regions = <<g>> /\ c.collect = "none"
      /\ c.argv = <<Off("buf"), Count("buf"), Arg(2), Arg(3)>>
  BY <1>1, <1>2 DEF AllocOpen, Call
<1>4. g.role = "buf" /\ g.dir = "in" /\ g.n = req.n /\ g.max = FALSE /\ g.layout = U8
  BY DEF Region
<1> HIDE DEF g
<1>5. IsRegion(g)
  BY <1>4, Lengths DEF IsRegion, Roles
<1>6. IsRegions(c.regions) /\ RegionsOf(c) = {g}
  BY <1>3, <1>4, <1>5, OneRegion
<1>7. "open" \in DOMAIN Abi /\ Abi["open"] = <<"buf", "reg", "reg">>
  BY DEF Abi
<1>8. Convention("open") = {"buf", "reg"}
  BY <1>7 DEF Convention
<1>9. \A x \in RegionsOf(c) : Mirrors(c, x)
  <2>1. g.layout.size = 1 /\ Len(Whole(UserMem(req), "buf")) = req.n
    BY <1>2, <1>4, Lengths DEF U8, IsRequest, OneObject, ByReference, IsEpoll, Vectored
  <2>2. Mirrors(c, g)
    BY <1>2, <1>3, <1>4, <1>7, <1>8, <2>1, Lengths DEF Mirrors, Arguments, Vectored, IsEpoll, Reads, Counting, Roles
  <2> QED
    BY <1>6, <2>2
<1>10. Collects(c, Handle(req).option)
  BY <1>2, <1>3, <1>4, <1>6, <1>7, <1>8 DEF Collects, Has, Counting, Vectored
<1>11. \A r \in Roles \cap Convention(c.num) : Absent(r) <=> ~Has(c, r)
  BY <1>2, <1>3, <1>4, <1>6, <1>8 DEF Has, Absent, Roles
<1>12. Shape(c, Handle(req).option)
  BY <1>3, <1>6, <1>7, <1>9, <1>10, <1>11 DEF Shape
<1>13. ASSUME NEW b \in Backends PROVE Suits(c, Arms(b)["open"])
  <2>1. Arms(b)["open"] = <<Bytes(1, 2), Word(3), Word(4)>>
    BY ArmsOf, SyscallArmOf DEF SyscallNames, SyscallArmsToPoll
  <2>2. PICK specs : specs = Arms(b)["open"] /\ DOMAIN specs = 1..3
                    /\ specs[1] = Bytes(1, 2) /\ specs[2] = Word(3) /\ specs[3] = Word(4)
    BY <2>1
  <2>3. Matches(c, specs[1], "buf", 1)
    BY <1>2, <1>3, <1>4, <1>6, <2>2 DEF Matches, PointsTo, Counts, NullAt, Has, OffAt, CountAt, Roles, Bytes, Pointer
  <2>4. Matches(c, specs[2], "reg", 2)
    BY <1>3, <2>2 DEF Matches, Word
  <2>5. Matches(c, specs[3], "reg", 3)
    BY <1>3, <2>2 DEF Matches, Word
  <2>6. \A p \in 1..3 : Matches(c, specs[p], Abi["open"][p], p)
    <3>1. \A p \in 1..3 : p = 1 \/ p = 2 \/ p = 3
      OBVIOUS
    <3> QED
      BY <1>7, <2>3, <2>4, <2>5, <3>1
  <2> QED
    BY <1>3, <1>7, <2>2, <2>6 DEF Suits, Words6
<1> QED
  BY <1>1, <1>3, <1>12, <1>13 DEF Framed

LEMMA PollFramed ==
    ASSUME PollStaged, IsRequest(req)
    PROVE  Framed(Item, Handle(req).option)
<1> DEFINE g == Region("inout", "buf", req.n, Obj)
<1>1. PICK c : c = Item /\ c = Poll(req)
  BY DEF PollStaged, OrAttacked, Staged, Item
<1>2. Handle(req).option = TRUE /\ req.call = "poll" /\ ("buf" \notin req.null)
  BY DEF PollStaged, OrAttacked, Staged
<1>3. /\ c.num = "poll" /\ c.regions = <<g>> /\ c.collect = "prefix"
      /\ c.argv = <<Off("buf"), Count("buf"), Arg(3)>>
  BY <1>1, <1>2 DEF Poll, Call
<1>4. g.role = "buf" /\ g.dir = "inout" /\ g.n = req.n /\ g.max = FALSE /\ g.layout = Obj
  BY DEF Region
<1> HIDE DEF g
<1>5. IsRegion(g)
  BY <1>4, Lengths DEF IsRegion, Roles
<1>6. IsRegions(c.regions) /\ RegionsOf(c) = {g}
  BY <1>3, <1>4, <1>5, OneRegion
<1>7. "poll" \in DOMAIN Abi /\ Abi["poll"] = <<"buf", "#buf", "reg">>
  BY DEF Abi
<1>8. Convention("poll") = {"buf", "#buf", "reg"}
  BY <1>7 DEF Convention
<1>9. \A x \in RegionsOf(c) : Mirrors(c, x)
  <2>1. g.layout.size = 1 /\ Len(Whole(UserMem(req), "buf")) = req.n
    BY <1>2, <1>4, Lengths DEF Obj, IsRequest, OneObject, ByReference, IsEpoll, Vectored
  <2>2. Mirrors(c, g)
    BY <1>2, <1>3, <1>4, <1>7, <1>8, <2>1, Lengths DEF Mirrors, Arguments, Vectored, IsEpoll, Reads, Counting, Roles
  <2> QED
    BY <1>6, <2>2
<1>10. Collects(c, Handle(req).option)
  BY <1>2, <1>3, <1>4, <1>6, <1>7, <1>8 DEF Collects, Has, Counting, Vectored
<1>11. \A r \in Roles \cap Convention(c.num) : Absent(r) <=> ~Has(c, r)
  BY <1>2, <1>3, <1>4, <1>6, <1>8 DEF Has, Absent, Roles
<1>12. Shape(c, Handle(req).option)
  BY <1>3, <1>6, <1>7, <1>9, <1>10, <1>11 DEF Shape
<1>13. ASSUME NEW b \in Backends PROVE Suits(c, Arms(b)["poll"])
  <2>1. Arms(b)["poll"] = <<AlignedSlice(1, 2, Obj), Word(2), Word(3)>>
    BY ArmsOf, SyscallArmOf DEF SyscallNames, SyscallArmsToPoll
  <2>2. PICK specs : specs = Arms(b)["poll"] /\ DOMAIN specs = 1..3
                    /\ specs[1] = AlignedSlice(1, 2, Obj) /\ specs[2] = Word(2) /\ specs[3] = Word(3)
    BY <2>1
  <2>3. Matches(c, specs[1], "buf", 1)
    BY <1>2, <1>3, <1>4, <1>6, <2>2 DEF Matches, PointsTo, Counts, NullAt, Has, OffAt, CountAt, Roles, AlignedSlice, Pointer
  <2>4. Matches(c, specs[2], "#buf", 2)
    BY <1>2, <1>3, <1>4, <1>6, <2>2 DEF Matches, Has, OffAt, CountAt, Roles, Word
  <2>5. Matches(c, specs[3], "reg", 3)
    BY <1>3, <2>2 DEF Matches, Word
  <2>6. \A p \in 1..3 : Matches(c, specs[p], Abi["poll"][p], p)
    <3>1. \A p \in 1..3 : p = 1 \/ p = 2 \/ p = 3
      OBVIOUS
    <3> QED
      BY <1>7, <2>3, <2>4, <2>5, <3>1
  <2> QED
    BY <1>3, <1>7, <2>2, <2>6 DEF Suits, Words6
<1> QED
  BY <1>1, <1>3, <1>12, <1>13 DEF Framed

LEMMA ReadFramed ==
    ASSUME ReadStaged, IsRequest(req)
    PROVE  Framed(Item, Handle(req).option)
<1> DEFINE g == ShrinkToFit(Region("out", "buf", req.n, U8))
<1>1. PICK c : c = Item /\ c = Read(req)
  BY DEF ReadStaged, OrAttacked, Staged, Item
<1>2. Handle(req).option = TRUE /\ req.call = "read" /\ ("buf" \notin req.null)
  BY DEF ReadStaged, OrAttacked, Staged
<1>3. /\ c.num = "read" /\ c.regions = <<g>> /\ c.collect = "prefix"
      /\ c.argv = <<Arg(1), Off("buf"), Count("buf")>>
  BY <1>1, <1>2 DEF Read, Call
<1>4. g.role = "buf" /\ g.dir = "out" /\ g.n = req.n /\ g.max = TRUE /\ g.layout = U8
  BY DEF Region, ShrinkToFit
<1> HIDE DEF g
<1>5. IsRegion(g)
  BY <1>4, Lengths DEF IsRegion, Roles
<1>6. IsRegions(c.regions) /\ RegionsOf(c) = {g}
  BY <1>3, <1>4, <1>5, OneRegion
<1>7. "read" \in DOMAIN Abi /\ Abi["read"] = <<"reg", "buf", "#buf">>
  BY DEF Abi
<1>8. Convention("read") = {"reg", "buf", "#buf"}
  BY <1>7 DEF Convention
<1>9. \A x \in RegionsOf(c) : Mirrors(c, x)
  <2>1. g.layout.size = 1 /\ Len(Whole(UserMem(req), "buf")) = req.n
    BY <1>2, <1>4, Lengths DEF U8, IsRequest, OneObject, ByReference, IsEpoll, Vectored
  <2>2. Mirrors(c, g)
    BY <1>2, <1>3, <1>4, <1>7, <1>8, <2>1, Lengths DEF Mirrors, Arguments, Vectored, IsEpoll, Reads, Counting, Roles
  <2> QED
    BY <1>6, <2>2
<1>10. Collects(c, Handle(req).option)
  BY <1>2, <1>3, <1>4, <1>6, <1>7, <1>8 DEF Collects, Has, Counting, Vectored
<1>11. \A r \in Roles \cap Convention(c.num) : Absent(r) <=> ~Has(c, r)
  BY <1>2, <1>3, <1>4, <1>6, <1>8 DEF Has, Absent, Roles
<1>12. Shape(c, Handle(req).option)
  BY <1>3, <1>6, <1>7, <1>9, <1>10, <1>11 DEF Shape
<1>13. ASSUME NEW b \in Backends PROVE Suits(c, Arms(b)["read"])
  <2>1. Arms(b)["read"] = <<Word(1), Bytes(2, 3), Word(3)>>
    BY ArmsOf, SyscallArmOf DEF SyscallNames, SyscallArmsToWrite
  <2>2. PICK specs : specs = Arms(b)["read"] /\ DOMAIN specs = 1..3
                    /\ specs[1] = Word(1) /\ specs[2] = Bytes(2, 3) /\ specs[3] = Word(3)
    BY <2>1
  <2>3. Matches(c, specs[1], "reg", 1)
    BY <1>3, <2>2 DEF Matches, Word
  <2>4. Matches(c, specs[2], "buf", 2)
    BY <1>2, <1>3, <1>4, <1>6, <2>2 DEF Matches, PointsTo, Counts, NullAt, Has, OffAt, CountAt, Roles, Bytes, Pointer
  <2>5. Matches(c, specs[3], "#buf", 3)
    BY <1>2, <1>3, <1>4, <1>6, <2>2 DEF Matches, Has, OffAt, CountAt, Roles, Word
  <2>6. \A p \in 1..3 : Matches(c, specs[p], Abi["read"][p], p)
    <3>1. \A p \in 1..3 : p = 1 \/ p = 2 \/ p = 3
      OBVIOUS
    <3> QED
      BY <1>7, <2>3, <2>4, <2>5, <3>1
  <2> QED
    BY <1>3, <1>7, <2>2, <2>6 DEF Suits, Words6
<1> QED
  BY <1>1, <1>3, <1>12, <1>13 DEF Framed

LEMMA ReadvFramed ==
    ASSUME ReadvStaged, IsRequest(req)
    PROVE  Framed(Item, Handle(req).option)
<1> DEFINE g == ShrinkToFit(Region("out", "buf", req.n + req.n2, U8))
<1>1. PICK c : c = Item /\ c = Readv(req)
  BY DEF ReadvStaged, OrAttacked, Staged, Item
<1>2. Handle(req).option = TRUE /\ req.call = "readv" /\ ("buf" \notin req.null /\ "buf2" \notin req.null)
  BY DEF ReadvStaged, OrAttacked, Staged
<1>3. /\ c.num = "read" /\ c.regions = <<g>> /\ c.collect = "scatter"
      /\ c.argv = <<Arg(1), Off("buf"), Count("buf")>>
  BY <1>1, <1>2 DEF Readv, Call
<1>4. g.role = "buf" /\ g.dir = "out" /\ g.n = req.n + req.n2 /\ g.max = TRUE /\ g.layout = U8
  BY DEF Region, ShrinkToFit
<1> HIDE DEF g
<1>5. IsRegion(g)
  <2>1. req.n + req.n2 \in Nat
    BY Lengths
  <2> QED
    BY <1>4, <2>1 DEF IsRegion, Roles
<1>6. IsRegions(c.regions) /\ RegionsOf(c) = {g}
  BY <1>3, <1>4, <1>5, OneRegion
<1>7. "read" \in DOMAIN Abi /\ Abi["read"] = <<"reg", "buf", "#buf">>
  BY DEF Abi
<1>8. Convention("read") = {"reg", "buf", "#buf"}
  BY <1>7 DEF Convention
<1>9. \A x \in RegionsOf(c) : Mirrors(c, x)
  <2>1. g.layout.size = 1 /\ Len(Whole(UserMem(req), "buf")) = req.n + req.n2
    BY <1>2, <1>4, Lengths DEF U8, IsRequest, OneObject, ByReference, IsEpoll, Vectored
  <2>2. Mirrors(c, g)
    BY <1>2, <1>3, <1>4, <1>7, <1>8, <2>1, Lengths DEF Mirrors, Arguments, Vectored, IsEpoll, Reads, Counting, Roles
  <2> QED
    BY <1>6, <2>2
<1>10. Collects(c, Handle(req).option)
  BY <1>2, <1>3, <1>4, <1>6, <1>7, <1>8 DEF Collects, Has, Counting, Vectored
<1>11. \A r \in Roles \cap Convention(c.num) : Absent(r) <=> ~Has(c, r)
  BY <1>2, <1>3, <1>4, <1>6, <1>8 DEF Has, Absent, Roles
<1>12. Shape(c, Handle(req).option)
  BY <1>3, <1>6, <1>7, <1>9, <1>10, <1>11 DEF Shape
<1>13. ASSUME NEW b \in Backends PROVE Suits(c, Arms(b)["read"])
  <2>1. Arms(b)["read"] = <<Word(1), Bytes(2, 3), Word(3)>>
    BY ArmsOf, SyscallArmOf DEF SyscallNames, SyscallArmsToWrite
  <2>2. PICK specs : specs = Arms(b)["read"] /\ DOMAIN specs = 1..3
                    /\ specs[1] = Word(1) /\ specs[2] = Bytes(2, 3) /\ specs[3] = Word(3)
    BY <2>1
  <2>3. Matches(c, specs[1], "reg", 1)
    BY <1>3, <2>2 DEF Matches, Word
  <2>4. Matches(c, specs[2], "buf", 2)
    BY <1>2, <1>3, <1>4, <1>6, <2>2 DEF Matches, PointsTo, Counts, NullAt, Has, OffAt, CountAt, Roles, Bytes, Pointer
  <2>5. Matches(c, specs[3], "#buf", 3)
    BY <1>2, <1>3, <1>4, <1>6, <2>2 DEF Matches, Has, OffAt, CountAt, Roles, Word
  <2>6. \A p \in 1..3 : Matches(c, specs[p], Abi["read"][p], p)
    <3>1. \A p \in 1..3 : p = 1 \/ p = 2 \/ p = 3
      OBVIOUS
    <3> QED
      BY <1>7, <2>3, <2>4, <2>5, <3>1
  <2> QED
    BY <1>3, <1>7, <2>2, <2>6 DEF Suits, Words6
<1> QED
  BY <1>1, <1>3, <1>12, <1>13 DEF Framed

LEMMA RecvFramed ==
    ASSUME RecvStaged, IsRequest(req)
    PROVE  Framed(Item, Handle(req).option)
<1> DEFINE g == ShrinkToFit(Region("out", "buf", req.n, U8))
<1>1. PICK c : c = Item /\ c = Recv(req)
  BY DEF RecvStaged, OrAttacked, Staged, Item
<1>2. Handle(req).option = TRUE /\ req.call = "recvfrom" /\ ("buf" \notin req.null /\ "addr" \in req.null)
  BY DEF RecvStaged, OrAttacked, Staged
<1>3. /\ c.num = "recvfrom" /\ c.regions = <<g>> /\ c.collect = "prefix"
      /\ c.argv = <<Arg(1), Off("buf"), Count("buf"), Arg(4)>>
  BY <1>1, <1>2 DEF Recv, Call
<1>4. g.role = "buf" /\ g.dir = "out" /\ g.n = req.n /\ g.max = TRUE /\ g.layout = U8
  BY DEF Region, ShrinkToFit
<1> HIDE DEF g
<1>5. IsRegion(g)
  BY <1>4, Lengths DEF IsRegion, Roles
<1>6. IsRegions(c.regions) /\ RegionsOf(c) = {g}
  BY <1>3, <1>4, <1>5, OneRegion
<1>7. "recvfrom" \in DOMAIN Abi /\ Abi["recvfrom"] = <<"reg", "buf", "#buf", "reg", "addr", "len">>
  BY DEF Abi
<1>8. Convention("recvfrom") = {"reg", "buf", "#buf", "addr", "len"}
  BY <1>7 DEF Convention
<1>9. \A x \in RegionsOf(c) : Mirrors(c, x)
  <2>1. g.layout.size = 1 /\ Len(Whole(UserMem(req), "buf")) = req.n
    BY <1>2, <1>4, Lengths DEF U8, IsRequest, OneObject, ByReference, IsEpoll, Vectored
  <2>2. Mirrors(c, g)
    BY <1>2, <1>3, <1>4, <1>7, <1>8, <2>1, Lengths DEF Mirrors, Arguments, Vectored, IsEpoll, Reads, Counting, Roles
  <2> QED
    BY <1>6, <2>2
<1>10. Collects(c, Handle(req).option)
  BY <1>2, <1>3, <1>4, <1>6, <1>7, <1>8 DEF Collects, Has, Counting, Vectored
<1>11. \A r \in Roles \cap Convention(c.num) : Absent(r) <=> ~Has(c, r)
  BY <1>2, <1>3, <1>4, <1>6, <1>8 DEF Has, Absent, Roles
<1>12. Shape(c, Handle(req).option)
  BY <1>3, <1>6, <1>7, <1>9, <1>10, <1>11 DEF Shape
<1>13. ASSUME NEW b \in Backends PROVE Suits(c, Arms(b)["recvfrom"])
  <2>1. Arms(b)["recvfrom"] = <<Word(1), Bytes(2, 3), Word(3), Word(4), OrNull(SockaddrOut(5, 6)), NullWith(SocklenOut(6), 5)>>
    BY ArmsOf, SyscallArmOf DEF SyscallNames, SyscallArmsToWrite
  <2>2. PICK specs : specs = Arms(b)["recvfrom"] /\ DOMAIN specs = 1..6
                    /\ specs[1] = Word(1) /\ specs[2] = Bytes(2, 3) /\ specs[3] = Word(3) /\ specs[4] = Word(4) /\ specs[5] = OrNull(SockaddrOut(5, 6)) /\ specs[6] = NullWith(SocklenOut(6), 5)
    BY <2>1
  <2>3. Matches(c, specs[1], "reg", 1)
    BY <1>3, <2>2 DEF Matches, Word
  <2>4. Matches(c, specs[2], "buf", 2)
    BY <1>2, <1>3, <1>4, <1>6, <2>2 DEF Matches, PointsTo, Counts, NullAt, Has, OffAt, CountAt, Roles, Bytes, Pointer
  <2>5. Matches(c, specs[3], "#buf", 3)
    BY <1>2, <1>3, <1>4, <1>6, <2>2 DEF Matches, Has, OffAt, CountAt, Roles, Word
  <2>6. Matches(c, specs[4], "reg", 4)
    BY <1>3, <2>2 DEF Matches, Word
  <2>7. Matches(c, specs[5], "addr", 5)
    BY <1>2, <1>3, <1>4, <1>6, <2>2 DEF Matches, PointsTo, Counts, NullAt, Has, OffAt, CountAt, Roles, NullWith, OrNull, Pointer, SockaddrOut
  <2>8. Matches(c, specs[6], "len", 6)
    BY <1>2, <1>3, <1>4, <1>6, <2>2 DEF Matches, PointsTo, Counts, NullAt, Has, OffAt, CountAt, Roles, Aligned, NullWith, Pointer, SocklenOut
  <2>9. \A p \in 1..6 : Matches(c, specs[p], Abi["recvfrom"][p], p)
    <3>1. \A p \in 1..6 : p = 1 \/ p = 2 \/ p = 3 \/ p = 4 \/ p = 5 \/ p = 6
      OBVIOUS
    <3> QED
      BY <1>7, <2>3, <2>4, <2>5, <2>6, <2>7, <2>8, <3>1
  <2> QED
    BY <1>3, <1>7, <2>2, <2>9 DEF Suits, Words6
<1> QED
  BY <1>1, <1>3, <1>12, <1>13 DEF Framed

LEMMA RecvfromFramed ==
    ASSUME RecvfromStaged, IsRequest(req)
    PROVE  Framed(Item, Handle(req).option)
<1> DEFINE g == AddrOutput(req)
           h == AddrlenOutput
           k == ShrinkToFit(Region("out", "buf", req.n, U8))
<1>1. PICK c : c = Item /\ c = Recvfrom(req)
  BY DEF RecvfromStaged, OrAttacked, Staged, Item
<1>2. Handle(req).option = TRUE /\ req.call = "recvfrom" /\ ({"buf", "addr", "len"} \cap req.null = {})
  BY DEF RecvfromStaged, OrAttacked, Staged
<1>3. /\ c.num = "recvfrom" /\ c.regions = <<g, h, k>> /\ c.collect = "prefix_sockaddr"
      /\ c.argv = <<Arg(1), Off("buf"), Count("buf"), Arg(4), Off("addr"), Off("len")>>
  BY <1>1, <1>2 DEF Recvfrom, Call, SockaddrOutput
<1>4. g.role = "addr" /\ g.dir = "out" /\ g.n = req.a /\ g.max = FALSE /\ g.layout = Obj
  BY DEF AddrOutput, Region
<1>5. h.role = "len" /\ h.dir = "inout" /\ h.n = 1 /\ h.max = FALSE /\ h.layout = Obj
  BY DEF AddrlenOutput, Region
<1>6. k.role = "buf" /\ k.dir = "out" /\ k.n = req.n /\ k.max = TRUE /\ k.layout = U8
  BY DEF Region, ShrinkToFit
<1> HIDE DEF g, h, k
<1>7. IsRegion(g)
  BY <1>4, Lengths DEF IsRegion, Roles
<1>8. IsRegion(h)
  <2>1. h.n \in Nat
    BY <1>5
  <2>2. h.role \in Roles /\ h.max \in BOOLEAN /\ ~h.max /\ h.layout = Obj
    BY <1>5 DEF Roles
  <2> QED
    BY <2>1, <2>2 DEF IsRegion
<1>9. IsRegion(k)
  BY <1>6, Lengths DEF IsRegion, Roles
<1>10. IsRegions(c.regions) /\ RegionsOf(c) = {g, h, k}
  BY <1>3, <1>4, <1>5, <1>6, <1>7, <1>8, <1>9, ThreeRegions
<1>11. "recvfrom" \in DOMAIN Abi /\ Abi["recvfrom"] = <<"reg", "buf", "#buf", "reg", "addr", "len">>
  BY DEF Abi
<1>12. Convention("recvfrom") = {"reg", "buf", "#buf", "addr", "len"}
  BY <1>11 DEF Convention
<1>13. \A x \in RegionsOf(c) : Mirrors(c, x)
  <2>1. g.layout.size = 1 /\ Len(Whole(UserMem(req), "addr")) = req.a
    BY <1>2, <1>4, Lengths DEF Obj, IsRequest, OneObject, ByReference, IsEpoll, Vectored
  <2>2. Mirrors(c, g)
    BY <1>2, <1>3, <1>4, <1>11, <1>12, <2>1, Lengths DEF Mirrors, Arguments, Vectored, IsEpoll, Reads, Counting, Roles
  <2>3. h.layout.size = 1 /\ Len(Whole(UserMem(req), "len")) = 1
    BY <1>2, <1>5, Lengths DEF Obj, IsRequest, OneObject, ByReference, IsEpoll, Vectored
  <2>4. Mirrors(c, h)
    BY <1>2, <1>3, <1>5, <1>11, <1>12, <2>3, Lengths DEF Mirrors, Arguments, Vectored, IsEpoll, Reads, Counting, Roles
  <2>5. k.layout.size = 1 /\ Len(Whole(UserMem(req), "buf")) = req.n
    BY <1>2, <1>6, Lengths DEF U8, IsRequest, OneObject, ByReference, IsEpoll, Vectored
  <2>6. Mirrors(c, k)
    BY <1>2, <1>3, <1>6, <1>11, <1>12, <2>5, Lengths DEF Mirrors, Arguments, Vectored, IsEpoll, Reads, Counting, Roles
  <2> QED
    BY <1>10, <2>2, <2>4, <2>6
<1>14. Collects(c, Handle(req).option)
  BY <1>2, <1>3, <1>4, <1>5, <1>6, <1>10, <1>11, <1>12 DEF Collects, Has, Counting, Vectored
<1>15. \A r \in Roles \cap Convention(c.num) : Absent(r) <=> ~Has(c, r)
  BY <1>2, <1>3, <1>4, <1>5, <1>6, <1>10, <1>12 DEF Has, Absent, Roles
<1>16. Shape(c, Handle(req).option)
  BY <1>3, <1>10, <1>11, <1>13, <1>14, <1>15 DEF Shape
<1>17. ASSUME NEW b \in Backends PROVE Suits(c, Arms(b)["recvfrom"])
  <2>1. Arms(b)["recvfrom"] = <<Word(1), Bytes(2, 3), Word(3), Word(4), OrNull(SockaddrOut(5, 6)), NullWith(SocklenOut(6), 5)>>
    BY ArmsOf, SyscallArmOf DEF SyscallNames, SyscallArmsToWrite
  <2>2. PICK specs : specs = Arms(b)["recvfrom"] /\ DOMAIN specs = 1..6
                    /\ specs[1] = Word(1) /\ specs[2] = Bytes(2, 3) /\ specs[3] = Word(3) /\ specs[4] = Word(4) /\ specs[5] = OrNull(SockaddrOut(5, 6)) /\ specs[6] = NullWith(SocklenOut(6), 5)
    BY <2>1
  <2>3. Matches(c, specs[1], "reg", 1)
    BY <1>3, <2>2 DEF Matches, Word
  <2>4. Matches(c, specs[2], "buf", 2)
    BY <1>2, <1>3, <1>4, <1>5, <1>6, <1>10, <2>2 DEF Matches, PointsTo, Counts, NullAt, Has, OffAt, CountAt, Roles, Bytes, Pointer
  <2>5. Matches(c, specs[3], "#buf", 3)
    BY <1>2, <1>3, <1>4, <1>5, <1>6, <1>10, <2>2 DEF Matches, Has, OffAt, CountAt, Roles, Word
  <2>6. Matches(c, specs[4], "reg", 4)
    BY <1>3, <2>2 DEF Matches, Word
  <2>7. Matches(c, specs[5], "addr", 5)
    BY <1>2, <1>3, <1>4, <1>5, <1>6, <1>10, <2>2 DEF Matches, PointsTo, Counts, NullAt, Has, OffAt, CountAt, Roles, NullWith, OrNull, Pointer, SockaddrOut
  <2>8. Matches(c, specs[6], "len", 6)
    BY <1>2, <1>3, <1>4, <1>5, <1>6, <1>10, <2>2 DEF Matches, PointsTo, Counts, NullAt, Has, OffAt, CountAt, Roles, Aligned, NullWith, Pointer, SocklenOut
  <2>9. \A p \in 1..6 : Matches(c, specs[p], Abi["recvfrom"][p], p)
    <3>1. \A p \in 1..6 : p = 1 \/ p = 2 \/ p = 3 \/ p = 4 \/ p = 5 \/ p = 6
      OBVIOUS
    <3> QED
      BY <1>11, <2>3, <2>4, <2>5, <2>6, <2>7, <2>8, <3>1
  <2> QED
    BY <1>3, <1>11, <2>2, <2>9 DEF Suits, Words6
<1> QED
  BY <1>1, <1>3, <1>16, <1>17 DEF Framed

LEMMA SendFramed ==
    ASSUME SendStaged, IsRequest(req)
    PROVE  Framed(Item, Handle(req).option)
<1> DEFINE g == ShrinkToFit(Region("in", "buf", req.n, U8))
<1>1. PICK c : c = Item /\ c = Send(req)
  BY DEF SendStaged, OrAttacked, Staged, Item
<1>2. Handle(req).option = TRUE /\ req.call = "sendto" /\ ("buf" \notin req.null /\ "addr" \in req.null)
  BY DEF SendStaged, OrAttacked, Staged
<1>3. /\ c.num = "sendto" /\ c.regions = <<g>> /\ c.collect = "count"
      /\ c.argv = <<Arg(1), Off("buf"), Count("buf"), Arg(4)>>
  BY <1>1, <1>2 DEF Send, Call
<1>4. g.role = "buf" /\ g.dir = "in" /\ g.n = req.n /\ g.max = TRUE /\ g.layout = U8
  BY DEF Region, ShrinkToFit
<1> HIDE DEF g
<1>5. IsRegion(g)
  BY <1>4, Lengths DEF IsRegion, Roles
<1>6. IsRegions(c.regions) /\ RegionsOf(c) = {g}
  BY <1>3, <1>4, <1>5, OneRegion
<1>7. "sendto" \in DOMAIN Abi /\ Abi["sendto"] = <<"reg", "buf", "#buf", "reg", "addr", "#addr">>
  BY DEF Abi
<1>8. Convention("sendto") = {"reg", "buf", "#buf", "addr", "#addr"}
  BY <1>7 DEF Convention
<1>9. \A x \in RegionsOf(c) : Mirrors(c, x)
  <2>1. g.layout.size = 1 /\ Len(Whole(UserMem(req), "buf")) = req.n
    BY <1>2, <1>4, Lengths DEF U8, IsRequest, OneObject, ByReference, IsEpoll, Vectored
  <2>2. Mirrors(c, g)
    BY <1>2, <1>3, <1>4, <1>7, <1>8, <2>1, Lengths DEF Mirrors, Arguments, Vectored, IsEpoll, Reads, Counting, Roles
  <2> QED
    BY <1>6, <2>2
<1>10. Collects(c, Handle(req).option)
  BY <1>2, <1>3, <1>4, <1>6, <1>7, <1>8 DEF Collects, Has, Counting, Vectored
<1>11. \A r \in Roles \cap Convention(c.num) : Absent(r) <=> ~Has(c, r)
  BY <1>2, <1>3, <1>4, <1>6, <1>8 DEF Has, Absent, Roles
<1>12. Shape(c, Handle(req).option)
  BY <1>3, <1>6, <1>7, <1>9, <1>10, <1>11 DEF Shape
<1>13. ASSUME NEW b \in Backends PROVE Suits(c, Arms(b)["sendto"])
  <2>1. Arms(b)["sendto"] = <<Word(1), Bytes(2, 3), Word(3), Word(4), OrNull(SockaddrIn(5, 6)), Word(6)>>
    BY ArmsOf, SyscallArmOf DEF SyscallNames, SyscallArmsToWrite
  <2>2. PICK specs : specs = Arms(b)["sendto"] /\ DOMAIN specs = 1..6
                    /\ specs[1] = Word(1) /\ specs[2] = Bytes(2, 3) /\ specs[3] = Word(3) /\ specs[4] = Word(4) /\ specs[5] = OrNull(SockaddrIn(5, 6)) /\ specs[6] = Word(6)
    BY <2>1
  <2>3. Matches(c, specs[1], "reg", 1)
    BY <1>3, <2>2 DEF Matches, Word
  <2>4. Matches(c, specs[2], "buf", 2)
    BY <1>2, <1>3, <1>4, <1>6, <2>2 DEF Matches, PointsTo, Counts, NullAt, Has, OffAt, CountAt, Roles, Bytes, Pointer
  <2>5. Matches(c, specs[3], "#buf", 3)
    BY <1>2, <1>3, <1>4, <1>6, <2>2 DEF Matches, Has, OffAt, CountAt, Roles, Word
  <2>6. Matches(c, specs[4], "reg", 4)
    BY <1>3, <2>2 DEF Matches, Word
  <2>7. Matches(c, specs[5], "addr", 5)
    BY <1>2, <1>3, <1>4, <1>6, <2>2 DEF Matches, PointsTo, Counts, NullAt, Has, OffAt, CountAt, Roles, AlignedSlice, NullWith, OrNull, Pointer, SockaddrIn
  <2>8. Matches(c, specs[6], "#addr", 6)
    BY <1>2, <1>3, <1>4, <1>6, <2>2 DEF Matches, Has, OffAt, CountAt, Roles, Word
  <2>9. \A p \in 1..6 : Matches(c, specs[p], Abi["sendto"][p], p)
    <3>1. \A p \in 1..6 : p = 1 \/ p = 2 \/ p = 3 \/ p = 4 \/ p = 5 \/ p = 6
      OBVIOUS
    <3> QED
      BY <1>7, <2>3, <2>4, <2>5, <2>6, <2>7, <2>8, <3>1
  <2> QED
    BY <1>3, <1>7, <2>2, <2>9 DEF Suits, Words6
<1> QED
  BY <1>1, <1>3, <1>12, <1>13 DEF Framed

LEMMA SendtoFramed ==
    ASSUME SendtoStaged, IsRequest(req)
    PROVE  Framed(Item, Handle(req).option)
<1> DEFINE g == SockaddrInput(req)
           h == ShrinkToFit(Region("in", "buf", req.n, U8))
<1>1. PICK c : c = Item /\ c = Sendto(req)
  BY DEF SendtoStaged, OrAttacked, Staged, Item
<1>2. Handle(req).option = TRUE /\ req.call = "sendto" /\ ("buf" \notin req.null /\ "addr" \notin req.null)
  BY DEF SendtoStaged, OrAttacked, Staged
<1>3. /\ c.num = "sendto" /\ c.regions = <<g, h>> /\ c.collect = "count"
      /\ c.argv = <<Arg(1), Off("buf"), Count("buf"), Arg(4), Off("addr"), Count("addr")>>
  BY <1>1, <1>2 DEF Sendto, Call
<1>4. g.role = "addr" /\ g.dir = "in" /\ g.n = req.a /\ g.max = FALSE /\ g.layout = Obj
  BY DEF SockaddrInput, Region
<1>5. h.role = "buf" /\ h.dir = "in" /\ h.n = req.n /\ h.max = TRUE /\ h.layout = U8
  BY DEF Region, ShrinkToFit
<1> HIDE DEF g, h
<1>6. IsRegion(g)
  BY <1>4, Lengths DEF IsRegion, Roles
<1>7. IsRegion(h)
  BY <1>5, Lengths DEF IsRegion, Roles
<1>8. IsRegions(c.regions) /\ RegionsOf(c) = {g, h}
  BY <1>3, <1>4, <1>5, <1>6, <1>7, TwoRegions
<1>9. "sendto" \in DOMAIN Abi /\ Abi["sendto"] = <<"reg", "buf", "#buf", "reg", "addr", "#addr">>
  BY DEF Abi
<1>10. Convention("sendto") = {"reg", "buf", "#buf", "addr", "#addr"}
  BY <1>9 DEF Convention
<1>11. \A x \in RegionsOf(c) : Mirrors(c, x)
  <2>1. g.layout.size = 1 /\ Len(Whole(UserMem(req), "addr")) = req.a
    BY <1>2, <1>4, Lengths DEF Obj, IsRequest, OneObject, ByReference, IsEpoll, Vectored
  <2>2. Mirrors(c, g)
    BY <1>2, <1>3, <1>4, <1>9, <1>10, <2>1, Lengths DEF Mirrors, Arguments, Vectored, IsEpoll, Reads, Counting, Roles
  <2>3. h.layout.size = 1 /\ Len(Whole(UserMem(req), "buf")) = req.n
    BY <1>2, <1>5, Lengths DEF U8, IsRequest, OneObject, ByReference, IsEpoll, Vectored
  <2>4. Mirrors(c, h)
    BY <1>2, <1>3, <1>5, <1>9, <1>10, <2>3, Lengths DEF Mirrors, Arguments, Vectored, IsEpoll, Reads, Counting, Roles
  <2> QED
    BY <1>8, <2>2, <2>4
<1>12. Collects(c, Handle(req).option)
  BY <1>2, <1>3, <1>4, <1>5, <1>8, <1>9, <1>10 DEF Collects, Has, Counting, Vectored
<1>13. \A r \in Roles \cap Convention(c.num) : Absent(r) <=> ~Has(c, r)
  BY <1>2, <1>3, <1>4, <1>5, <1>8, <1>10 DEF Has, Absent, Roles
<1>14. Shape(c, Handle(req).option)
  BY <1>3, <1>8, <1>9, <1>11, <1>12, <1>13 DEF Shape
<1>15. ASSUME NEW b \in Backends PROVE Suits(c, Arms(b)["sendto"])
  <2>1. Arms(b)["sendto"] = <<Word(1), Bytes(2, 3), Word(3), Word(4), OrNull(SockaddrIn(5, 6)), Word(6)>>
    BY ArmsOf, SyscallArmOf DEF SyscallNames, SyscallArmsToWrite
  <2>2. PICK specs : specs = Arms(b)["sendto"] /\ DOMAIN specs = 1..6
                    /\ specs[1] = Word(1) /\ specs[2] = Bytes(2, 3) /\ specs[3] = Word(3) /\ specs[4] = Word(4) /\ specs[5] = OrNull(SockaddrIn(5, 6)) /\ specs[6] = Word(6)
    BY <2>1
  <2>3. Matches(c, specs[1], "reg", 1)
    BY <1>3, <2>2 DEF Matches, Word
  <2>4. Matches(c, specs[2], "buf", 2)
    BY <1>2, <1>3, <1>4, <1>5, <1>8, <2>2 DEF Matches, PointsTo, Counts, NullAt, Has, OffAt, CountAt, Roles, Bytes, Pointer
  <2>5. Matches(c, specs[3], "#buf", 3)
    BY <1>2, <1>3, <1>4, <1>5, <1>8, <2>2 DEF Matches, Has, OffAt, CountAt, Roles, Word
  <2>6. Matches(c, specs[4], "reg", 4)
    BY <1>3, <2>2 DEF Matches, Word
  <2>7. Matches(c, specs[5], "addr", 5)
    BY <1>2, <1>3, <1>4, <1>5, <1>8, <2>2 DEF Matches, PointsTo, Counts, NullAt, Has, OffAt, CountAt, Roles, AlignedSlice, NullWith, OrNull, Pointer, SockaddrIn
  <2>8. Matches(c, specs[6], "#addr", 6)
    BY <1>2, <1>3, <1>4, <1>5, <1>8, <2>2 DEF Matches, Has, OffAt, CountAt, Roles, Word
  <2>9. \A p \in 1..6 : Matches(c, specs[p], Abi["sendto"][p], p)
    <3>1. \A p \in 1..6 : p = 1 \/ p = 2 \/ p = 3 \/ p = 4 \/ p = 5 \/ p = 6
      OBVIOUS
    <3> QED
      BY <1>9, <2>3, <2>4, <2>5, <2>6, <2>7, <2>8, <3>1
  <2> QED
    BY <1>3, <1>9, <2>2, <2>9 DEF Suits, Words6
<1> QED
  BY <1>1, <1>3, <1>14, <1>15 DEF Framed

LEMMA SetsockoptFramed ==
    ASSUME SetsockoptStaged, IsRequest(req), "buf" \notin req.null
    PROVE  Framed(Item, Handle(req).option)
<1> DEFINE g == SockoptInput(req)
<1>1. PICK c : c = Item /\ c = Setsockopt(req)
  BY DEF SetsockoptStaged, Execute, Staged, Item
<1>2. Handle(req).option = FALSE /\ req.call = "setsockopt"
  BY DEF SetsockoptStaged, Execute, Staged
<1>3. /\ c.num = "setsockopt" /\ c.regions = <<g>> /\ c.collect = "none"
      /\ c.argv = <<Arg(1), Arg(2), Arg(3), Off("buf"), Count("buf")>>
  BY <1>1, <1>2 DEF Setsockopt, Call, Optional
<1>4. g.role = "buf" /\ g.dir = "in" /\ g.n = req.n /\ g.max = FALSE /\ g.layout = Obj
  BY DEF SockoptInput, Region
<1> HIDE DEF g
<1>5. IsRegion(g)
  BY <1>4, Lengths DEF IsRegion, Roles
<1>6. IsRegions(c.regions) /\ RegionsOf(c) = {g}
  BY <1>3, <1>4, <1>5, OneRegion
<1>7. "setsockopt" \in DOMAIN Abi /\ Abi["setsockopt"] = <<"reg", "reg", "reg", "buf", "#buf">>
  BY DEF Abi
<1>8. Convention("setsockopt") = {"reg", "buf", "#buf"}
  BY <1>7 DEF Convention
<1>9. \A x \in RegionsOf(c) : Mirrors(c, x)
  <2>1. g.layout.size = 1 /\ Len(Whole(UserMem(req), "buf")) = req.n
    BY <1>2, <1>4, Lengths DEF Obj, IsRequest, OneObject, ByReference, IsEpoll, Vectored
  <2>2. Mirrors(c, g)
    BY <1>2, <1>3, <1>4, <1>7, <1>8, <2>1, Lengths DEF Mirrors, Arguments, Vectored, IsEpoll, Reads, Counting, Roles
  <2> QED
    BY <1>6, <2>2
<1>10. Collects(c, Handle(req).option)
  BY <1>2, <1>3, <1>4, <1>6, <1>7, <1>8 DEF Collects, Has, Counting, Vectored
<1>11. \A r \in Roles \cap Convention(c.num) : Absent(r) <=> ~Has(c, r)
  BY <1>2, <1>3, <1>4, <1>6, <1>8 DEF Has, Absent, Roles
<1>12. Shape(c, Handle(req).option)
  BY <1>3, <1>6, <1>7, <1>9, <1>10, <1>11 DEF Shape
<1>13. ASSUME NEW b \in Backends PROVE Suits(c, Arms(b)["setsockopt"])
  <2>1. Arms(b)["setsockopt"] = <<Word(1), Word(2), Word(3), OrNull(AlignedSlice(4, 5, Obj)), WordOrZero(5, 4)>>
    BY ArmsOf, SyscallArmOf DEF SyscallNames, SyscallArmsToWrite
  <2>2. PICK specs : specs = Arms(b)["setsockopt"] /\ DOMAIN specs = 1..5
                    /\ specs[1] = Word(1) /\ specs[2] = Word(2) /\ specs[3] = Word(3) /\ specs[4] = OrNull(AlignedSlice(4, 5, Obj)) /\ specs[5] = WordOrZero(5, 4)
    BY <2>1
  <2>3. Matches(c, specs[1], "reg", 1)
    BY <1>3, <2>2 DEF Matches, Word
  <2>4. Matches(c, specs[2], "reg", 2)
    BY <1>3, <2>2 DEF Matches, Word
  <2>5. Matches(c, specs[3], "reg", 3)
    BY <1>3, <2>2 DEF Matches, Word
  <2>6. Matches(c, specs[4], "buf", 4)
    BY <1>2, <1>3, <1>4, <1>6, <2>2 DEF Matches, PointsTo, Counts, NullAt, Has, OffAt, CountAt, Roles, AlignedSlice, NullWith, OrNull, Pointer
  <2>7. Matches(c, specs[5], "#buf", 5)
    BY <1>2, <1>3, <1>4, <1>6, <2>2 DEF Matches, Has, OffAt, CountAt, Roles, WordOrZero
  <2>8. \A p \in 1..5 : Matches(c, specs[p], Abi["setsockopt"][p], p)
    <3>1. \A p \in 1..5 : p = 1 \/ p = 2 \/ p = 3 \/ p = 4 \/ p = 5
      OBVIOUS
    <3> QED
      BY <1>7, <2>3, <2>4, <2>5, <2>6, <2>7, <3>1
  <2> QED
    BY <1>3, <1>7, <2>2, <2>8 DEF Suits, Words6
<1> QED
  BY <1>1, <1>3, <1>12, <1>13 DEF Framed

LEMMA SetsockoptNullFramed ==
    ASSUME SetsockoptStaged, IsRequest(req), "buf" \in req.null
    PROVE  Framed(Item, Handle(req).option)
<1>1. PICK c : c = Item /\ c = Setsockopt(req)
  BY DEF SetsockoptStaged, Execute, Staged, Item
<1>2. Handle(req).option = FALSE /\ req.call = "setsockopt"
  BY DEF SetsockoptStaged, Execute, Staged
<1>3. /\ c.num = "setsockopt" /\ c.regions = <<>> /\ c.collect = "none"
      /\ c.argv = <<Arg(1), Arg(2), Arg(3), Off("buf"), Count("buf")>>
  BY <1>1, <1>2 DEF Setsockopt, Call, Optional
<1>4. IsRegions(c.regions) /\ RegionsOf(c) = {}
  BY <1>3, NoRegions
<1>5. "setsockopt" \in DOMAIN Abi /\ Abi["setsockopt"] = <<"reg", "reg", "reg", "buf", "#buf">>
  BY DEF Abi
<1>6. Convention("setsockopt") = {"reg", "buf", "#buf"}
  BY <1>5 DEF Convention
<1>7. \A x \in RegionsOf(c) : Mirrors(c, x)
  BY <1>4
<1>8. Collects(c, Handle(req).option)
  BY <1>2, <1>3, <1>4, <1>5, <1>6 DEF Collects, Has, Counting, Vectored
<1>9. \A r \in Roles \cap Convention(c.num) : Absent(r) <=> ~Has(c, r)
  BY <1>2, <1>3, <1>4, <1>6 DEF Has, Absent, Roles
<1>10. Shape(c, Handle(req).option)
  BY <1>3, <1>4, <1>5, <1>7, <1>8, <1>9 DEF Shape
<1>11. ASSUME NEW b \in Backends PROVE Suits(c, Arms(b)["setsockopt"])
  <2>1. Arms(b)["setsockopt"] = <<Word(1), Word(2), Word(3), OrNull(AlignedSlice(4, 5, Obj)), WordOrZero(5, 4)>>
    BY ArmsOf, SyscallArmOf DEF SyscallNames, SyscallArmsToWrite
  <2>2. PICK specs : specs = Arms(b)["setsockopt"] /\ DOMAIN specs = 1..5
                    /\ specs[1] = Word(1) /\ specs[2] = Word(2) /\ specs[3] = Word(3) /\ specs[4] = OrNull(AlignedSlice(4, 5, Obj)) /\ specs[5] = WordOrZero(5, 4)
    BY <2>1
  <2>3. Matches(c, specs[1], "reg", 1)
    BY <1>3, <2>2 DEF Matches, Word
  <2>4. Matches(c, specs[2], "reg", 2)
    BY <1>3, <2>2 DEF Matches, Word
  <2>5. Matches(c, specs[3], "reg", 3)
    BY <1>3, <2>2 DEF Matches, Word
  <2>6. Matches(c, specs[4], "buf", 4)
    BY <1>2, <1>3, <1>4, <2>2 DEF Matches, PointsTo, Counts, NullAt, Has, OffAt, CountAt, Roles, AlignedSlice, NullWith, OrNull, Pointer
  <2>7. Matches(c, specs[5], "#buf", 5)
    BY <1>2, <1>3, <1>4, <2>2 DEF Matches, Has, OffAt, CountAt, Roles, WordOrZero
  <2>8. \A p \in 1..5 : Matches(c, specs[p], Abi["setsockopt"][p], p)
    <3>1. \A p \in 1..5 : p = 1 \/ p = 2 \/ p = 3 \/ p = 4 \/ p = 5
      OBVIOUS
    <3> QED
      BY <1>5, <2>3, <2>4, <2>5, <2>6, <2>7, <3>1
  <2> QED
    BY <1>3, <1>5, <2>2, <2>8 DEF Suits, Words6
<1> QED
  BY <1>1, <1>3, <1>10, <1>11 DEF Framed

LEMMA WriteFramed ==
    ASSUME WriteStaged, IsRequest(req)
    PROVE  Framed(Item, Handle(req).option)
<1> DEFINE g == ShrinkToFit(Region("in", "buf", req.n, U8))
<1>1. PICK c : c = Item /\ c = Write(req)
  BY DEF WriteStaged, OrAttacked, Staged, Item
<1>2. Handle(req).option = TRUE /\ req.call = "write" /\ ("buf" \notin req.null)
  BY DEF WriteStaged, OrAttacked, Staged
<1>3. /\ c.num = "write" /\ c.regions = <<g>> /\ c.collect = "count"
      /\ c.argv = <<Arg(1), Off("buf"), Count("buf")>>
  BY <1>1, <1>2 DEF Write, Call
<1>4. g.role = "buf" /\ g.dir = "in" /\ g.n = req.n /\ g.max = TRUE /\ g.layout = U8
  BY DEF Region, ShrinkToFit
<1> HIDE DEF g
<1>5. IsRegion(g)
  BY <1>4, Lengths DEF IsRegion, Roles
<1>6. IsRegions(c.regions) /\ RegionsOf(c) = {g}
  BY <1>3, <1>4, <1>5, OneRegion
<1>7. "write" \in DOMAIN Abi /\ Abi["write"] = <<"reg", "buf", "#buf">>
  BY DEF Abi
<1>8. Convention("write") = {"reg", "buf", "#buf"}
  BY <1>7 DEF Convention
<1>9. \A x \in RegionsOf(c) : Mirrors(c, x)
  <2>1. g.layout.size = 1 /\ Len(Whole(UserMem(req), "buf")) = req.n
    BY <1>2, <1>4, Lengths DEF U8, IsRequest, OneObject, ByReference, IsEpoll, Vectored
  <2>2. Mirrors(c, g)
    BY <1>2, <1>3, <1>4, <1>7, <1>8, <2>1, Lengths DEF Mirrors, Arguments, Vectored, IsEpoll, Reads, Counting, Roles
  <2> QED
    BY <1>6, <2>2
<1>10. Collects(c, Handle(req).option)
  BY <1>2, <1>3, <1>4, <1>6, <1>7, <1>8 DEF Collects, Has, Counting, Vectored
<1>11. \A r \in Roles \cap Convention(c.num) : Absent(r) <=> ~Has(c, r)
  BY <1>2, <1>3, <1>4, <1>6, <1>8 DEF Has, Absent, Roles
<1>12. Shape(c, Handle(req).option)
  BY <1>3, <1>6, <1>7, <1>9, <1>10, <1>11 DEF Shape
<1>13. ASSUME NEW b \in Backends PROVE Suits(c, Arms(b)["write"])
  <2>1. Arms(b)["write"] = <<Word(1), Bytes(2, 3), Word(3)>>
    BY ArmsOf, SyscallArmOf DEF SyscallNames, SyscallArmsToWrite
  <2>2. PICK specs : specs = Arms(b)["write"] /\ DOMAIN specs = 1..3
                    /\ specs[1] = Word(1) /\ specs[2] = Bytes(2, 3) /\ specs[3] = Word(3)
    BY <2>1
  <2>3. Matches(c, specs[1], "reg", 1)
    BY <1>3, <2>2 DEF Matches, Word
  <2>4. Matches(c, specs[2], "buf", 2)
    BY <1>2, <1>3, <1>4, <1>6, <2>2 DEF Matches, PointsTo, Counts, NullAt, Has, OffAt, CountAt, Roles, Bytes, Pointer
  <2>5. Matches(c, specs[3], "#buf", 3)
    BY <1>2, <1>3, <1>4, <1>6, <2>2 DEF Matches, Has, OffAt, CountAt, Roles, Word
  <2>6. \A p \in 1..3 : Matches(c, specs[p], Abi["write"][p], p)
    <3>1. \A p \in 1..3 : p = 1 \/ p = 2 \/ p = 3
      OBVIOUS
    <3> QED
      BY <1>7, <2>3, <2>4, <2>5, <3>1
  <2> QED
    BY <1>3, <1>7, <2>2, <2>6 DEF Suits, Words6
<1> QED
  BY <1>1, <1>3, <1>12, <1>13 DEF Framed

LEMMA WritevFramed ==
    ASSUME WritevStaged, IsRequest(req)
    PROVE  Framed(Item, Handle(req).option)
<1> DEFINE g == ShrinkToFit(Region("gather", "buf", req.n + req.n2, U8))
<1>1. PICK c : c = Item /\ c = Writev(req)
  BY DEF WritevStaged, OrAttacked, Staged, Item
<1>2. Handle(req).option = TRUE /\ req.call = "writev" /\ ("buf" \notin req.null /\ "buf2" \notin req.null)
  BY DEF WritevStaged, OrAttacked, Staged
<1>3. /\ c.num = "write" /\ c.regions = <<g>> /\ c.collect = "count"
      /\ c.argv = <<Arg(1), Off("buf"), Count("buf")>>
  BY <1>1, <1>2 DEF Writev, Call
<1>4. g.role = "buf" /\ g.dir = "gather" /\ g.n = req.n + req.n2 /\ g.max = TRUE /\ g.layout = U8
  BY DEF Region, ShrinkToFit
<1> HIDE DEF g
<1>5. IsRegion(g)
  <2>1. req.n + req.n2 \in Nat
    BY Lengths
  <2> QED
    BY <1>4, <2>1 DEF IsRegion, Roles
<1>6. IsRegions(c.regions) /\ RegionsOf(c) = {g}
  BY <1>3, <1>4, <1>5, OneRegion
<1>7. "write" \in DOMAIN Abi /\ Abi["write"] = <<"reg", "buf", "#buf">>
  BY DEF Abi
<1>8. Convention("write") = {"reg", "buf", "#buf"}
  BY <1>7 DEF Convention
<1>9. \A x \in RegionsOf(c) : Mirrors(c, x)
  <2>1. g.layout.size = 1 /\ Len(Whole(UserMem(req), "buf")) = req.n + req.n2
    BY <1>2, <1>4, Lengths DEF U8, IsRequest, OneObject, ByReference, IsEpoll, Vectored
  <2>2. Mirrors(c, g)
    BY <1>2, <1>3, <1>4, <1>7, <1>8, <2>1, Lengths DEF Mirrors, Arguments, Vectored, IsEpoll, Reads, Counting, Roles
  <2> QED
    BY <1>6, <2>2
<1>10. Collects(c, Handle(req).option)
  BY <1>2, <1>3, <1>4, <1>6, <1>7, <1>8 DEF Collects, Has, Counting, Vectored
<1>11. \A r \in Roles \cap Convention(c.num) : Absent(r) <=> ~Has(c, r)
  BY <1>2, <1>3, <1>4, <1>6, <1>8 DEF Has, Absent, Roles
<1>12. Shape(c, Handle(req).option)
  BY <1>3, <1>6, <1>7, <1>9, <1>10, <1>11 DEF Shape
<1>13. ASSUME NEW b \in Backends PROVE Suits(c, Arms(b)["write"])
  <2>1. Arms(b)["write"] = <<Word(1), Bytes(2, 3), Word(3)>>
    BY ArmsOf, SyscallArmOf DEF SyscallNames, SyscallArmsToWrite
  <2>2. PICK specs : specs = Arms(b)["write"] /\ DOMAIN specs = 1..3
                    /\ specs[1] = Word(1) /\ specs[2] = Bytes(2, 3) /\ specs[3] = Word(3)
    BY <2>1
  <2>3. Matches(c, specs[1], "reg", 1)
    BY <1>3, <2>2 DEF Matches, Word
  <2>4. Matches(c, specs[2], "buf", 2)
    BY <1>2, <1>3, <1>4, <1>6, <2>2 DEF Matches, PointsTo, Counts, NullAt, Has, OffAt, CountAt, Roles, Bytes, Pointer
  <2>5. Matches(c, specs[3], "#buf", 3)
    BY <1>2, <1>3, <1>4, <1>6, <2>2 DEF Matches, Has, OffAt, CountAt, Roles, Word
  <2>6. \A p \in 1..3 : Matches(c, specs[p], Abi["write"][p], p)
    <3>1. \A p \in 1..3 : p = 1 \/ p = 2 \/ p = 3
      OBVIOUS
    <3> QED
      BY <1>7, <2>3, <2>4, <2>5, <3>1
  <2> QED
    BY <1>3, <1>7, <2>2, <2>6 DEF Suits, Words6
<1> QED
  BY <1>1, <1>3, <1>12, <1>13 DEF Framed

LEMMA WriteAllFramed ==
    ASSUME WriteAllStaged, IsRequest(req)
    PROVE  Framed(Item, Handle(req).option)
<1> DEFINE g == ShrinkToFit(Region("in", "buf", req.n, U8))
<1>1. PICK c : c = Item /\ c = WriteAll(req)
  BY DEF WriteAllStaged, OrAttacked, Staged, Item
<1>2. Handle(req).option = TRUE /\ req.call = "gdb_write_all"
  BY DEF WriteAllStaged, OrAttacked, Staged
<1>3. /\ c.num = "gdb_write_all" /\ c.regions = <<g>> /\ c.collect = "count"
      /\ c.argv = <<Off("buf"), Count("buf")>>
  BY <1>1, <1>2 DEF WriteAll, Call
<1>4. g.role = "buf" /\ g.dir = "in" /\ g.n = req.n /\ g.max = TRUE /\ g.layout = U8
  BY DEF Region, ShrinkToFit
<1> HIDE DEF g
<1>5. IsRegion(g)
  BY <1>4, Lengths DEF IsRegion, Roles
<1>6. IsRegions(c.regions) /\ RegionsOf(c) = {g}
  BY <1>3, <1>4, <1>5, OneRegion
<1>7. "gdb_write_all" \in DOMAIN Abi /\ Abi["gdb_write_all"] = <<"buf", "#buf">>
  BY DEF Abi
<1>8. Convention("gdb_write_all") = {"buf", "#buf"}
  BY <1>7 DEF Convention
<1>9. \A x \in RegionsOf(c) : Mirrors(c, x)
  <2>1. g.layout.size = 1 /\ Len(Whole(UserMem(req), "buf")) = req.n
    BY <1>2, <1>4, Lengths DEF U8, IsRequest, OneObject, ByReference, IsEpoll, Vectored
  <2>2. Mirrors(c, g)
    BY <1>2, <1>3, <1>4, <1>7, <1>8, <2>1, Lengths DEF Mirrors, Arguments, Vectored, IsEpoll, Reads, Counting, Roles
  <2> QED
    BY <1>6, <2>2
<1>10. Collects(c, Handle(req).option)
  BY <1>2, <1>3, <1>4, <1>6, <1>7, <1>8 DEF Collects, Has, Counting, Vectored
<1>11. \A r \in Roles \cap Convention(c.num) : Absent(r) <=> ~Has(c, r)
  BY <1>2, <1>3, <1>4, <1>6, <1>8 DEF Has, Absent, Roles, IsRequest, ByReference
<1>12. Shape(c, Handle(req).option)
  BY <1>3, <1>6, <1>7, <1>9, <1>10, <1>11 DEF Shape
<1>13. ASSUME NEW b \in Backends PROVE Suits(c, Arms(b)["gdb_write_all"])
  <2>1. Arms(b)["gdb_write_all"] = <<Bytes(1, 2), Word(2)>>
    BY ArmsOf DEF GdbNames, GdbArms
  <2>2. PICK specs : specs = Arms(b)["gdb_write_all"] /\ DOMAIN specs = 1..2
                    /\ specs[1] = Bytes(1, 2) /\ specs[2] = Word(2)
    BY <2>1
  <2>3. Matches(c, specs[1], "buf", 1)
    BY <1>2, <1>3, <1>4, <1>6, <2>2 DEF Matches, PointsTo, Counts, NullAt, Has, OffAt, CountAt, Roles, Bytes, Pointer
  <2>4. Matches(c, specs[2], "#buf", 2)
    BY <1>2, <1>3, <1>4, <1>6, <2>2 DEF Matches, Has, OffAt, CountAt, Roles, Word
  <2>5. \A p \in 1..2 : Matches(c, specs[p], Abi["gdb_write_all"][p], p)
    <3>1. \A p \in 1..2 : p = 1 \/ p = 2
      OBVIOUS
    <3> QED
      BY <1>7, <2>3, <2>4, <3>1
  <2> QED
    BY <1>3, <1>7, <2>2, <2>5 DEF Suits, Words6
<1> QED
  BY <1>1, <1>3, <1>12, <1>13 DEF Framed

LEMMA CpuidFramed ==
    ASSUME CpuidStaged, IsRequest(req)
    PROVE  Framed(Item, Handle(req).option)
<1> DEFINE g == Region("out", "buf", 1, Obj)
<1>1. PICK c : c = Item /\ c = Cpuid(req)
  BY DEF CpuidStaged, Execute, Staged, Item
<1>2. Handle(req).option = FALSE /\ req.call = "cpuid"
  BY DEF CpuidStaged, Execute, Staged
<1>3. /\ c.num = "cpuid" /\ c.regions = <<g>> /\ c.collect = "ok"
      /\ c.argv = <<Arg(1), Arg(2), Off("buf")>>
  BY <1>1, <1>2 DEF Cpuid, Call
<1>4. g.role = "buf" /\ g.dir = "out" /\ g.n = 1 /\ g.max = FALSE /\ g.layout = Obj
  BY DEF Region
<1> HIDE DEF g
<1>5. IsRegion(g)
  <2>1. g.n \in Nat
    BY <1>4
  <2>2. g.role \in Roles /\ g.max \in BOOLEAN /\ ~g.max /\ g.layout = Obj
    BY <1>4 DEF Roles
  <2> QED
    BY <2>1, <2>2 DEF IsRegion
<1>6. IsRegions(c.regions) /\ RegionsOf(c) = {g}
  BY <1>3, <1>4, <1>5, OneRegion
<1>7. "cpuid" \in DOMAIN Abi /\ Abi["cpuid"] = <<"reg", "reg", "buf">>
  BY DEF Abi
<1>8. Convention("cpuid") = {"reg", "buf"}
  BY <1>7 DEF Convention
<1>9. \A x \in RegionsOf(c) : Mirrors(c, x)
  <2>1. g.layout.size = 1 /\ Len(Whole(UserMem(req), "buf")) = 1
    <3>1. Len(Whole(UserMem(req), "buf")) = req.n
      BY <1>2, Lengths DEF IsEpoll, Vectored, IsRequest, ByReference
    <3>2. req.n = 1
      BY <1>2 DEF IsRequest, OneObject
    <3> QED
      BY <1>4, <3>1, <3>2 DEF Obj
  <2>2. Mirrors(c, g)
    BY <1>2, <1>3, <1>4, <1>7, <1>8, <2>1, Lengths DEF Mirrors, Arguments, Vectored, IsEpoll, Reads, Counting, Roles
  <2> QED
    BY <1>6, <2>2
<1>10. Collects(c, Handle(req).option)
  BY <1>2, <1>3, <1>4, <1>6, <1>7, <1>8 DEF Collects, Has, Counting, Vectored
<1>11. \A r \in Roles \cap Convention(c.num) : Absent(r) <=> ~Has(c, r)
  BY <1>2, <1>3, <1>4, <1>6, <1>8 DEF Has, Absent, Roles, IsRequest, ByReference
<1>12. Shape(c, Handle(req).option)
  BY <1>3, <1>6, <1>7, <1>9, <1>10, <1>11 DEF Shape
<1>13. ASSUME NEW b \in Backends PROVE Suits(c, Arms(b)["cpuid"])
  <2>1. Arms(b)["cpuid"] = <<Word(1), Word(2), Aligned(3, Obj)>>
    BY ArmsOf DEF HostEnarxArms
  <2>2. PICK specs : specs = Arms(b)["cpuid"] /\ DOMAIN specs = 1..3
                    /\ specs[1] = Word(1) /\ specs[2] = Word(2) /\ specs[3] = Aligned(3, Obj)
    BY <2>1
  <2>3. Matches(c, specs[1], "reg", 1)
    BY <1>3, <2>2 DEF Matches, Word
  <2>4. Matches(c, specs[2], "reg", 2)
    BY <1>3, <2>2 DEF Matches, Word
  <2>5. Matches(c, specs[3], "buf", 3)
    BY <1>2, <1>3, <1>4, <1>6, <2>2 DEF Matches, PointsTo, Counts, NullAt, Has, OffAt, CountAt, Roles, Aligned, Pointer
  <2>6. \A p \in 1..3 : Matches(c, specs[p], Abi["cpuid"][p], p)
    <3>1. \A p \in 1..3 : p = 1 \/ p = 2 \/ p = 3
      OBVIOUS
    <3> QED
      BY <1>7, <2>3, <2>4, <2>5, <3>1
  <2> QED
    BY <1>3, <1>7, <2>2, <2>6 DEF Suits, Words6
<1> QED
  BY <1>1, <1>3, <1>12, <1>13 DEF Framed

LEMMA QuoteFramed ==
    ASSUME QuoteStaged, IsRequest(req)
    PROVE  Framed(Item, Handle(req).option)
<1> DEFINE g == Region("in", "buf2", req.n2, U8)
           h == Region("out", "buf", req.n, U8)
<1>1. PICK c : c = Item /\ c = GetSgxQuote(req)
  BY DEF QuoteStaged, OrAttacked, Staged, Item
<1>2. Handle(req).option = TRUE /\ req.call = "get_sgx_quote"
  BY DEF QuoteStaged, OrAttacked, Staged
<1>3. /\ c.num = "get_sgx_quote" /\ c.regions = <<g, h>> /\ c.collect = "prefix"
      /\ c.argv = <<Off("buf2"), Off("buf"), Count("buf")>>
  BY <1>1, <1>2 DEF GetSgxQuote, Call
<1>4. g.role = "buf2" /\ g.dir = "in" /\ g.n = req.n2 /\ g.max = FALSE /\ g.layout = U8
  BY DEF Region
<1>5. h.role = "buf" /\ h.dir = "out" /\ h.n = req.n /\ h.max = FALSE /\ h.layout = U8
  BY DEF Region
<1> HIDE DEF g, h
<1>6. IsRegion(g)
  BY <1>4, Lengths DEF IsRegion, Roles
<1>7. IsRegion(h)
  BY <1>5, Lengths DEF IsRegion, Roles
<1>8. IsRegions(c.regions) /\ RegionsOf(c) = {g, h}
  BY <1>3, <1>4, <1>5, <1>6, <1>7, TwoRegions
<1>9. "get_sgx_quote" \in DOMAIN Abi /\ Abi["get_sgx_quote"] = <<"buf2", "buf", "#buf">>
  BY DEF Abi
<1>10. Convention("get_sgx_quote") = {"buf2", "buf", "#buf"}
  BY <1>9 DEF Convention
<1>11. \A x \in RegionsOf(c) : Mirrors(c, x)
  <2>1. g.layout.size = 1 /\ Len(Whole(UserMem(req), "buf2")) = req.n2
    BY <1>2, <1>4, Lengths DEF U8, IsRequest, OneObject, ByReference, IsEpoll, Vectored
  <2>2. Mirrors(c, g)
    BY <1>2, <1>3, <1>4, <1>9, <1>10, <2>1, Lengths DEF Mirrors, Arguments, Vectored, IsEpoll, Reads, Counting, Roles
  <2>3. h.layout.size = 1 /\ Len(Whole(UserMem(req), "buf")) = req.n
    BY <1>2, <1>5, Lengths DEF U8, IsRequest, OneObject, ByReference, IsEpoll, Vectored
  <2>4. Mirrors(c, h)
    BY <1>2, <1>3, <1>5, <1>9, <1>10, <2>3, Lengths DEF Mirrors, Arguments, Vectored, IsEpoll, Reads, Counting, Roles
  <2> QED
    BY <1>8, <2>2, <2>4
<1>12. Collects(c, Handle(req).option)
  BY <1>2, <1>3, <1>4, <1>5, <1>8, <1>9, <1>10 DEF Collects, Has, Counting, Vectored
<1>13. \A r \in Roles \cap Convention(c.num) : Absent(r) <=> ~Has(c, r)
  BY <1>2, <1>3, <1>4, <1>5, <1>8, <1>10 DEF Has, Absent, Roles, IsRequest, ByReference
<1>14. Shape(c, Handle(req).option)
  BY <1>3, <1>8, <1>9, <1>11, <1>12, <1>13 DEF Shape
<1>15. ASSUME NEW b \in Backends, "get_sgx_quote" \in DOMAIN Arms(b) PROVE Suits(c, Arms(b)["get_sgx_quote"])
  <2>1. Arms(b)["get_sgx_quote"] = <<Pointer(1, [k |-> "num", v |-> ReportSize], U8), Bytes(2, 3), Word(3)>>
    BY <1>15, QuoteArms
  <2>2. PICK specs : specs = Arms(b)["get_sgx_quote"] /\ DOMAIN specs = 1..3
                    /\ specs[1] = Pointer(1, [k |-> "num", v |-> ReportSize], U8) /\ specs[2] = Bytes(2, 3) /\ specs[3] = Word(3)
    BY <2>1
  <2>3. Matches(c, specs[1], "buf2", 1)
    BY <1>2, <1>3, <1>4, <1>5, <1>8, <2>2 DEF Matches, PointsTo, Counts, NullAt, Has, OffAt, CountAt, Roles, Pointer, IsRequest
  <2>4. Matches(c, specs[2], "buf", 2)
    BY <1>2, <1>3, <1>4, <1>5, <1>8, <2>2 DEF Matches, PointsTo, Counts, NullAt, Has, OffAt, CountAt, Roles, Bytes, Pointer, IsRequest
  <2>5. Matches(c, specs[3], "#buf", 3)
    BY <1>2, <1>3, <1>4, <1>5, <1>8, <2>2 DEF Matches, Has, OffAt, CountAt, Roles, Word, IsRequest
  <2>6. \A p \in 1..3 : Matches(c, specs[p], Abi["get_sgx_quote"][p], p)
    <3>1. \A p \in 1..3 : p = 1 \/ p = 2 \/ p = 3
      OBVIOUS
    <3> QED
      BY <1>9, <2>3, <2>4, <2>5, <3>1
  <2> QED
    BY <1>3, <1>9, <2>2, <2>6 DEF Suits, Words6
<1> QED
  BY <1>1, <1>3, <1>14, <1>15 DEF Framed

LEMMA TargetInfoFramed ==
    ASSUME TargetInfoStaged, IsRequest(req)
    PROVE  Framed(Item, Handle(req).option)
<1> DEFINE g == Region("out", "buf", req.n, U8)
<1>1. PICK c : c = Item /\ c = GetSgxTargetInfo(req)
  BY DEF TargetInfoStaged, Execute, Staged, Item
<1>2. Handle(req).option = FALSE /\ req.call = "get_sgx_target_info"
  BY DEF TargetInfoStaged, Execute, Staged
<1>3. /\ c.num = "get_sgx_target_info" /\ c.regions = <<g>> /\ c.collect = "ok"
      /\ c.argv = <<Off("buf")>>
  BY <1>1, <1>2 DEF GetSgxTargetInfo, Call
<1>4. g.role = "buf" /\ g.dir = "out" /\ g.n = req.n /\ g.max = FALSE /\ g.layout = U8
  BY DEF Region
<1> HIDE DEF g
<1>5. IsRegion(g)
  BY <1>4, Lengths DEF IsRegion, Roles
<1>6. IsRegions(c.regions) /\ RegionsOf(c) = {g}
  BY <1>3, <1>4, <1>5, OneRegion
<1>7. "get_sgx_target_info" \in DOMAIN Abi /\ Abi["get_sgx_target_info"] = <<"buf">>
  BY DEF Abi
<1>8. Convention("get_sgx_target_info") = {"buf"}
  BY <1>7 DEF Convention
<1>9. \A x \in RegionsOf(c) : Mirrors(c, x)
  <2>1. g.layout.size = 1 /\ Len(Whole(UserMem(req), "buf")) = req.n
    BY <1>2, <1>4, Lengths DEF U8, IsRequest, OneObject, ByReference, IsEpoll, Vectored
  <2>2. Mirrors(c, g)
    BY <1>2, <1>3, <1>4, <1>7, <1>8, <2>1, Lengths DEF Mirrors, Arguments, Vectored, IsEpoll, Reads, Counting, Roles
  <2> QED
    BY <1>6, <2>2
<1>10. Collects(c, Handle(req).option)
  BY <1>2, <1>3, <1>4, <1>6, <1>7, <1>8 DEF Collects, Has, Counting, Vectored
<1>11. \A r \in Roles \cap Convention(c.num) : Absent(r) <=> ~Has(c, r)
  BY <1>2, <1>3, <1>4, <1>6, <1>8 DEF Has, Absent, Roles, IsRequest, ByReference
<1>12. Shape(c, Handle(req).option)
  BY <1>3, <1>6, <1>7, <1>9, <1>10, <1>11 DEF Shape
<1>13. ASSUME NEW b \in Backends, "get_sgx_target_info" \in DOMAIN Arms(b) PROVE Suits(c, Arms(b)["get_sgx_target_info"])
  <2>1. Arms(b)["get_sgx_target_info"] = <<Pointer(1, [k |-> "num", v |-> TargetInfoSize], U8)>>
    BY <1>13, QuoteArms
  <2>2. PICK specs : specs = Arms(b)["get_sgx_target_info"] /\ DOMAIN specs = 1..1
                    /\ specs[1] = Pointer(1, [k |-> "num", v |-> TargetInfoSize], U8)
    BY <2>1
  <2>3. Matches(c, specs[1], "buf", 1)
    BY <1>2, <1>3, <1>4, <1>6, <2>2 DEF Matches, PointsTo, Counts, NullAt, Has, OffAt, CountAt, Roles, Pointer, IsRequest
  <2>4. \A p \in 1..1 : Matches(c, specs[p], Abi["get_sgx_target_info"][p], p)
    <3>1. \A p \in 1..1 : p = 1
      OBVIOUS
    <3> QED
      BY <1>7, <2>3, <3>1
  <2> QED
    BY <1>3, <1>7, <2>2, <2>4 DEF Suits, Words6
<1> QED
  BY <1>1, <1>3, <1>12, <1>13 DEF Framed

LEMMA VcekFramed ==
    ASSUME VcekStaged, IsRequest(req)
    PROVE  Framed(Item, Handle(req).option)
<1> DEFINE g == Region("out", "buf", req.n, U8)
<1>1. PICK c : c = Item /\ c = GetSnpVcek(req)
  BY DEF VcekStaged, OrAttacked, Staged, Item
<1>2. Handle(req).option = TRUE /\ req.call = "get_snp_vcek"
  BY DEF VcekStaged, OrAttacked, Staged
<1>3. /\ c.num = "get_snp_vcek" /\ c.regions = <<g>> /\ c.collect = "prefix"
      /\ c.argv = <<Off("buf"), Count("buf")>>
  BY <1>1, <1>2 DEF GetSnpVcek, Call
<1>4. g.role = "buf" /\ g.dir = "out" /\ g.n = req.n /\ g.max = FALSE /\ g.layout = U8
  BY DEF Region
<1> HIDE DEF g
<1>5. IsRegion(g)
  BY <1>4, Lengths DEF IsRegion, Roles
<1>6. IsRegions(c.regions) /\ RegionsOf(c) = {g}
  BY <1>3, <1>4, <1>5, OneRegion
<1>7. "get_snp_vcek" \in DOMAIN Abi /\ Abi["get_snp_vcek"] = <<"buf", "#buf">>
  BY DEF Abi
<1>8. Convention("get_snp_vcek") = {"buf", "#buf"}
  BY <1>7 DEF Convention
<1>9. \A x \in RegionsOf(c) : Mirrors(c, x)
  <2>1. g.layout.size = 1 /\ Len(Whole(UserMem(req), "buf")) = req.n
    BY <1>2, <1>4, Lengths DEF U8, IsRequest, OneObject, ByReference, IsEpoll, Vectored
  <2>2. Mirrors(c, g)
    BY <1>2, <1>3, <1>4, <1>7, <1>8, <2>1, Lengths DEF Mirrors, Arguments, Vectored, IsEpoll, Reads, Counting, Roles
  <2> QED
    BY <1>6, <2>2
<1>10. Collects(c, Handle(req).option)
  BY <1>2, <1>3, <1>4, <1>6, <1>7, <1>8 DEF Collects, Has, Counting, Vectored
<1>11. \A r \in Roles \cap Convention(c.num) : Absent(r) <=> ~Has(c, r)
  BY <1>2, <1>3, <1>4, <1>6, <1>8 DEF Has, Absent, Roles, IsRequest, ByReference
<1>12. Shape(c, Handle(req).option)
  BY <1>3, <1>6, <1>7, <1>9, <1>10, <1>11 DEF Shape
<1>13. ASSUME NEW b \in Backends, "get_snp_vcek" \in DOMAIN Arms(b) PROVE Suits(c, Arms(b)["get_snp_vcek"])
  <2>1. Arms(b)["get_snp_vcek"] = <<Bytes(1, 2), Word(2)>>
    BY <1>13, QuoteArms
  <2>2. PICK specs : specs = Arms(b)["get_snp_vcek"] /\ DOMAIN specs = 1..2
                    /\ specs[1] = Bytes(1, 2) /\ specs[2] = Word(2)
    BY <2>1
  <2>3. Matches(c, specs[1], "buf", 1)
    BY <1>2, <1>3, <1>4, <1>6, <2>2 DEF Matches, PointsTo, Counts, NullAt, Has, OffAt, CountAt, Roles, Bytes, Pointer
  <2>4. Matches(c, specs[2], "#buf", 2)
    BY <1>2, <1>3, <1>4, <1>6, <2>2 DEF Matches, Has, OffAt, CountAt, Roles, Word
  <2>5. \A p \in 1..2 : Matches(c, specs[p], Abi["get_snp_vcek"][p], p)
    <3>1. \A p \in 1..2 : p = 1 \/ p = 2
      OBVIOUS
    <3> QED
      BY <1>7, <2>3, <2>4, <3>1
  <2> QED
    BY <1>3, <1>7, <2>2, <2>5 DEF Suits, Words6
<1> QED
  BY <1>1, <1>3, <1>12, <1>13 DEF Framed

(* Calls that carry registers only.                                        *)

OnlyWords(specs) == \A p \in DOMAIN specs : specs[p].k = "word"

\* Calls that carry registers only.
LEMMA WordsOnly == ASSUME NEW n \in Nat PROVE OnlyWords(Words(n)) /\ OnlyWords(<<>>)
<1>1. OnlyWords(Words(n))
  BY DEF OnlyWords, Words, Word
<1>2. OnlyWords(<<>>)
  <2>1. \A p \in DOMAIN <<>> : FALSE
    OBVIOUS
  <2> QED
    BY <2>1 DEF OnlyWords
<1> QED
  BY <1>1, <1>2

LEMMA RegistersFramed ==
    ASSUME NEW c, NEW option, c = Item, c.regions = <<>>, c.collect = "none", c.num \notin DOMAIN Abi, Words6(c),
           req.call \notin {"readv", "writev"},
           \A b \in Backends : c.num \in DOMAIN Arms(b) => OnlyWords(Arms(b)[c.num])
    PROVE  Framed(c, option)
<1>1. IsRegions(c.regions) /\ RegionsOf(c) = {}
  BY NoRegions
<1>2. Collects(c, option)
  BY <1>1 DEF Collects, Counting, Has
<1>3. Shape(c, option)
  BY <1>1, <1>2 DEF Shape
<1> QED
  BY <1>3 DEF Framed, Suits, OnlyWords

LEMMA RegisterArms ==
    ASSUME NEW b \in Backends, NEW num \in DOMAIN PassthroughArgs \cup {"fcntl"}
    PROVE  OnlyWords(Arms(b)[num])
<1>1. num \in {"close", "dup", "dup2", "dup3", "epoll_create1", "eventfd2", "exit", "exit_group",
               "listen", "socket", "sync", "fcntl"}
  BY DEF PassthroughArgs
<1>2. Arms(b)[num] = SyscallArms[num]
  BY <1>1, ArmsOf DEF SyscallNames
<1>3. /\ SyscallArms["close"] = Words(1) /\ SyscallArms["dup"] = Words(1)
      /\ SyscallArms["dup2"] = Words(2) /\ SyscallArms["dup3"] = Words(3)
      /\ SyscallArms["epoll_create1"] = Words(1) /\ SyscallArms["eventfd2"] = Words(2)
      /\ SyscallArms["exit"] = Words(1) /\ SyscallArms["exit_group"] = Words(1)
      /\ SyscallArms["fcntl"] = Words(3) /\ SyscallArms["listen"] = Words(2)
      /\ SyscallArms["socket"] = Words(3) /\ SyscallArms["sync"] = <<>>
  BY SyscallArmOf DEF SyscallArmsToDup, SyscallArmsToFcntl, SyscallArmsToPoll, SyscallArmsToWrite
<1>4. OnlyWords(Words(1)) /\ OnlyWords(Words(2)) /\ OnlyWords(Words(3)) /\ OnlyWords(<<>>)
  BY WordsOnly
<1> QED
  BY <1>1, <1>2, <1>3, <1>4

LEMMA PassthroughFramed ==
    ASSUME PassthroughStaged \/ ExitStaged, IsRequest(req)
    PROVE  Framed(Item, Handle(req).option)
<1>1. PICK c : c = Item /\ c = Passthrough(req)
  BY DEF PassthroughStaged, ExitStaged, Execute, OrAttacked, Staged, Item
<1>2. req.call \in DOMAIN PassthroughArgs
  BY DEF PassthroughStaged, ExitStaged, PassthroughArgs
<1>3. PICK n \in 0..3 : n = PassthroughArgs[req.call]
  BY <1>2 DEF PassthroughArgs
<1>4. /\ c.num = req.call /\ c.regions = <<>> /\ c.collect = "none"
      /\ c.argv = [i \in 1..n |-> Arg(i)]
  BY <1>1, <1>3 DEF Passthrough, Call
<1>5. Words6(c)
  BY <1>4 DEF Words6
<1>6. req.call \notin DOMAIN Abi /\ req.call \notin {"readv", "writev"}
  BY <1>2 DEF PassthroughArgs, Abi
<1>7. \A b \in Backends : OnlyWords(Arms(b)[c.num])
  BY <1>2, <1>4, RegisterArms
<1> QED
  BY <1>1, <1>4, <1>5, <1>6, <1>7, RegistersFramed

LEMMA FcntlFramed == ASSUME FcntlStaged, IsRequest(req) PROVE Framed(Item, Handle(req).option)
<1>1. PICK c : c = Item /\ c = AllocFcntl(req)
  BY DEF FcntlStaged, Execute, Staged, Item
<1>2. /\ c.num = "fcntl" /\ c.regions = <<>> /\ c.collect = "none"
      /\ c.argv = <<Arg(1), Arg(2), Arg(3)>> /\ req.call = "fcntl"
  BY <1>1 DEF AllocFcntl, Call, FcntlStaged
<1>3. Words6(c) /\ "fcntl" \notin DOMAIN Abi
  BY <1>2 DEF Words6, Abi
<1>4. \A b \in Backends : OnlyWords(Arms(b)[c.num])
  BY <1>2, RegisterArms
<1> QED
  BY <1>1, <1>2, <1>3, <1>4, RegistersFramed

LEMMA EnarxFramed == ASSUME EnarxStaged, IsRequest(req) PROVE Framed(Item, Handle(req).option)
<1>1. PICK c : c = Item /\ c = EnarxPassthrough(req)
  BY DEF EnarxStaged, Execute, Staged, Item
<1>2. req.call \in DOMAIN EnarxPassthroughArgs
  BY DEF EnarxStaged
<1>3. PICK n \in 0..3 : n = EnarxPassthroughArgs[req.call]
  BY <1>2 DEF EnarxPassthroughArgs
<1>4. /\ c.num = req.call /\ c.regions = <<>> /\ c.collect = "none"
      /\ c.argv = [i \in 1..n |-> Arg(i)]
  BY <1>1, <1>3 DEF EnarxPassthrough, Call
<1>5. Words6(c)
  BY <1>4 DEF Words6
<1>6. req.call \notin DOMAIN Abi /\ req.call \notin {"readv", "writev"}
  BY <1>2 DEF EnarxPassthroughArgs, Abi
<1>7. ASSUME NEW b \in Backends, c.num \in DOMAIN Arms(b) PROVE OnlyWords(Arms(b)[c.num])
  <2>1. c.num \in {"balloon_memory", "get_sgx_quote_size", "mem_info", "mmap_host", "mprotect_host",
                   "munmap_host", "trim_sgx_pages"}
    BY <1>2, <1>4 DEF EnarxPassthroughArgs
  <2>2. c.num \in DOMAIN BackendArms(b) /\ Arms(b)[c.num] = BackendArms(b)[c.num]
    <3>1. c.num \notin SyscallNames \cup GdbNames \cup {"cpuid"}
      BY <2>1 DEF SyscallNames, GdbNames
    <3> QED
      BY <1>7, <3>1, ArmsOf
  <2>3. DOMAIN SgxMemoryArms = {"mmap_host", "mprotect_host", "munmap_host", "trim_sgx_pages"}
        /\ \A x \in DOMAIN SgxMemoryArms : SgxMemoryArms[x] \in {Words(2), Words(3)}
    BY DEF SgxMemoryArms
  <2>4. DOMAIN SgxEnarxArms = {"cpuid", "get_sgx_target_info", "get_sgx_quote", "get_sgx_quote_size"}
        /\ SgxEnarxArms["get_sgx_quote_size"] = <<>>
    BY DEF SgxEnarxArms
  <2>5. DOMAIN KvmEnarxArms = {"mem_info", "balloon_memory"} /\ DOMAIN SnpEnarxArms = {"get_snp_vcek"}
        /\ KvmEnarxArms["mem_info"] = <<>> /\ KvmEnarxArms["balloon_memory"] = Words(3)
    BY DEF KvmEnarxArms, SnpEnarxArms
  <2>6. OnlyWords(Words(2)) /\ OnlyWords(Words(3)) /\ OnlyWords(<<>>)
    BY WordsOnly
  <2>7. b \in {"sgx", "kvm", "snp"}
    BY ProxyAssumption DEF ProxyAssumption
  <2>8. CASE b = "sgx"
    <3>1. BackendArms(b) = Joined(SgxEnarxArms, SgxMemoryArms)
      BY <2>8 DEF BackendArms
    <3>2. BackendArms(b)[c.num] \in {Words(2), Words(3), <<>>}
      BY <2>1, <2>2, <2>3, <2>4, <3>1 DEF Joined
    <3> QED
      BY <2>2, <2>6, <3>2
  <2>9. CASE b = "kvm"
    <3>1. BackendArms(b) = KvmEnarxArms
      BY <2>9 DEF BackendArms
    <3> QED
      BY <2>2, <2>5, <2>6, <3>1
  <2>10. CASE b = "snp"
    <3>1. BackendArms(b) = Joined(KvmEnarxArms, SnpEnarxArms)
      BY <2>10 DEF BackendArms
    <3>2. BackendArms(b)[c.num] \in {Words(3), <<>>}
      BY <2>1, <2>2, <2>5, <3>1 DEF Joined
    <3> QED
      BY <2>2, <2>6, <3>2
  <2> QED
    BY <2>7, <2>8, <2>9, <2>10
<1> QED
  BY <1>1, <1>4, <1>5, <1>6, <1>7, RegistersFramed

LEMMA GdbFramed == ASSUME GdbStaged, IsRequest(req) PROVE Framed(Item, Handle(req).option)
<1>1. PICK c : c = Item /\ c = GdbPassthrough(req)
  BY DEF GdbStaged, Execute, Staged, Item
<1>2. req.call \in {"gdb_flush", "gdb_on_session_start", "gdb_peek", "gdb_read", "gdb_write"}
  BY DEF GdbStaged, GdbPassthroughRet
<1>3. /\ c.num = req.call /\ c.regions = <<>> /\ c.collect = "none"
      /\ c.argv = IF req.call = "gdb_write" THEN <<Arg(1)>> ELSE <<>>
  BY <1>1 DEF GdbPassthrough, Call
<1>4. Words6(c)
  <2>1. CASE req.call = "gdb_write"
    <3>1. c.argv = <<Arg(1)>>
      BY <1>3, <2>1
    <3> QED
      BY <3>1 DEF Words6
  <2>2. CASE req.call # "gdb_write"
    <3>1. c.argv = <<>>
      BY <1>3, <2>2
    <3> QED
      BY <3>1 DEF Words6
  <2> QED
    BY <2>1, <2>2
<1>5. /\ GdbArms["gdb_on_session_start"] = <<>> /\ GdbArms["gdb_flush"] = <<>> /\ GdbArms["gdb_peek"] = <<>>
      /\ GdbArms["gdb_read"] = <<>> /\ GdbArms["gdb_write"] = Words(1)
  BY DEF GdbArms
<1>6. \A b \in Backends : Arms(b)[c.num] = GdbArms[c.num]
  BY <1>2, <1>3, ArmsOf DEF GdbNames
<1>7. CASE req.call # "gdb_write"
  <2>1. req.call \notin DOMAIN Abi /\ req.call \notin {"readv", "writev"}
    BY <1>2, <1>7 DEF Abi
  <2>2. \A b \in Backends : OnlyWords(Arms(b)[c.num])
    BY <1>2, <1>3, <1>5, <1>6, <1>7, WordsOnly
  <2> QED
    BY <1>1, <1>3, <1>4, <2>1, <2>2, RegistersFramed
<1>8. CASE req.call = "gdb_write"
  <2>1. IsRegions(c.regions) /\ RegionsOf(c) = {}
    BY <1>3, NoRegions
  <2>2. Collects(c, Handle(req).option)
    BY <1>3, <1>8, <2>1 DEF Collects, Counting, Has
  <2>3. "gdb_write" \in DOMAIN Abi /\ Abi["gdb_write"] = <<"reg">>
    BY DEF Abi
  <2>4. Convention("gdb_write") = {"reg"}
    BY <2>3 DEF Convention
  <2>5. Shape(c, Handle(req).option)
    BY <1>3, <1>8, <2>1, <2>2, <2>4 DEF Shape, Roles
  <2>6. ASSUME NEW b \in Backends PROVE Suits(c, Arms(b)["gdb_write"])
    <3>1. PICK specs : specs = Arms(b)["gdb_write"] /\ specs = Words(1)
      BY <1>3, <1>5, <1>6, <1>8
    <3>2. DOMAIN specs = 1..1 /\ specs[1] = Word(1)
      BY <3>1 DEF Words
    <3>3. c.argv = <<Arg(1)>>
      BY <1>3, <1>8
    <3>4. Matches(c, specs[1], "reg", 1)
      BY <3>2, <3>3 DEF Matches, Word
    <3>5. \A p \in 1..1 : p = 1
      OBVIOUS
    <3>6. \A p \in DOMAIN specs : Matches(c, specs[p], Abi["gdb_write"][p], p)
      BY <2>3, <3>2, <3>4, <3>5
    <3> QED
      BY <1>3, <1>4, <1>8, <2>3, <3>1, <3>2, <3>6 DEF Suits
  <2> QED
    BY <1>1, <1>3, <1>8, <2>5, <2>6 DEF Framed
<1> QED
  BY <1>7, <1>8

\* Every staged call has the shape its host's arm and its kernel call ask for.
LEMMA ItemFramed ==
    ASSUME IsRequest(req), Handle(req).k = "stage"
    PROVE  Framed(Item, Handle(req).option)
BY WhatIsStaged, AcceptFramed, AcceptNullFramed, Accept4Framed, Accept4NullFramed, BindFramed,
   ClockGetresFramed, ClockGetresNullFramed, ClockGettimeFramed, ConnectFramed, EpollCtlFramed,
   EpollWaitFramed, EpollPwaitFramed, PassthroughFramed, FcntlFramed, GetsocknameFramed,
   IoctlFramed, IoctlNullFramed, NanosleepFramed, NanosleepNullFramed, OpenFramed, PollFramed,
   ReadFramed, ReadvFramed, RecvFramed, RecvfromFramed, SendFramed, SendtoFramed,
   SetsockoptFramed, SetsockoptNullFramed, WriteFramed, WritevFramed, WriteAllFramed, GdbFramed,
   CpuidFramed, QuoteFramed, TargetInfoFramed, VcekFramed, EnarxFramed

----------------------------------------------------------------------------
(* An item in the block.                                                   *)

Carried ==
    /\ IsRequest(req) /\ Handle(req).k = "stage"
    /\ backend \in Backends /\ cap \in Nat /\ cap < IntMax
    /\ Fits(Staging(Item, cap), cap)
    /\ DOMAIN data = 1..ItemSize(Staging(Item, cap)) /\ Len(data) = ItemSize(Staging(Item, cap))
    /\ mem = UserMem(req)

\* From staging to collecting the item is carried.
LEMMA CarriedIs ==
    ASSUME TypeOK, StagedInv, InBlock
    PROVE  Carried
<1>1. req \in Requests /\ cap \in Caps /\ backend \in Backends
  BY DEF TypeOK, InBlock
<1>2. IsRequest(req)
  BY <1>1, ProxyAssumption DEF ProxyAssumption
<1> QED
  BY <1>1, <1>2, Constants DEF Carried, StagedInv, InBlock

\* The item carried is shaped as its call.
LEMMA CarriedShape ==
    ASSUME Carried
    PROVE  /\ Shape(Item, Handle(req).option)
           /\ \A b \in Backends : Item.num \in DOMAIN Arms(b) => Suits(Item, Arms(b)[Item.num])
           /\ IsRequest(req) /\ backend \in Backends
BY ItemFramed DEF Carried, Framed

\* Where the regions of the item are.
LEMMA Placed ==
    ASSUME Carried
    PROVE  /\ Len(data) \in Nat /\ Len(data) <= cap
           /\ \A r \in Roles : r \in DOMAIN Place <=> Has(Item, r)
           /\ \A r \in DOMAIN Place : /\ r \in Roles /\ Place[r].region \in RegionsOf(Item)
                                      /\ Place[r].region.role = r
                                      /\ Settled(Place[r], Place[r].region, Len(data), cap)
           /\ \A r, s \in DOMAIN Place : r # s => Apart(Place[r], Place[s])
           /\ \A g \in RegionsOf(Item) : Place[g.role].region = g
<1>1. PICK c : c = Item
  OBVIOUS
<1>2. IsRegions(c.regions)
  BY <1>1, CarriedShape DEF Shape
<1>3. PICK place, size : /\ place = Place /\ size = Len(data)
                         /\ place = Staging(c, cap).place /\ size = ItemSize(Staging(c, cap))
  BY <1>1 DEF Place, Carried
<1>4. /\ size \in Nat /\ size <= cap
      /\ DOMAIN place = {c.regions[j].role : j \in 1..Len(c.regions)}
      /\ \A j \in 1..Len(c.regions) : Settled(place[c.regions[j].role], c.regions[j], size, cap)
      /\ \A r, s \in DOMAIN place : r # s => Apart(place[r], place[s])
  <2>1. cap \in Nat /\ Fits(Staging(c, cap), cap)
    BY <1>1 DEF Carried
  <2> QED
    BY <1>2, <1>3, <2>1, Layout
<1>5. DOMAIN place = {g.role : g \in RegionsOf(c)}
  BY <1>4 DEF RegionsOf
<1>6. \A g \in RegionsOf(c) : Settled(place[g.role], g, size, cap) /\ g.role \in Roles
  BY <1>2, <1>4 DEF RegionsOf, IsRegions, IsRegion
<1>7. \A g \in RegionsOf(c) : place[g.role].region = g
  BY <1>6 DEF Settled
<1>8. \A r \in Roles : r \in DOMAIN place <=> Has(c, r)
  BY <1>5 DEF Has
<1>9. ASSUME NEW r \in DOMAIN place
      PROVE  /\ r \in Roles /\ place[r].region \in RegionsOf(c) /\ place[r].region.role = r
             /\ Settled(place[r], place[r].region, size, cap)
  <2>1. PICK g \in RegionsOf(c) : g.role = r
    BY <1>5
  <2> QED
    BY <1>6, <1>7, <2>1
<1> QED
  BY <1>1, <1>3, <1>4, <1>7, <1>8, <1>9

\* The spot of one argument.
LEMMA Lodged ==
    ASSUME Carried, NEW r \in DOMAIN Place
    PROVE  /\ r \in Arguments /\ Place[r].off \in Nat /\ Place[r].n \in Nat /\ Cells(Place[r]) \in Nat
           /\ Place[r].region.layout.size \in Nat /\ Place[r].region.layout.size > 0
           /\ Place[r].region.layout.align \in {1, 2}
           /\ Place[r].region.layout.size = IF r = "buf" /\ IsEpoll(req) THEN EventSize ELSE 1
           /\ Cells(Place[r]) = Place[r].n * Place[r].region.layout.size
           /\ Place[r].off + Cells(Place[r]) <= Len(data)
           /\ Place[r].off % Place[r].region.layout.align = 0
           /\ Place[r].region.n \in Nat /\ Place[r].n <= Place[r].region.n
           /\ ~Place[r].region.max => Place[r].n = Place[r].region.n
           /\ Place[r].n < Place[r].region.n => Len(data) >= cap /\ Place[r].region.layout.size = 1
           /\ Place[r].region.n * Place[r].region.layout.size = Len(Whole(mem, r))
           /\ Len(Whole(mem, r)) \in Nat /\ Cells(Place[r]) <= Len(Whole(mem, r))
           /\ Mirrors(Item, Place[r].region) /\ IsRegion(Place[r].region)
<1>1. PICK s, g : s = Place[r] /\ g = s.region
  OBVIOUS
<1>2. /\ g \in RegionsOf(Item) /\ g.role = r /\ Settled(s, g, Len(data), cap)
  BY <1>1, Placed
<1>3. Mirrors(Item, g)
  BY <1>2, CarriedShape DEF Shape
<1>4. IsRegion(g)
  BY <1>2, CarriedShape DEF Shape, IsRegions, RegionsOf
<1>5. PICK z \in Nat : z = g.layout.size /\ z > 0
  BY <1>4, RegionLayout
<1>6. g.n \in Nat /\ g.layout.align \in {1, 2} /\ (g.max => z = 1) /\ g.max \in BOOLEAN
  BY <1>4, <1>5, RegionLayout
<1>7. /\ s.off \in Nat /\ s.n \in Nat /\ Cells(s) \in Nat /\ s.off + Cells(s) <= Len(data)
      /\ s.off % g.layout.align = 0 /\ s.n <= g.n /\ (~g.max => s.n = g.n) /\ (s.n < g.n => Len(data) >= cap)
  BY <1>2 DEF Settled
<1>8. Cells(s) = s.n * z
  BY <1>1, <1>5 DEF Cells
<1>9. g.n * z = Len(Whole(mem, r)) /\ r \in Arguments
      /\ z = IF r = "buf" /\ IsEpoll(req) THEN EventSize ELSE 1
  BY <1>2, <1>3, <1>5 DEF Mirrors, Carried
<1>10. g.n * z \in Nat /\ s.n * z <= g.n * z
  <2>1. PICK a \in Nat, b \in Nat : a = s.n /\ b = g.n /\ a <= b
    BY <1>6, <1>7
  <2>2. b * z \in Nat /\ a * z <= b * z
    BY Product, ProductGrows, <2>1
  <2> QED
    BY <2>1, <2>2
<1>11. s.n < g.n => z = 1
  BY <1>6, <1>7
<1>12. Len(Whole(mem, r)) \in Nat /\ Cells(s) <= Len(Whole(mem, r))
  BY <1>8, <1>9, <1>10
<1> QED
  BY <1>1, <1>3, <1>4, <1>5, <1>6, <1>7, <1>8, <1>9, <1>11, <1>12

----------------------------------------------------------------------------
(* The words of the item, and what the host makes of them.                 *)

\* A number is not the null word.
LEMMA NumIsNotNull == ASSUME NEW n \in Nat PROVE Num(n) # NULL /\ Num(n).k = "num" /\ Num(n).v = n
BY DEF Num, NULL

\* The words of the item, the missing ones null.
LEMMA ItemWords ==
    ASSUME Words6(Item), NEW i \in 1..6
    PROVE  /\ i > Len(Item.argv) => ItemArgv[i] = NULL
           /\ \A r : OffAt(Item, i, r) =>
                ItemArgv[i] = IF r \in DOMAIN Place THEN Num(Place[r].off) ELSE NULL
           /\ \A r : CountAt(Item, i, r) =>
                ItemArgv[i] = Num(IF r \in DOMAIN Place THEN Place[r].n ELSE 0)
           /\ \A p : i \in 1..Len(Item.argv) /\ Item.argv[i] = Arg(p) => ItemArgv[i] = Arg(p)
<1>1. PICK n, argv : n \in 0..6 /\ n = Len(Item.argv) /\ argv = Argv(Item, Place)
  BY DEF Words6
<1>2. Len(argv) = n
  BY <1>1 DEF Argv
<1>3. ItemArgv[i] = IF i <= n THEN argv[i] ELSE NULL
  BY <1>1, <1>2 DEF ItemArgv, Padded
<1>4. i \in 1..n => argv[i] = LET w == Item.argv[i] IN
        CASE w.k = "off" -> IF w.v \in DOMAIN Place THEN Num(Place[w.v].off) ELSE NULL
          [] w.k = "len" -> Num(IF w.v \in DOMAIN Place THEN Place[w.v].n ELSE 0)
          [] OTHER -> w
  BY <1>1 DEF Argv
<1>5. ASSUME NEW r, OffAt(Item, i, r)
      PROVE  ItemArgv[i] = IF r \in DOMAIN Place THEN Num(Place[r].off) ELSE NULL
  <2>1. i \in 1..n /\ i <= n /\ Item.argv[i].k = "off" /\ Item.argv[i].v = r
    BY <1>1, <1>5 DEF OffAt, Off
  <2> QED
    BY <1>3, <1>4, <2>1
<1>6. ASSUME NEW r, CountAt(Item, i, r)
      PROVE  ItemArgv[i] = Num(IF r \in DOMAIN Place THEN Place[r].n ELSE 0)
  <2>1. i \in 1..n /\ i <= n /\ Item.argv[i].k = "len" /\ Item.argv[i].v = r
    BY <1>1, <1>6 DEF CountAt, Count
  <2> QED
    BY <1>3, <1>4, <2>1
<1>7. ASSUME NEW p, i \in 1..Len(Item.argv), Item.argv[i] = Arg(p) PROVE ItemArgv[i] = Arg(p)
  <2>1. i \in 1..n /\ i <= n /\ Item.argv[i].k = "arg"
    BY <1>1, <1>7 DEF Arg
  <2> QED
    BY <1>3, <1>4, <1>7, <2>1
<1>8. i > Len(Item.argv) => ItemArgv[i] = NULL
  BY <1>1, <1>3
<1> QED
  BY <1>5, <1>6, <1>7, <1>8

View(role) == IF role \in DOMAIN Place THEN [k |-> "ptr", v |-> Place[role].off] ELSE NullArg

\* The host reads the caller's own length where it needs one.
LengthHeld == "len" \in DOMAIN Place => data[Place["len"].off + 1][3] = req.a

\* A pointer to a region is accepted and passed as it is.
LEMMA PointerPassed ==
    ASSUME Carried, LengthHeld, Words6(Item), NEW spec, NEW role \in Roles, PointsTo(Item, spec, role)
    PROVE  Accepts(ItemArgv, spec, Len(data), LengthAt(spec)) /\ Value(ItemArgv, spec) = View(role)
<1>1. Len(Item.argv) \in 0..6 /\ Len(data) \in Nat
  BY Placed DEF Words6
<1>2. CASE role \notin DOMAIN Place
  <2>1. spec.k = "ptr" /\ spec.null \in 1..6 /\ NullAt(Item, spec.null)
    BY <1>2, Placed DEF PointsTo
  <2>2. ItemArgv[spec.null] = NULL
    <3>1. CASE spec.null > Len(Item.argv)
      BY <2>1, <3>1, ItemWords
    <3>2. CASE \E r \in Roles : OffAt(Item, spec.null, r) /\ ~Has(Item, r)
      <4>1. PICK r \in Roles : OffAt(Item, spec.null, r) /\ ~Has(Item, r)
        BY <3>2
      <4>2. r \notin DOMAIN Place
        BY <4>1, Placed
      <4> QED
        BY <2>1, <4>1, <4>2, ItemWords
    <3> QED
      BY <2>1, <3>1, <3>2 DEF NullAt
  <2>3. IsNull(ItemArgv, spec)
    BY <2>1, <2>2 DEF IsNull
  <2> QED
    BY <1>2, <2>1, <2>3 DEF Accepts, Value, View
<1>3. CASE role \in DOMAIN Place
  <2>1. Has(Item, role)
    BY <1>3, Placed
  <2>2. /\ spec.k = "ptr" /\ OffAt(Item, spec.i, role)
        /\ spec.null = 0 \/ \E r \in Roles : OffAt(Item, spec.null, r) /\ Has(Item, r)
    BY <2>1 DEF PointsTo
  <2>3. PICK g \in RegionsOf(Item) : g.role = role /\ spec.layout = g.layout /\ Counts(Item, spec, g)
    BY <2>1 DEF PointsTo
  <2>4. PICK s : s = Place[role] /\ s.region = g
    BY <2>3, Placed
  <2>5. PICK off \in Nat, n \in Nat, z \in Nat, cells \in Nat, align \in {1, 2} :
           /\ off = s.off /\ n = s.n /\ z = g.layout.size /\ cells = Cells(s) /\ align = g.layout.align
           /\ cells = n * z /\ off + cells <= Len(data) /\ off % align = 0 /\ (~g.max => n = g.n)
    <3>1. /\ s.off \in Nat /\ s.n \in Nat /\ Cells(s) \in Nat /\ g.layout.size \in Nat /\ g.layout.align \in {1, 2}
          /\ Cells(s) = s.n * g.layout.size /\ s.off + Cells(s) <= Len(data)
          /\ s.off % g.layout.align = 0 /\ (~g.max => s.n = g.n)
      BY <1>3, <2>4, Lodged
    <3> QED
      BY <3>1
  <2>6. spec.i \in 1..6 /\ ItemArgv[spec.i] = Num(off)
    <3>1. spec.i \in 1..6
      BY <1>1, <2>2 DEF OffAt
    <3> QED
      BY <1>3, <2>2, <2>4, <2>5, <3>1, ItemWords
  <2>7. ~IsNull(ItemArgv, spec)
    <3>1. CASE spec.null = 0
      BY <3>1 DEF IsNull
    <3>2. CASE \E r \in Roles : OffAt(Item, spec.null, r) /\ Has(Item, r)
      <4>1. PICK r \in Roles : OffAt(Item, spec.null, r) /\ Has(Item, r)
        BY <3>2
      <4>2. r \in DOMAIN Place /\ Place[r].off \in Nat
        BY <4>1, Placed, Lodged
      <4>3. spec.null \in 1..6
        BY <1>1, <4>1 DEF OffAt
      <4>4. ItemArgv[spec.null] = Num(Place[r].off)
        BY <4>1, <4>2, <4>3, ItemWords
      <4> QED
        BY <4>2, <4>4, NumIsNotNull DEF IsNull
    <3> QED
      BY <2>2, <3>1, <3>2
  <2>8. PICK e : e = Elements(ItemArgv, spec, LengthAt(spec)) /\ e.k = "num" /\ e.v = n
    <3>1. CASE spec.n.k = "word" /\ CountAt(Item, spec.n.v, role)
      <4>1. spec.n.v \in 1..6
        BY <1>1, <3>1 DEF CountAt
      <4>2. ItemArgv[spec.n.v] = Num(n)
        BY <1>3, <2>4, <2>5, <3>1, <4>1, ItemWords
      <4> QED
        BY <3>1, <4>2, NumIsNotNull DEF Elements
    <3>2. CASE spec.n.k = "num" /\ spec.n.v = g.n /\ ~g.max
      BY <2>5, <3>2 DEF Elements
    <3>3. CASE spec.n.k = "cell" /\ OffAt(Item, spec.n.v, "len") /\ Has(Item, "len") /\ role = "addr" /\ ~g.max
      <4>1. "len" \in DOMAIN Place /\ Place["len"].off \in Nat
        BY <3>3, Placed, Lodged DEF Roles
      <4>2. spec.n.v \in 1..6
        BY <1>1, <3>3 DEF OffAt
      <4>3. ItemArgv[spec.n.v] = Num(Place["len"].off)
        BY <3>3, <4>1, <4>2, ItemWords
      <4>4. LengthAt(spec) = req.a
        <5>1. ItemArgv[spec.n.v] # NULL /\ ItemArgv[spec.n.v].v = Place["len"].off
          BY <4>1, <4>3, NumIsNotNull
        <5> QED
          BY <2>2, <3>3, <4>1, <5>1 DEF LengthAt, LengthHeld
      <4>5. n = req.a /\ n \in Nat
        <5>1. Mirrors(Item, g) /\ mem = UserMem(req) /\ IsRequest(req)
          BY <1>3, <2>4, Lodged DEF Carried
        <5>2. z = 1 /\ g.n * z = Len(Whole(UserMem(req), "addr"))
          BY <2>3, <2>5, <3>3, <5>1 DEF Mirrors
        <5>3. "addr" \notin req.null
          BY <2>1, <3>3, <5>1, CarriedShape, <2>3 DEF Shape, Mirrors, Absent, Roles
        <5>4. g.n = req.a
          <6>1. PICK m \in Nat : m = g.n
            BY <2>5, <3>3
          <6> QED
            BY <5>1, <5>2, <5>3, <6>1, Lengths
        <5> QED
          BY <2>5, <3>3, <5>4
      <4>6. Elements(ItemArgv, spec, LengthAt(spec)) = Num(req.a)
        BY <3>3, <4>4 DEF Elements
      <4> QED
        BY <4>5, <4>6, NumIsNotNull
    <3> QED
      BY <2>3, <3>1, <3>2, <3>3 DEF Counts
  <2>9. Deref(Len(data), ItemArgv[spec.i], e, spec.layout)
    <3>1. PICK o, lay : o = ItemArgv[spec.i] /\ o.k = "num" /\ o.v = off
                        /\ lay = spec.layout /\ lay.size = z /\ lay.align = align
      BY <2>3, <2>5, <2>6, NumIsNotNull
    <3>2. PICK m \in Nat : m = Len(data)
      BY <1>1
    <3>3. e.v * lay.size = cells
      BY <2>5, <2>8, <3>1
    <3>4. cells <= m /\ off <= m - cells /\ off >= 0
      BY <2>5, <3>2
    <3>5. Deref(m, o, e, lay)
      BY <2>5, <2>8, <3>1, <3>3, <3>4 DEF Deref
    <3> QED
      BY <3>1, <3>2, <3>5
  <2>10. Value(ItemArgv, spec) = [k |-> "ptr", v |-> off]
    <3>1. ItemArgv[spec.i].v = off
      BY <2>6, NumIsNotNull
    <3> QED
      BY <2>2, <2>7, <3>1 DEF Value
  <2> QED
    BY <1>3, <2>4, <2>5, <2>8, <2>9, <2>10 DEF Accepts, View
<1> QED
  BY <1>2, <1>3

Passed(mode, p, v) ==
    \/ mode = "reg" /\ v = Arg(p)
    \/ mode \in Roles /\ v = View(mode)
    \/ mode = "#buf" /\ v = Num(IF "buf" \in DOMAIN Place THEN Place["buf"].n ELSE 0)
    \/ mode = "#addr" /\ ("addr" \in DOMAIN Place => v = Num(Place["addr"].n))

\* A register is accepted and passed as it is.
LEMMA WordPassed ==
    ASSUME NEW spec, NEW n, spec.k = "word", NEW length
    PROVE  /\ Accepts(ItemArgv, spec, n, length)
           /\ spec.null = 0 => Value(ItemArgv, spec) = ItemArgv[spec.i]
BY DEF Accepts, Value, IsNull

\* Every argument is accepted and passed as the calling convention wants it.
LEMMA ArgumentPassed ==
    ASSUME Carried, LengthHeld, Words6(Item), NEW spec, NEW mode, NEW p, Matches(Item, spec, mode, p)
    PROVE  Accepts(ItemArgv, spec, Len(data), LengthAt(spec)) /\ Passed(mode, p, Value(ItemArgv, spec))
<1>1. Len(Item.argv) \in 0..6
  BY DEF Words6
<1>2. CASE mode = "reg" /\ spec.k = "word" /\ spec.null = 0 /\ spec.i \in 1..Len(Item.argv) /\ Item.argv[spec.i] = Arg(p)
  <2>1. spec.i \in 1..6
    BY <1>1, <1>2
  <2>2. ItemArgv[spec.i] = Arg(p)
    BY <1>2, <2>1, ItemWords
  <2> QED
    BY <1>2, <2>2, WordPassed DEF Passed
<1>3. CASE mode \in Roles /\ PointsTo(Item, spec, mode)
  BY <1>3, PointerPassed DEF Passed
<1>4. CASE mode = "#buf" /\ spec.k = "word" /\ CountAt(Item, spec.i, "buf")
           /\ (spec.null = 0 \/ OffAt(Item, spec.null, "buf"))
  <2>1. spec.i \in 1..6
    BY <1>1, <1>4 DEF CountAt
  <2>2. PICK n : n = (IF "buf" \in DOMAIN Place THEN Place["buf"].n ELSE 0) /\ ItemArgv[spec.i] = Num(n)
    BY <1>4, <2>1, ItemWords
  <2>3. CASE spec.null = 0
    BY <1>4, <2>2, <2>3, WordPassed DEF Passed
  <2>4. CASE OffAt(Item, spec.null, "buf")
    <3>1. spec.null \in 1..6
      BY <1>1, <2>4 DEF OffAt
    <3>2. ItemArgv[spec.null] = IF "buf" \in DOMAIN Place THEN Num(Place["buf"].off) ELSE NULL
      BY <2>4, <3>1, ItemWords
    <3>3. CASE "buf" \in DOMAIN Place
      <4>1. ~IsNull(ItemArgv, spec)
        BY <3>2, <3>3, Lodged, NumIsNotNull DEF IsNull
      <4>2. Value(ItemArgv, spec) = ItemArgv[spec.i]
        BY <1>4, <4>1 DEF Value
      <4> QED
        BY <1>4, <2>2, <4>2, WordPassed DEF Passed
    <3>4. CASE "buf" \notin DOMAIN Place
      <4>1. IsNull(ItemArgv, spec)
        BY <3>1, <3>2, <3>4 DEF IsNull
      <4>2. Value(ItemArgv, spec) = Num(0) /\ n = 0
        BY <1>4, <2>2, <3>4, <4>1 DEF Value
      <4> QED
        BY <1>4, <2>2, <4>2, WordPassed DEF Passed
    <3> QED
      BY <3>3, <3>4
  <2> QED
    BY <1>4, <2>3, <2>4
<1>5. CASE mode = "#addr" /\ spec.k = "word" /\ spec.null = 0 /\ (Has(Item, "addr") => CountAt(Item, spec.i, "addr"))
  <2>1. CASE "addr" \notin DOMAIN Place
    BY <1>5, <2>1, WordPassed DEF Passed
  <2>2. CASE "addr" \in DOMAIN Place
    <3>1. CountAt(Item, spec.i, "addr")
      BY <1>5, <2>2, Placed
    <3>2. spec.i \in 1..6
      BY <1>1, <3>1 DEF CountAt
    <3>3. ItemArgv[spec.i] = Num(Place["addr"].n)
      BY <2>2, <3>1, <3>2, ItemWords
    <3> QED
      BY <1>5, <2>2, <3>3, WordPassed DEF Passed
  <2> QED
    BY <2>1, <2>2
<1> QED
  BY <1>2, <1>3, <1>4, <1>5 DEF Matches

\* Before an answer the length in the item is the caller's.
LEMMA LengthIs ==
    ASSUME Carried, CellsInv, InBlock, reply = NoReply
    PROVE  LengthHeld
<1> SUFFICES ASSUME "len" \in DOMAIN Place PROVE data[Place["len"].off + 1][3] = req.a
  BY DEF LengthHeld
<1>1. /\ Mirrors(Item, Place["len"].region) /\ IsRegion(Place["len"].region)
      /\ ~Place["len"].region.max => Place["len"].n = Place["len"].region.n
      /\ Cells(Place["len"]) = Place["len"].n * Place["len"].region.layout.size
      /\ Place["len"].region.n * Place["len"].region.layout.size = Len(Whole(mem, "len"))
      /\ Place["len"].region.role = "len"
  BY Lodged, Placed
<1>2. Place["len"].region.dir # "out" /\ ~Place["len"].region.max
  BY <1>1 DEF Mirrors, IsRegion
<1>3. IsRequest(req) /\ mem = UserMem(req) /\ "len" \notin req.null
  <2>1. Has(Item, "len") /\ "len" \in Convention(Item.num) /\ Item.num \in DOMAIN Abi
    BY <1>1, Placed DEF Mirrors, Roles
  <2> QED
    BY <2>1, CarriedShape DEF Carried, Shape, Absent, Roles
<1>4. Cells(Place["len"]) = 1
  BY <1>1, <1>2, <1>3, Lengths
<1>5. Written("len") = 0 /\ reply.from # "hostile"
  BY DEF NoReply, Nothing, Wrote, Written, WrittenBy
<1>6. Cell("len", 1) = Whole(mem, "len")[1]
  BY <1>2, <1>4, <1>5 DEF CellsInv
<1>7. Whole(mem, "len") = UserMem(req)["len"]
  BY <1>3 DEF Whole
<1>8. Spanned(req, "len") = 1
  BY <1>3 DEF Spanned, Owned
<1>9. UserMem(req)["len"][1] = <<"user", "len", req.a>>
  <2>1. "len" \in Roles /\ 1 \in 1..Spanned(req, "len")
    BY <1>8 DEF Roles
  <2>2. UserMem(req)["len"][1] = Mine(req, "len", 1)
    BY <1>3, <2>1, UserStorage
  <2> QED
    BY <2>2 DEF Mine
<1> QED
  BY <1>6, <1>7, <1>9 DEF Cell

\* The host accepts every word of the item, and passes what was staged.
LEMMA Passing ==
    ASSUME Carried, LengthHeld, Item.num \in DOMAIN Arms(backend), NEW specs, specs = Arms(backend)[Item.num]
    PROVE  /\ AcceptsAll(specs)
           /\ Item.num \in DOMAIN Abi => \A p \in DOMAIN specs : Passed(Abi[Item.num][p], p, Value(ItemArgv, specs[p]))
<1>1. Suits(Item, specs) /\ Words6(Item)
  BY CarriedShape DEF Suits
<1>2. CASE Item.num \in DOMAIN Abi
  <2>1. \A p \in DOMAIN specs : Matches(Item, specs[p], Abi[Item.num][p], p)
    BY <1>1, <1>2 DEF Suits
  <2>2. \A p \in DOMAIN specs : /\ Accepts(ItemArgv, specs[p], Len(data), LengthAt(specs[p]))
                                /\ Passed(Abi[Item.num][p], p, Value(ItemArgv, specs[p]))
    BY <1>1, <2>1, ArgumentPassed
  <2> QED
    BY <2>2 DEF AcceptsAll
<1>3. CASE Item.num \notin DOMAIN Abi
  <2>1. \A p \in DOMAIN specs : specs[p].k = "word"
    BY <1>1, <1>3 DEF Suits
  <2> QED
    BY <1>3, <2>1, WordPassed DEF AcceptsAll
<1> QED
  BY <1>2, <1>3

----------------------------------------------------------------------------
(* The kernel's view of the call.                                          *)

AtKernel == pc = "kernel" /\ TypeOK /\ StagedInv /\ KernelInv /\ CellsInv

\* What the kernel is called with.
LEMMA AtKernelIs ==
    ASSUME AtKernel
    PROVE  /\ Carried /\ LengthHeld /\ InBlock /\ reply = NoReply
           /\ kcall.num = Item.num /\ Item.num \in DOMAIN Arms(backend) /\ Item.num \notin {"exit", "exit_group"}
           /\ DOMAIN kcall.args = DOMAIN Arms(backend)[Item.num]
           /\ \A p \in DOMAIN kcall.args : kcall.args[p] = Value(ItemArgv, Arms(backend)[Item.num][p])
           /\ Item.num \in DOMAIN Abi =>
                /\ DOMAIN kcall.args = DOMAIN Abi[Item.num] \/ Item.num = "epoll_pwait"
                /\ \A p \in DOMAIN Abi[Item.num] : Abi[Item.num][p] # "reg" => p \in DOMAIN kcall.args
                /\ \A p \in DOMAIN kcall.args : p \in DOMAIN Abi[Item.num] /\ Passed(Abi[Item.num][p], p, kcall.args[p])
<1>1. InBlock /\ reply = NoReply
  BY DEF AtKernel, InBlock, StagedInv, Over
<1>2. Carried /\ LengthHeld
  BY <1>1, CarriedIs, LengthIs DEF AtKernel
<1>3. PICK specs : specs = Arms(backend)[Item.num]
  OBVIOUS
<1>4. /\ kcall.num = Item.num /\ Item.num \in DOMAIN Arms(backend) /\ Item.num \notin {"exit", "exit_group"}
      /\ kcall.args = [p \in DOMAIN specs |-> Value(ItemArgv, specs[p])]
  BY <1>3 DEF AtKernel, KernelInv, KernelCall
<1>5. Suits(Item, specs)
  BY <1>2, <1>3, <1>4, CarriedShape
<1>6. Item.num \in DOMAIN Abi => \A p \in DOMAIN specs : Passed(Abi[Item.num][p], p, Value(ItemArgv, specs[p]))
  BY <1>2, <1>3, <1>4, Passing
<1>7. DOMAIN kcall.args = DOMAIN specs /\ \A p \in DOMAIN specs : kcall.args[p] = Value(ItemArgv, specs[p])
  BY <1>4
<1>8. Item.num \in DOMAIN Abi =>
                /\ DOMAIN specs = DOMAIN Abi[Item.num] \/ Item.num = "epoll_pwait"
                /\ \A p \in DOMAIN Abi[Item.num] : Abi[Item.num][p] # "reg" => p \in DOMAIN specs
                /\ DOMAIN specs \subseteq DOMAIN Abi[Item.num]
  BY <1>5 DEF Suits
<1> QED
  BY <1>1, <1>2, <1>3, <1>4, <1>6, <1>7, <1>8

\* The calling convention is a table of tuples.
LEMMA AbiTuples == \A num \in DOMAIN Abi : DOMAIN Abi[num] = 1..Len(Abi[num])
BY DEF Abi

\* The position of an argument in the convention.
LEMMA Positions ==
    ASSUME NEW num, NEW mode
    PROVE  LET p == Position(num, mode) IN
           /\ p # 0 => num \in DOMAIN Abi /\ p \in 1..Len(Abi[num]) /\ Abi[num][p] = mode
           /\ p = 0 => num \notin DOMAIN Abi \/ \A x \in 1..Len(Abi[num]) : Abi[num][x] # mode
<1>1. CASE num \in DOMAIN Abi /\ \E p \in 1..Len(Abi[num]) : Abi[num][p] = mode
  <2>1. PICK q : q = CHOOSE p \in 1..Len(Abi[num]) : Abi[num][p] = mode
    OBVIOUS
  <2>2. q \in 1..Len(Abi[num]) /\ Abi[num][q] = mode
    BY <1>1, <2>1
  <2>3. q # 0
    BY <2>2
  <2> QED
    BY <1>1, <2>1, <2>2, <2>3 DEF Position
<1>2. CASE ~(num \in DOMAIN Abi /\ \E p \in 1..Len(Abi[num]) : Abi[num][p] = mode)
  BY <1>2 DEF Position
<1> QED
  BY <1>1, <1>2

\* The pointer the kernel is given is the place of the region.
LEMMA AtIs ==
    ASSUME AtKernel, NEW r \in Roles
    PROVE  At(r) = IF r \in DOMAIN Place THEN Place[r].off ELSE -1
<1>1. Carried /\ kcall.num = Item.num
  BY AtKernelIs
<1>2. PICK p : p = Position(kcall.num, r)
  OBVIOUS
<1>3. r # "reg" /\ r # "#buf" /\ r # "#addr"
  BY DEF Roles
<1>4. CASE p # 0
  <2>1. Item.num \in DOMAIN Abi /\ p \in DOMAIN Abi[Item.num] /\ Abi[Item.num][p] = r
    BY <1>1, <1>2, <1>4, Positions, AbiTuples
  <2>2. p \in DOMAIN kcall.args /\ Passed(r, p, kcall.args[p])
    BY <1>3, <2>1, AtKernelIs
  <2>3. kcall.args[p] = View(r)
    BY <1>3, <2>2 DEF Passed
  <2> QED
    BY <1>2, <1>4, <2>3 DEF At, View, NullArg
<1>5. CASE p = 0
  <2>1. r \notin DOMAIN Place
    <3> SUFFICES ASSUME r \in DOMAIN Place PROVE FALSE
      OBVIOUS
    <3>1. Mirrors(Item, Place[r].region) /\ Place[r].region.role = r
      BY <1>1, Lodged, Placed
    <3>2. Item.num \in DOMAIN Abi /\ \E x \in DOMAIN Abi[Item.num] : Abi[Item.num][x] = r
      BY <3>1 DEF Mirrors, Convention
    <3> QED
      BY ZenonT(30), <1>1, <1>2, <1>5, <3>2, Positions, AbiTuples
  <2> QED
    BY <1>2, <1>5, <2>1 DEF At
<1> QED
  BY <1>4, <1>5

\* The count the kernel is given is that of the region.
LEMMA CountIs ==
    ASSUME AtKernel, NEW r \in DOMAIN Place, Position(kcall.num, CountOf[r]) # 0
    PROVE  Counted(r) = Place[r].n
<1>1. Carried /\ kcall.num = Item.num /\ r \in Roles
  BY AtKernelIs, Placed
<1>2. PICK p : p = Position(kcall.num, CountOf[r])
  OBVIOUS
<1>3. Item.num \in DOMAIN Abi /\ p \in DOMAIN Abi[Item.num] /\ Abi[Item.num][p] = CountOf[r]
  BY <1>1, <1>2, Positions, AbiTuples
<1>4. /\ CountOf["buf"] = "#buf" /\ CountOf["buf2"] = "#buf2" /\ CountOf["addr"] = "#addr" /\ CountOf["len"] = "#len"
  BY DEF CountOf
<1>5. CountOf[r] # "reg" /\ CountOf[r] \notin Roles
  BY <1>1, <1>4 DEF Roles
<1>6. Passed(CountOf[r], p, kcall.args[p])
  BY <1>3, <1>5, AtKernelIs
<1>7. r \in {"buf", "addr"}
  BY <1>1, <1>4, <1>5, <1>6 DEF Passed, Roles
<1>8. Place[r].n \in Nat
  BY <1>1, Lodged
<1>9. kcall.args[p] = Num(Place[r].n)
  BY <1>4, <1>5, <1>6, <1>7 DEF Passed
<1> QED
  BY <1>2, <1>8, <1>9, NumIsNotNull DEF Counted

\* A region that may be cut is counted.
LEMMA Reserved ==
    ASSUME AtKernel, NEW r \in DOMAIN Place, Place[r].region.max
    PROVE  Position(kcall.num, CountOf[r]) # 0
<1>1. Carried /\ kcall.num = Item.num
  BY AtKernelIs
<1>2. Mirrors(Item, Place[r].region) /\ Place[r].region.role = r
  BY <1>1, Lodged, Placed
<1>3. r = "buf" /\ Item.collect \in Counting
  BY <1>2 DEF Mirrors
<1>4. Item.num \in DOMAIN Abi /\ "#buf" \in Convention(Item.num)
  BY <1>1, <1>3, CarriedShape DEF Shape, Collects
<1>5. CountOf[r] = "#buf"
  BY <1>3 DEF CountOf
<1> QED
  BY <1>1, <1>4, <1>5, Positions, AbiTuples DEF Convention

\* What the kernel may touch lies in the region.
LEMMA ExtentIs ==
    ASSUME AtKernel, NEW r \in Roles
    PROVE  /\ Extent(r) \in Nat
           /\ r \notin DOMAIN Place => Extent(r) = 0
           /\ r \in DOMAIN Place => Extent(r) <= Cells(Place[r])
<1>1. Carried /\ kcall.num = Item.num /\ LengthHeld /\ IsRequest(req) /\ mem = UserMem(req)
  BY AtKernelIs DEF Carried
<1>2. CASE r \notin DOMAIN Place
  <2>1. At(r) = -1
    BY <1>2, AtIs
  <2> QED
    BY <1>2, <2>1 DEF Extent
<1>3. CASE r \in DOMAIN Place
  <2>1. PICK off \in Nat, n \in Nat, z \in Nat, cells \in Nat :
           off = Place[r].off /\ n = Place[r].n /\ z = Place[r].region.layout.size /\ cells = Cells(Place[r])
    BY <1>1, <1>3, Lodged
  <2>2. /\ cells = n * z /\ z = IF r = "buf" /\ IsEpoll(req) THEN EventSize ELSE 1
        /\ ~Place[r].region.max => cells = Len(Whole(mem, r))
    BY <1>1, <1>3, <2>1, Lodged
  <2>3. At(r) = off /\ off # -1
    BY <1>3, <2>1, AtIs
  <2>4. CASE Position(kcall.num, CountOf[r]) # 0
    <3>1. Counted(r) = n
      BY <1>3, <2>1, <2>4, CountIs
    <3>2. PICK k \in Nat : k = (IF r = "buf" /\ IsEpoll(req) THEN KernelEventSize ELSE 1) /\ k <= z
      BY <2>2, Constants
    <3>3. n * k \in Nat /\ n * k <= n * z
      BY <3>2, Product, ProductGrows
    <3>4. Extent(r) = n * k
      BY <2>3, <2>4, <3>1, <3>2 DEF Extent
    <3> QED
      BY <1>3, <2>1, <2>2, <3>3, <3>4
  <2>5. CASE Position(kcall.num, CountOf[r]) = 0
    <3>1. cells = Len(Whole(mem, r))
      BY <1>3, <2>2, <2>5, Reserved
    <3>2. CASE r = "addr"
      <4>1. "addr" \notin req.null /\ "len" \in DOMAIN Place
        <5>1. Mirrors(Item, Place[r].region) /\ Place[r].region.role = r /\ Has(Item, r)
          BY <1>1, <1>3, Lodged, Placed
        <5>2. Item.num \in DOMAIN Abi /\ "addr" \in Convention(Item.num)
          BY <3>2, <5>1 DEF Mirrors
        <5>3. "addr" \notin req.null
          BY <1>1, <3>2, <5>1, <5>2, CarriedShape DEF Shape, Absent, Roles
        <5>4. "#addr" \notin Convention(Item.num)
          <6>1. CountOf["addr"] = "#addr"
            BY DEF CountOf
          <6>2. Position(Item.num, "#addr") = 0
            BY <1>1, <2>5, <3>2, <6>1
          <6> QED
            BY <5>2, <6>2, Positions, AbiTuples DEF Convention
        <5>5. Has(Item, "len")
          BY <1>1, <3>2, <5>1, <5>4, CarriedShape DEF Shape, Collects
        <5> QED
          BY <1>1, <5>3, <5>5, Placed DEF Roles
      <4>2. Extent(r) = req.a
        <5>1. At("len") = Place["len"].off
          BY <4>1, AtIs DEF Roles
        <5> QED
          BY <1>1, <2>3, <2>5, <3>2, <4>1, <5>1 DEF Extent, LengthHeld
      <4>3. cells = req.a
        BY <1>1, <3>1, <3>2, <4>1, Lengths
      <4> QED
        BY <1>3, <2>1, <4>2, <4>3
    <3>3. CASE r # "addr"
      <4>1. Extent(r) = Owned(req, r)
        BY <2>3, <2>5, <3>3 DEF Extent
      <4>2. /\ Spanned(req, r) \in Nat /\ Owned(req, r) \in Nat /\ Owned(req, r) <= Spanned(req, r)
            /\ Spanned(req, "buf") \in Nat /\ Spanned(req, "buf2") \in Nat
        BY <1>1, SpannedNat DEF Roles
      <4>3. Spanned(req, r) <= Len(Whole(mem, r))
        BY <1>1, <4>2, WholeOf, UserStorage
      <4> QED
        BY <1>3, <2>1, <3>1, <4>1, <4>2, <4>3
    <3> QED
      BY <3>2, <3>3
  <2> QED
    BY <2>4, <2>5
<1> QED
  BY <1>2, <1>3

\* A count comes with its pointer.
LEMMA CountsPointed ==
    ASSUME NEW num \in DOMAIN Abi
    PROVE  /\ "#buf" \in Convention(num) => "buf" \in Convention(num)
           /\ "#addr" \in Convention(num) => "addr" \in Convention(num)
<1>1. CASE num = "accept"
  <2>1. Abi[num] = <<"reg", "addr", "len">>
    BY <1>1 DEF Abi
  <2>2. \A x \in DOMAIN Abi[num] : Abi[num][x] # "#buf" /\ Abi[num][x] # "#addr"
    BY <2>1
  <2> QED
    BY <2>2 DEF Convention
<1>2. CASE num = "accept4"
  <2>1. Abi[num] = <<"reg", "addr", "len", "reg">>
    BY <1>2 DEF Abi
  <2>2. \A x \in DOMAIN Abi[num] : Abi[num][x] # "#buf" /\ Abi[num][x] # "#addr"
    BY <2>1
  <2> QED
    BY <2>2 DEF Convention
<1>3. CASE num = "bind"
  <2>1. Abi[num] = <<"reg", "addr", "#addr">>
    BY <1>3 DEF Abi
  <2>2. 2 \in DOMAIN Abi[num] /\ Abi[num][2] = "addr" /\ \A x \in DOMAIN Abi[num] : Abi[num][x] # "#buf"
    BY <2>1
  <2> QED
    BY <2>2 DEF Convention
<1>4. CASE num = "clock_getres"
  <2>1. Abi[num] = <<"reg", "buf">>
    BY <1>4 DEF Abi
  <2>2. \A x \in DOMAIN Abi[num] : Abi[num][x] # "#buf" /\ Abi[num][x] # "#addr"
    BY <2>1
  <2> QED
    BY <2>2 DEF Convention
<1>5. CASE num = "clock_gettime"
  <2>1. Abi[num] = <<"reg", "buf">>
    BY <1>5 DEF Abi
  <2>2. \A x \in DOMAIN Abi[num] : Abi[num][x] # "#buf" /\ Abi[num][x] # "#addr"
    BY <2>1
  <2> QED
    BY <2>2 DEF Convention
<1>6. CASE num = "connect"
  <2>1. Abi[num] = <<"reg", "addr", "#addr">>
    BY <1>6 DEF Abi
  <2>2. 2 \in DOMAIN Abi[num] /\ Abi[num][2] = "addr" /\ \A x \in DOMAIN Abi[num] : Abi[num][x] # "#buf"
    BY <2>1
  <2> QED
    BY <2>2 DEF Convention
<1>7. CASE num = "cpuid"
  <2>1. Abi[num] = <<"reg", "reg", "buf">>
    BY <1>7 DEF Abi
  <2>2. \A x \in DOMAIN Abi[num] : Abi[num][x] # "#buf" /\ Abi[num][x] # "#addr"
    BY <2>1
  <2> QED
    BY <2>2 DEF Convention
<1>8. CASE num = "epoll_ctl"
  <2>1. Abi[num] = <<"reg", "reg", "reg", "buf">>
    BY <1>8 DEF Abi
  <2>2. \A x \in DOMAIN Abi[num] : Abi[num][x] # "#buf" /\ Abi[num][x] # "#addr"
    BY <2>1
  <2> QED
    BY <2>2 DEF Convention
<1>9. CASE num = "epoll_pwait"
  <2>1. Abi[num] = <<"reg", "buf", "#buf", "reg", "buf2", "reg">>
    BY <1>9 DEF Abi
  <2>2. 2 \in DOMAIN Abi[num] /\ Abi[num][2] = "buf" /\ \A x \in DOMAIN Abi[num] : Abi[num][x] # "#addr"
    BY <2>1
  <2> QED
    BY <2>2 DEF Convention
<1>10. CASE num = "epoll_wait"
  <2>1. Abi[num] = <<"reg", "buf", "#buf", "reg">>
    BY <1>10 DEF Abi
  <2>2. 2 \in DOMAIN Abi[num] /\ Abi[num][2] = "buf" /\ \A x \in DOMAIN Abi[num] : Abi[num][x] # "#addr"
    BY <2>1
  <2> QED
    BY <2>2 DEF Convention
<1>11. CASE num = "gdb_write"
  <2>1. Abi[num] = <<"reg">>
    BY <1>11 DEF Abi
  <2>2. \A x \in DOMAIN Abi[num] : Abi[num][x] # "#buf" /\ Abi[num][x] # "#addr"
    BY <2>1
  <2> QED
    BY <2>2 DEF Convention
<1>12. CASE num = "gdb_write_all"
  <2>1. Abi[num] = <<"buf", "#buf">>
    BY <1>12 DEF Abi
  <2>2. 1 \in DOMAIN Abi[num] /\ Abi[num][1] = "buf" /\ \A x \in DOMAIN Abi[num] : Abi[num][x] # "#addr"
    BY <2>1
  <2> QED
    BY <2>2 DEF Convention
<1>13. CASE num = "get_sgx_quote"
  <2>1. Abi[num] = <<"buf2", "buf", "#buf">>
    BY <1>13 DEF Abi
  <2>2. 2 \in DOMAIN Abi[num] /\ Abi[num][2] = "buf" /\ \A x \in DOMAIN Abi[num] : Abi[num][x] # "#addr"
    BY <2>1
  <2> QED
    BY <2>2 DEF Convention
<1>14. CASE num = "get_sgx_target_info"
  <2>1. Abi[num] = <<"buf">>
    BY <1>14 DEF Abi
  <2>2. \A x \in DOMAIN Abi[num] : Abi[num][x] # "#buf" /\ Abi[num][x] # "#addr"
    BY <2>1
  <2> QED
    BY <2>2 DEF Convention
<1>15. CASE num = "get_snp_vcek"
  <2>1. Abi[num] = <<"buf", "#buf">>
    BY <1>15 DEF Abi
  <2>2. 1 \in DOMAIN Abi[num] /\ Abi[num][1] = "buf" /\ \A x \in DOMAIN Abi[num] : Abi[num][x] # "#addr"
    BY <2>1
  <2> QED
    BY <2>2 DEF Convention
<1>16. CASE num = "getsockname"
  <2>1. Abi[num] = <<"reg", "addr", "len">>
    BY <1>16 DEF Abi
  <2>2. \A x \in DOMAIN Abi[num] : Abi[num][x] # "#buf" /\ Abi[num][x] # "#addr"
    BY <2>1
  <2> QED
    BY <2>2 DEF Convention
<1>17. CASE num = "ioctl"
  <2>1. Abi[num] = <<"reg", "reg", "buf">>
    BY <1>17 DEF Abi
  <2>2. \A x \in DOMAIN Abi[num] : Abi[num][x] # "#buf" /\ Abi[num][x] # "#addr"
    BY <2>1
  <2> QED
    BY <2>2 DEF Convention
<1>18. CASE num = "nanosleep"
  <2>1. Abi[num] = <<"buf", "buf2">>
    BY <1>18 DEF Abi
  <2>2. \A x \in DOMAIN Abi[num] : Abi[num][x] # "#buf" /\ Abi[num][x] # "#addr"
    BY <2>1
  <2> QED
    BY <2>2 DEF Convention
<1>19. CASE num = "open"
  <2>1. Abi[num] = <<"buf", "reg", "reg">>
    BY <1>19 DEF Abi
  <2>2. \A x \in DOMAIN Abi[num] : Abi[num][x] # "#buf" /\ Abi[num][x] # "#addr"
    BY <2>1
  <2> QED
    BY <2>2 DEF Convention
<1>20. CASE num = "poll"
  <2>1. Abi[num] = <<"buf", "#buf", "reg">>
    BY <1>20 DEF Abi
  <2>2. 1 \in DOMAIN Abi[num] /\ Abi[num][1] = "buf" /\ \A x \in DOMAIN Abi[num] : Abi[num][x] # "#addr"
    BY <2>1
  <2> QED
    BY <2>2 DEF Convention
<1>21. CASE num = "read"
  <2>1. Abi[num] = <<"reg", "buf", "#buf">>
    BY <1>21 DEF Abi
  <2>2. 2 \in DOMAIN Abi[num] /\ Abi[num][2] = "buf" /\ \A x \in DOMAIN Abi[num] : Abi[num][x] # "#addr"
    BY <2>1
  <2> QED
    BY <2>2 DEF Convention
<1>22. CASE num = "recvfrom"
  <2>1. Abi[num] = <<"reg", "buf", "#buf", "reg", "addr", "len">>
    BY <1>22 DEF Abi
  <2>2. 2 \in DOMAIN Abi[num] /\ Abi[num][2] = "buf" /\ \A x \in DOMAIN Abi[num] : Abi[num][x] # "#addr"
    BY <2>1
  <2> QED
    BY <2>2 DEF Convention
<1>23. CASE num = "sendto"
  <2>1. Abi[num] = <<"reg", "buf", "#buf", "reg", "addr", "#addr">>
    BY <1>23 DEF Abi
  <2>2. 2 \in DOMAIN Abi[num] /\ Abi[num][2] = "buf" /\ 5 \in DOMAIN Abi[num] /\ Abi[num][5] = "addr"
    BY <2>1
  <2> QED
    BY <2>2 DEF Convention
<1>24. CASE num = "setsockopt"
  <2>1. Abi[num] = <<"reg", "reg", "reg", "buf", "#buf">>
    BY <1>24 DEF Abi
  <2>2. 4 \in DOMAIN Abi[num] /\ Abi[num][4] = "buf" /\ \A x \in DOMAIN Abi[num] : Abi[num][x] # "#addr"
    BY <2>1
  <2> QED
    BY <2>2 DEF Convention
<1>25. CASE num = "write"
  <2>1. Abi[num] = <<"reg", "buf", "#buf">>
    BY <1>25 DEF Abi
  <2>2. 2 \in DOMAIN Abi[num] /\ Abi[num][2] = "buf" /\ \A x \in DOMAIN Abi[num] : Abi[num][x] # "#addr"
    BY <2>1
  <2> QED
    BY <2>2 DEF Convention
<1>26. num \in {"accept", "accept4", "bind", "clock_getres", "clock_gettime", "connect", "cpuid", "epoll_ctl", "epoll_pwait", "epoll_wait", "gdb_write", "gdb_write_all", "get_sgx_quote", "get_sgx_target_info", "get_snp_vcek", "getsockname", "ioctl", "nanosleep", "open", "poll", "read", "recvfrom", "sendto", "setsockopt", "write"}
  BY DEF Abi
<1> QED
  BY <1>1, <1>2, <1>3, <1>4, <1>5, <1>6, <1>7, <1>8, <1>9, <1>10, <1>11, <1>12, <1>13, <1>14, <1>15, <1>16, <1>17, <1>18, <1>19, <1>20, <1>21, <1>22, <1>23, <1>24, <1>25, <1>26

\* And in the item.
LEMMA TouchedLies ==
    ASSUME AtKernel, NEW r \in Roles, NEW x \in Touched(r)
    PROVE  /\ r \in DOMAIN Place /\ x \in Nat /\ x > Place[r].off /\ x <= Place[r].off + Cells(Place[r])
           /\ x \in DOMAIN data
<1>1. Carried
  BY AtKernelIs
<1>2. PICK i \in 1..Extent(r) : x = At(r) + i
  BY DEF Touched
<1>3. r \in DOMAIN Place
  <2>1. Extent(r) # 0
    BY <1>2, ExtentIs
  <2> QED
    BY <2>1, ExtentIs
<1>4. PICK off \in Nat, cells \in Nat, e \in Nat, size \in Nat :
         /\ off = Place[r].off /\ cells = Cells(Place[r]) /\ e = Extent(r) /\ size = Len(data)
         /\ off + cells <= size /\ e <= cells /\ DOMAIN data = 1..size
  <2>1. /\ Place[r].off \in Nat /\ Cells(Place[r]) \in Nat /\ Place[r].off + Cells(Place[r]) <= Len(data)
    BY <1>1, <1>3, Lodged
  <2>2. Extent(r) \in Nat /\ Extent(r) <= Cells(Place[r])
    BY <1>3, ExtentIs
  <2>3. Len(data) \in Nat /\ DOMAIN data = 1..Len(data)
    BY <1>1, Placed DEF Carried
  <2> QED
    BY <2>1, <2>2, <2>3
<1>5. i \in 1..e /\ x = off + i
  BY <1>2, <1>3, <1>4, AtIs
<1>6. x \in Nat /\ x > off /\ x <= off + cells /\ x \in 1..size
  BY <1>4, <1>5
<1> QED
  BY <1>3, <1>4, <1>6

\* The count of the buffer is the caller's, or cut by the block.
LEMMA BufferCount ==
    ASSUME AtKernel, NEW v, v = IF "buf" \in DOMAIN Place THEN Place["buf"].n ELSE 0,
           "buf" \notin DOMAIN Place => "buf" \in req.null /\ ~Vectored
    PROVE  \/ v = Len(Whole(mem, "buf")) \div (IF IsEpoll(req) THEN EventSize ELSE 1)
           \/ v < Len(Whole(mem, "buf")) /\ Len(data) + 1 >= cap
<1>1. Carried /\ IsRequest(req) /\ mem = UserMem(req) /\ cap \in Nat
  BY AtKernelIs DEF Carried
<1>2. CASE "buf" \notin DOMAIN Place
  <2>1. Spanned(req, "buf") = 0
    BY <1>2 DEF Spanned, Owned
  <2>2. Len(Whole(mem, "buf")) = 0
    BY <1>1, <1>2, <2>1, WholeOf, UserStorage DEF Roles
  <2>3. PICK z \in Nat : z > 0 /\ z = IF IsEpoll(req) THEN EventSize ELSE 1
    BY Constants
  <2>4. 0 \div z = 0
    BY <2>3
  <2> QED
    BY <1>2, <2>2, <2>3, <2>4
<1>3. CASE "buf" \in DOMAIN Place
  <2>1. PICK n \in Nat, m \in Nat, z \in Nat, len \in Nat :
           /\ n = Place["buf"].n /\ m = Place["buf"].region.n /\ z = Place["buf"].region.layout.size
           /\ len = Len(Whole(mem, "buf"))
    BY <1>1, <1>3, Lodged
  <2>2. /\ z > 0 /\ z = (IF IsEpoll(req) THEN EventSize ELSE 1) /\ len = m * z /\ n <= m
        /\ n < m => Len(data) >= cap /\ z = 1
    BY <1>1, <1>3, <2>1, Lodged
  <2>3. Len(data) \in Nat
    BY <1>1, Placed
  <2>4. CASE n = m
    <3>1. (m * z) \div z = m
      BY <2>2
    <3> QED
      BY <1>3, <2>1, <2>2, <2>4, <3>1
  <2>5. CASE n < m
    <3>1. n < len
      BY <2>2, <2>5
    <3> QED
      BY <1>1, <1>3, <2>1, <2>2, <2>3, <2>5, <3>1
  <2> QED
    BY <2>2, <2>4, <2>5
<1> QED
  BY <1>2, <1>3

\* Each argument reaches the kernel as the workload passed it.
LEMMA ArgumentsSeen ==
    ASSUME AtKernel, Item.num \in DOMAIN Abi, NEW p \in DOMAIN kcall.args, NEW mode, mode = Abi[Item.num][p]
    PROVE  CASE mode = "reg" -> kcall.args[p] = Arg(p)
             [] mode \in Roles -> Absent(mode) <=> kcall.args[p] = NullArg
             [] mode = "#buf" ->
                  \/ kcall.args[p].v = Len(Whole(mem, "buf")) \div (IF IsEpoll(req) THEN EventSize ELSE 1)
                  \/ kcall.args[p].v < Len(Whole(mem, "buf")) /\ Len(data) + 1 >= cap
             [] mode = "#addr" -> "addr" \in req.null \/ kcall.args[p] = Num(req.a)
<1>1. Carried /\ IsRequest(req) /\ mem = UserMem(req)
  BY AtKernelIs DEF Carried
<1>2. Passed(mode, p, kcall.args[p]) /\ mode \in Convention(Item.num)
  BY AtKernelIs DEF Convention
<1>3. \A r \in Roles \cap Convention(Item.num) : Absent(r) <=> r \notin DOMAIN Place
  BY <1>1, CarriedShape, Placed DEF Shape
<1>4. "reg" \notin Roles /\ "#buf" \notin Roles /\ "#addr" \notin Roles
  BY DEF Roles
<1>5. CASE mode = "reg"
  BY <1>2, <1>4, <1>5 DEF Passed
<1>6. CASE mode \in Roles
  <2>1. kcall.args[p] = View(mode)
    BY <1>2, <1>4, <1>6 DEF Passed
  <2>2. mode \in DOMAIN Place => Place[mode].off \in Nat
    BY <1>1, Lodged
  <2>3. mode \in DOMAIN Place => View(mode).v # NullArg.v
    BY <2>2 DEF View, NullArg
  <2>4. mode \notin DOMAIN Place <=> kcall.args[p] = NullArg
    BY <2>1, <2>3 DEF View
  <2> QED
    BY <1>2, <1>3, <1>4, <1>6, <2>4
<1>7. CASE mode = "#buf"
  <2>1. "buf" \in Convention(Item.num)
    BY <1>2, <1>7, CountsPointed
  <2>2. "buf" \notin DOMAIN Place => "buf" \in req.null /\ ~Vectored
    BY <1>1, <1>3, <2>1, CarriedShape, Placed DEF Shape, Collects, Absent, Roles, Counting, Vectored
  <2>3. PICK n \in Nat : n = (IF "buf" \in DOMAIN Place THEN Place["buf"].n ELSE 0) /\ kcall.args[p] = Num(n)
    BY <1>1, <1>2, <1>4, <1>7, Lodged DEF Passed
  <2>4. kcall.args[p].v = n
    BY <2>3, NumIsNotNull
  <2>5. \/ n = Len(Whole(mem, "buf")) \div (IF IsEpoll(req) THEN EventSize ELSE 1)
        \/ n < Len(Whole(mem, "buf")) /\ Len(data) + 1 >= cap
    BY <2>2, <2>3, BufferCount
  <2> QED
    BY <1>4, <1>7, <2>4, <2>5
<1>8. CASE mode = "#addr"
  <2>1. "addr" \notin req.null => kcall.args[p] = Num(req.a)
    <3> HAVE "addr" \notin req.null
    <3>1. "addr" \in Convention(Item.num)
      BY <1>2, <1>8, CountsPointed
    <3>2. "addr" \in DOMAIN Place
      BY <1>3, <3>1 DEF Absent, Roles
    <3>3. kcall.args[p] = Num(Place["addr"].n)
      BY <1>2, <1>4, <1>8, <3>2 DEF Passed
    <3>4. PICK n \in Nat, m \in Nat : n = Place["addr"].n /\ m = Place["addr"].region.n
      BY <1>1, <3>2, Lodged
    <3>5. ~Place["addr"].region.max
      <4>1. Mirrors(Item, Place["addr"].region) /\ IsRegion(Place["addr"].region) /\ Place["addr"].region.role = "addr"
        BY <1>1, <3>2, Lodged, Placed
      <4> QED
        BY <4>1 DEF Mirrors, IsRegion
    <3>6. n = m /\ m * 1 = Len(Whole(mem, "addr"))
      BY <1>1, <3>2, <3>4, <3>5, Lodged
    <3>7. m = req.a
      BY <1>1, <3>6, Lengths
    <3> QED
      BY <3>3, <3>4, <3>6, <3>7
  <2> QED
    BY <1>4, <1>8, <2>1
<1> QED
  BY <1>2, <1>5, <1>6, <1>7, <1>8 DEF Passed

\* What the kernel reads is what the caller had.
LEMMA ReadsSeen ==
    ASSUME AtKernel, NEW r \in Reads(kcall.num), NEW i \in 1..Extent(r)
    PROVE  data[At(r) + i] = Whole(mem, r)[i]
<1>1. Carried /\ InBlock /\ reply = NoReply /\ kcall.num = Item.num
  BY AtKernelIs
<1>2. r \in Roles
  BY DEF Reads, Roles
<1>3. r \in DOMAIN Place /\ i \in 1..Cells(Place[r])
  <2>1. Extent(r) \in Nat /\ Extent(r) # 0
    BY <1>2, ExtentIs
  <2>2. r \in DOMAIN Place /\ Extent(r) <= Cells(Place[r])
    BY <1>2, <2>1, ExtentIs
  <2>3. Cells(Place[r]) \in Nat
    BY <1>1, <2>2, Lodged
  <2> QED
    BY <2>1, <2>2, <2>3
<1>4. Place[r].region.dir # "out"
  <2>1. Mirrors(Item, Place[r].region) /\ Place[r].region.role = r
    BY <1>1, <1>3, Lodged, Placed
  <2> QED
    BY <1>1, <2>1 DEF Mirrors
<1>5. Written(r) = 0 /\ reply.from # "hostile"
  BY <1>1, <1>2 DEF NoReply, Nothing, Wrote, Written, WrittenBy, Roles
<1>6. Cell(r, i) = Whole(mem, r)[i]
  <2>1. i > 0
    OBVIOUS
  <2> QED
    BY <1>1, <1>3, <1>4, <1>5, <2>1 DEF CellsInv, AtKernel
<1>7. At(r) = Place[r].off
  BY <1>2, <1>3, AtIs
<1> QED
  BY <1>6, <1>7 DEF Cell

\* Together: the kernel sees the call of the workload.
LEMMA KernelSees ==
    ASSUME AtKernel
    PROVE  KernelSeesWorkloadCall
<1> SUFFICES ASSUME Item.num \in DOMAIN Abi
             PROVE  KernelSeesWorkloadCall
  BY AtKernelIs DEF KernelSeesWorkloadCall
<1>1. Carried /\ kcall.num = Item.num
      /\ (DOMAIN kcall.args = DOMAIN Abi[Item.num] \/ Item.num = "epoll_pwait")
  BY AtKernelIs
<1>2. PICK abi : abi = Abi[kcall.num] /\ abi = Abi[Item.num]
  BY <1>1
<1>3. ASSUME NEW p \in DOMAIN kcall.args
      PROVE CASE abi[p] = "reg" -> kcall.args[p] = Arg(p)
             [] abi[p] \in Roles -> Absent(abi[p]) <=> kcall.args[p] = NullArg
             [] abi[p] = "#buf" ->
                  \/ kcall.args[p].v = Len(Whole(mem, "buf")) \div (IF IsEpoll(req) THEN EventSize ELSE 1)
                  \/ kcall.args[p].v < Len(Whole(mem, "buf")) /\ Len(data) + 1 >= cap
             [] abi[p] = "#addr" -> "addr" \in req.null \/ kcall.args[p] = Num(req.a)
  BY <1>2, ArgumentsSeen
<1>4. \A r \in Roles : Touched(r) \subseteq DOMAIN data
  BY TouchedLies
<1>5. ASSUME NEW r1 \in Roles, NEW r2 \in Roles, r1 # r2, NEW x \in Touched(r1), x \in Touched(r2)
      PROVE  FALSE
  <2>1. /\ r1 \in DOMAIN Place /\ x \in Nat /\ x > Place[r1].off /\ x <= Place[r1].off + Cells(Place[r1])
        /\ r2 \in DOMAIN Place /\ x > Place[r2].off /\ x <= Place[r2].off + Cells(Place[r2])
    BY <1>5, TouchedLies
  <2>2. Apart(Place[r1], Place[r2])
    BY <1>1, <1>5, <2>1, Placed
  <2>3. PICK a \in Nat, b \in Nat, c \in Nat, d \in Nat :
           a = Place[r1].off /\ b = Cells(Place[r1]) /\ c = Place[r2].off /\ d = Cells(Place[r2])
    BY <1>1, <2>1, Lodged
  <2> QED
    BY <2>1, <2>2, <2>3 DEF Apart
<1>6. \A r \in Reads(kcall.num) : \A i \in 1..Extent(r) : data[At(r) + i] = Whole(mem, r)[i]
  BY ReadsSeen
<1>7. \A r1, r2 \in Roles : r1 # r2 => Touched(r1) \cap Touched(r2) = {}
  BY <1>5
<1> QED
  BY <1>1, <1>2, <1>3, <1>4, <1>6, <1>7 DEF KernelSeesWorkloadCall

----------------------------------------------------------------------------
(* What a step has to show, by where it leads.                             *)

Promises == MutatedDataReachesCaller /\ StorageProtected /\ ResultFaithful /\ ShimSurvives

\* The conjuncts of the invariant, the four promises as one.
LEMMA Promised ==
    ASSUME TypeOK', StagedInv', KernelInv', CellsInv', LiedInv', ReplyInv', Promises'
    PROVE  ProxyInv'
BY DEF ProxyInv, Promises

\* A step to the middle of a call promises nothing.
LEMMA Quiet ==
    ASSUME pc' \notin {"done", "attacked", "fault", "panic"}
    PROVE  Promises'
BY DEF Promises, MutatedDataReachesCaller, StorageProtected, NothingElseChanges, CallerProtected,
       ResultFaithful, ShimSurvives, FromKernel

\* A step out of the block leaves nothing to say of it.
LEMMA Outside ==
    ASSUME pc' \notin {"host", "kernel", "guest"}
    PROVE  KernelInv' /\ CellsInv' /\ LiedInv' /\ ReplyInv'
BY DEF KernelInv, CellsInv, LiedInv, ReplyInv, InBlock

\* A call that ends without an answer from the host.
LEMMA Unanswered ==
    ASSUME pc' = "done", reply' = NoReply, req' = req, IsRequest(req),
           \A r \in Roles : DOMAIN mem'[r] = 1..Spanned(req, r)
    PROVE  Promises'
<1>1. reply'.from = "none"
  BY DEF NoReply
<1>2. ~FromKernel'
  BY <1>1 DEF FromKernel
<1>3. CallerProtected'
  BY <1>1 DEF CallerProtected
<1> QED
  BY <1>2, <1>3 DEF Promises, MutatedDataReachesCaller, StorageProtected, NothingElseChanges,
       ResultFaithful, ShimSurvives

\* The size of the caller's storage.
LEMMA UserDomains ==
    ASSUME IsRequest(req), NEW r \in Roles
    PROVE  DOMAIN UserMem(req)[r] = 1..Spanned(req, r)
BY DEF UserMem

\* A request in progress is one of the requests.
LEMMA Asked == ASSUME TypeOK, pc # "idle" PROVE IsRequest(req) /\ cap \in Nat /\ cap < IntMax
BY ProxyAssumption, Constants DEF ProxyAssumption, TypeOK

----------------------------------------------------------------------------
(* The handler hands over.                                                 *)

Ready ==
    /\ IsRequest(req) /\ Handle(req).k = "stage" /\ backend \in Backends /\ cap \in Nat
    /\ Fits(Staging(Item, cap), cap) /\ mem = UserMem(req)

\* Where the regions will be once the item is committed.
LEMMA ReadyPlaces ==
    ASSUME Ready
    PROVE  LET size == ItemSize(Staging(Item, cap)) IN
           /\ size \in Nat
           /\ \A r \in DOMAIN Place :
                /\ r \in Roles /\ Mirrors(Item, Place[r].region) /\ Place[r].region.role = r
                /\ Place[r].off \in Nat /\ Cells(Place[r]) \in Nat
                /\ Place[r].off + Cells(Place[r]) <= size
           /\ \A r, s \in DOMAIN Place : r # s => Apart(Place[r], Place[s])
<1>1. Shape(Item, Handle(req).option)
  BY ItemFramed DEF Ready, Framed
<1>2. PICK c : c = Item
  OBVIOUS
<1>3. IsRegions(c.regions) /\ \A g \in RegionsOf(c) : Mirrors(c, g)
  BY <1>1, <1>2 DEF Shape
<1>4. PICK place, size : place = Staging(c, cap).place /\ size = ItemSize(Staging(c, cap)) /\ place = Place
  BY <1>2 DEF Place
<1>5. cap \in Nat /\ Fits(Staging(c, cap), cap)
  BY <1>2 DEF Ready
<1>6. /\ size \in Nat
      /\ DOMAIN place = {c.regions[j].role : j \in 1..Len(c.regions)}
      /\ \A j \in 1..Len(c.regions) : Settled(place[c.regions[j].role], c.regions[j], size, cap)
      /\ \A r, s \in DOMAIN place : r # s => Apart(place[r], place[s])
  BY <1>3, <1>4, <1>5, Layout
<1>7. ASSUME NEW r \in DOMAIN place
      PROVE  /\ r \in Roles /\ Mirrors(c, place[r].region) /\ place[r].region.role = r
             /\ place[r].off \in Nat /\ Cells(place[r]) \in Nat
             /\ place[r].off + Cells(place[r]) <= size
  <2>1. PICK j \in 1..Len(c.regions) : c.regions[j].role = r
    BY <1>6
  <2>2. PICK g : g = c.regions[j] /\ g \in RegionsOf(c) /\ IsRegion(g)
    BY <1>3 DEF IsRegions, RegionsOf
  <2>3. Settled(place[r], g, size, cap) /\ Mirrors(c, g) /\ g.role = r
    BY <1>3, <1>6, <2>1, <2>2
  <2>4. r \in Roles
    BY <2>2, <2>3 DEF IsRegion, Roles
  <2> QED
    BY <2>3, <2>4 DEF Settled
<1> QED
  BY <1>2, <1>4, <1>6, <1>7

\* An input region holds what the caller had.
LEMMA CommittedCells ==
    ASSUME Ready, NEW r \in DOMAIN Place, NEW i \in 1..Cells(Place[r]), Place[r].region.dir # "out"
    PROVE  Committed(Staging(Item, cap))[Place[r].off + i] = Whole(mem, r)[i]
<1>0. PICK st : st = Staging(Item, cap) /\ st.place = Place
  BY DEF Place
<1>1. PICK size \in Nat : st = Staging(Item, cap) /\ size = ItemSize(st) /\ st.place = Place
  BY <1>0, ReadyPlaces
<1>2. PICK off \in Nat, cells \in Nat : off = Place[r].off /\ cells = Cells(Place[r]) /\ off + cells <= size
  BY <1>1, ReadyPlaces
<1>3. PICK x : x = off + i
  OBVIOUS
<1>4. i \in 1..cells /\ x \in 1..size /\ x - off = i
  BY <1>2, <1>3
<1> DEFINE inputs == {s \in DOMAIN st.place :
                        /\ st.place[s].region.dir # "out"
                        /\ x > st.place[s].off
                        /\ x <= st.place[s].off + Cells(st.place[s])}
<1>5. r \in inputs
  BY <1>1, <1>2, <1>3, <1>4
<1>6. ASSUME NEW s \in inputs PROVE s = r
  <2> SUFFICES ASSUME s # r PROVE FALSE
    OBVIOUS
  <2>1. s \in DOMAIN Place /\ x > Place[s].off /\ x <= Place[s].off + Cells(Place[s])
    BY <1>1
  <2>2. Apart(Place[r], Place[s])
    BY <2>1, ReadyPlaces
  <2>3. PICK a \in Nat, b \in Nat : a = Place[s].off /\ b = Cells(Place[s])
    BY <2>1, ReadyPlaces
  <2> QED
    BY <1>2, <1>3, <1>4, <2>1, <2>2, <2>3 DEF Apart
<1>7. (CHOOSE s \in inputs : TRUE) = r /\ inputs # {}
  BY <1>5, <1>6
<1>8. Committed(st)[x] = Source(r, st.place[r])[x - st.place[r].off]
  BY <1>1, <1>4, <1>7 DEF Committed
<1>9. Source(r, Place[r]) = Whole(mem, r)
  <2>1. Mirrors(Item, Place[r].region) /\ Place[r].region.role = r
    BY ReadyPlaces
  <2>2. Place[r].region.dir = "gather" <=> (r = "buf" /\ Vectored)
    BY <2>1 DEF Mirrors
  <2> QED
    BY <2>2 DEF Source, Whole
<1> QED
  BY <1>1, <1>2, <1>3, <1>4, <1>8, <1>9

\* The size of a committed item.
LEMMA CommittedDomain ==
    ASSUME NEW st
    PROVE  /\ DOMAIN Committed(st) = 1..ItemSize(st)
           /\ Committed(st) = [i \in 1..ItemSize(st) |-> Committed(st)[i]]
<1> DEFINE inputs(i) == {r \in DOMAIN st.place :
                      /\ st.place[r].region.dir # "out"
                      /\ i > st.place[r].off
                      /\ i <= st.place[r].off + Cells(st.place[r])}
           cell(i) == IF inputs(i) = {} THEN StaleCell(i)
                      ELSE Source(CHOOSE r \in inputs(i) : TRUE, st.place[CHOOSE r \in inputs(i) : TRUE])
                             [i - st.place[CHOOSE r \in inputs(i) : TRUE].off]
<1>1. Committed(st) = [i \in 1..ItemSize(st) |-> cell(i)]
  BY DEF Committed
<1> HIDE DEF cell
<1> QED
  BY <1>1

\* Staging, committing and handing over; or no room.
LEMMA SallyStep == ASSUME ProxyInv, Sally PROVE ProxyInv'
<1>1. /\ pc = "syscall" /\ Handle(req).k = "stage" /\ TypeOK /\ StagedInv /\ IsRequest(req) /\ cap \in Nat
      /\ mem = UserMem(req) /\ reply = NoReply
  BY Asked DEF ProxyInv, Sally, StagedInv, Over
<1>2. UNCHANGED <<backend, cap, req, mem, kcall, reply, actions, session>>
  BY DEF Sally
<1>3. PICK st : st = Staging(Item, cap) /\ st = Staging(Handle(req).call, cap)
  BY DEF Item
<1>4. CASE ~Fits(st, cap) /\ Finish(Err(ENOMEM))
  <2>1. pc' = "done" /\ mem' = UserMem(req) /\ reply' = NoReply
    BY <1>1, <1>2, <1>4 DEF Finish
  <2>2. TypeOK'
    BY <1>1, <1>2, <2>1 DEF TypeOK, Live
  <2>3. StagedInv'
    BY <2>1 DEF StagedInv, InBlock
  <2>4. Promises'
    BY <1>1, <1>2, <2>1, Unanswered, UserDomains
  <2> QED
    BY <2>1, <2>2, <2>3, <2>4, Outside, Promised
<1>5. CASE Fits(st, cap) /\ data' = Committed(st) /\ ret' = ErrnoWord(ENOSYS) /\ pc' = "host"
  <2>1. Ready
    BY <1>1, <1>3, <1>5 DEF Ready, TypeOK
  <2>2. Item' = Item /\ Place' = Place
    BY <1>2 DEF Item, Place
  <2>3. TypeOK'
    BY <1>1, <1>2, <1>5 DEF TypeOK, Live
  <2>4. PICK size \in Nat : size = ItemSize(st)
    BY <1>3, <2>1, ReadyPlaces
  <2>5. DOMAIN data' = 1..size /\ Len(data') = size
    <3>1. PICK f : f = Committed(st)
      OBVIOUS
    <3>2. DOMAIN f = 1..size /\ f = [i \in 1..size |-> f[i]]
      BY <2>4, <3>1, CommittedDomain
    <3>3. Len(f) = size
      BY <3>2
    <3> QED
      BY <1>5, <3>1, <3>2, <3>3
  <2>6. StagedInv'
    BY <1>1, <1>2, <1>3, <1>5, <2>2, <2>4, <2>5 DEF StagedInv, InBlock, Over
  <2>7. KernelInv' /\ ReplyInv'
    BY <1>5 DEF KernelInv, ReplyInv
  <2>8. reply' = NoReply /\ reply'.from # "hostile" /\ \A r \in Roles : Written(r)' = 0
    BY <1>1, <1>2 DEF NoReply, Nothing, Wrote, Written, WrittenBy, Roles
  <2>9. LiedInv'
    BY <2>8 DEF LiedInv
  <2>10. ASSUME NEW r \in DOMAIN Place, NEW i \in 1..Cells(Place[r])
         PROVE  /\ ~(i <= Written(r)')
                /\ Place[r].region.dir # "out" => data'[Place[r].off + i] = Whole(mem, r)[i]
    <3>1. Written(r)' = 0 /\ i > 0
      BY <2>1, <2>8, ReadyPlaces
    <3> QED
      BY <1>3, <1>5, <2>1, <3>1, CommittedCells
  <2>11. \A r : Whole(mem, r)' = Whole(mem, r)
    BY <1>2 DEF Whole, Vectored
  <2>12. CellsInv'
    BY <2>2, <2>10, <2>11 DEF CellsInv, Cell
  <2> QED
    BY <1>5, <2>3, <2>6, <2>7, <2>9, <2>12, Quiet, Promised
<1> QED
  BY <1>3, <1>4, <1>5 DEF Sally

----------------------------------------------------------------------------
(* The steps of the shim alone.                                            *)

\* The workload asks.
LEMMA SubmitStep == ASSUME ProxyInv, NEW q \in Requests, Submit(q) PROVE ProxyInv'
<1>1. /\ pc = "idle" /\ pc' = "syscall" /\ req' = q /\ mem' = UserMem(q) /\ reply = NoReply /\ TypeOK
      /\ UNCHANGED <<backend, cap, data, ret, kcall, reply, result, actions, session>>
  BY DEF ProxyInv, StagedInv, Submit, Over
<1>2. TypeOK'
  BY <1>1 DEF TypeOK, Live
<1>3. StagedInv'
  BY <1>1 DEF StagedInv, InBlock
<1> QED
  BY <1>1, <1>2, <1>3, Outside, Quiet, Promised

\* The workload goes on.
LEMMA ReturnStep == ASSUME ProxyInv, Return PROVE ProxyInv'
<1>1. pc' = "idle" /\ reply' = NoReply /\ TypeOK /\ UNCHANGED <<backend, cap, actions, session>>
  BY DEF ProxyInv, Return
<1>2. TypeOK'
  BY <1>1 DEF TypeOK, Live
<1>3. StagedInv'
  BY <1>1 DEF StagedInv, InBlock
<1> QED
  BY <1>1, <1>2, <1>3, Outside, Quiet, Promised

\* A request the shim ends by itself.
LEMMA ShimAnswers ==
    ASSUME ProxyInv, pc = "syscall", pc' = "done", UNCHANGED <<backend, cap, req, reply, session>>,
           actions' \in BOOLEAN, \A r \in Roles : DOMAIN mem'[r] = 1..Spanned(req, r)
    PROVE  ProxyInv'
<1>1. TypeOK /\ reply = NoReply /\ IsRequest(req)
  BY Asked DEF ProxyInv, StagedInv, Over
<1>2. TypeOK'
  BY <1>1 DEF TypeOK, Live
<1>3. StagedInv'
  BY DEF StagedInv, InBlock
<1>4. Promises'
  BY <1>1, Unanswered
<1> QED
  BY <1>2, <1>3, <1>4, Outside, Promised

\* The caller's storage before its request is served.
LEMMA SyscallMem ==
    ASSUME ProxyInv, pc = "syscall"
    PROVE  /\ mem = UserMem(req) /\ IsRequest(req) /\ actions \in BOOLEAN /\ DOMAIN mem = Roles
           /\ \A r \in Roles : DOMAIN mem[r] = 1..Spanned(req, r)
BY Asked, UserDomains, UserStorage DEF ProxyInv, StagedInv, TypeOK

\* A request refused, or left to the platform.
LEMMA RefuseStep == ASSUME ProxyInv, RefuseRequest \/ LeaveToPlatform PROVE ProxyInv'
<1>1. pc = "syscall" /\ pc' = "done" /\ UNCHANGED <<backend, cap, req, reply, session, mem, actions>>
  BY DEF RefuseRequest, LeaveToPlatform, Finish
<1> QED
  BY <1>1, SyscallMem, ShimAnswers

\* A request the shim answers by itself.
LEMMA StubStep == ASSUME ProxyInv, AnswerStub PROVE ProxyInv'
<1>1. pc = "syscall" /\ UNCHANGED <<backend, cap, req, reply, session, actions>>
  BY DEF AnswerStub
<1>2. PICK outcome \in Handle(req).outcomes :
         /\ Finish(outcome.res)
         /\ mem' = [mem EXCEPT !.buf = [i \in DOMAIN @ |->
                                        IF i <= outcome.wrote THEN <<"shim", "buf", i>> ELSE @[i]]]
  BY DEF AnswerStub
<1>3. DOMAIN mem'["buf"] = DOMAIN mem["buf"] /\ \A r \in Roles : r # "buf" => mem'[r] = mem[r]
  BY <1>1, <1>2, SyscallMem DEF Roles
<1>4. \A r \in Roles : DOMAIN mem'[r] = 1..Spanned(req, r)
  BY <1>1, <1>3, SyscallMem
<1> QED
  BY <1>1, <1>2, <1>4, SyscallMem, ShimAnswers DEF Finish

\* The table of signal actions.
LEMMA RtSigactionStep == ASSUME ProxyInv, RtSigaction PROVE ProxyInv'
<1>1. pc = "syscall" /\ UNCHANGED <<backend, cap, req, reply, session>>
  BY DEF RtSigaction
<1>2. CASE Finish(Err(EINVAL)) /\ UNCHANGED <<mem, actions>>
  BY <1>1, <1>2, SyscallMem, ShimAnswers DEF Finish
<1>3. CASE req.sel[1] = "negative" /\ pc' = "panic" /\ UNCHANGED <<mem, actions, result>>
  <2>1. TypeOK'
    BY <1>1, <1>3 DEF ProxyInv, TypeOK, Over
  <2>2. StagedInv'
    BY <1>3 DEF StagedInv, InBlock, Over
  <2>3. Promises'
    BY <1>1, <1>3 DEF Promises, MutatedDataReachesCaller, StorageProtected, NothingElseChanges,
         CallerProtected, ResultFaithful, ShimSurvives, FromKernel
  <2> QED
    BY <1>3, <2>1, <2>2, <2>3, Outside, Promised
<1>4. CASE /\ mem' = IF "buf2" \notin req.null /\ actions THEN [mem EXCEPT !.buf2[1] = <<"shim", "buf2", 1>>] ELSE mem
           /\ actions' = (actions \/ "buf" \notin req.null)
           /\ Finish(Ok(0))
  <2>1. \A r \in Roles : DOMAIN mem'[r] = DOMAIN mem[r]
    BY <1>1, <1>4, SyscallMem DEF Roles
  <2>2. actions' \in BOOLEAN
    BY <1>1, <1>4, SyscallMem
  <2> QED
    BY <1>1, <1>4, <2>1, <2>2, SyscallMem, ShimAnswers DEF Finish
<1> QED
  BY <1>2, <1>3, <1>4 DEF RtSigaction

----------------------------------------------------------------------------
(* The steps of the host that leave the item as it is.                     *)

\* An item nobody writes to stays as it is.
LEMMA CellsKept ==
    ASSUME ProxyInv, InBlock, UNCHANGED <<req, cap, mem, data, reply>>
    PROVE  CellsInv' /\ LiedInv'
<1>1. Item' = Item /\ Place' = Place
  BY DEF Item, Place
<1>2. \A r : Whole(mem, r)' = Whole(mem, r) /\ Written(r)' = Written(r)
  BY DEF Whole, Vectored, Written, WrittenBy
<1>3. \A r, i : Cell(r, i)' = Cell(r, i) /\ KernelCell(r, i)' = KernelCell(r, i)
  BY <1>1 DEF Cell, KernelCell, WrittenCell
<1>4. CellsInv /\ LiedInv
  BY DEF ProxyInv
<1>5. CellsInv'
  BY <1>1, <1>2, <1>3, <1>4 DEF CellsInv
<1>6. LiedInv'
  BY <1>1, <1>3, <1>4 DEF LiedInv
<1> QED
  BY <1>5, <1>6

\* The keep ends.
LEMMA KeepOver ==
    ASSUME ProxyInv, pc' \in {"exited", "ended"}, UNCHANGED <<backend, cap, req, actions, session>>, pc # "idle"
    PROVE  ProxyInv'
<1>1. TypeOK'
  BY DEF ProxyInv, TypeOK, Over
<1>2. StagedInv'
  BY DEF StagedInv, InBlock, Over
<1> QED
  BY <1>1, <1>2, Outside, Quiet, Promised

\* The host exits, or a service gives up.
LEMMA HostEndsStep == ASSUME ProxyInv, HostExits \/ ServiceFails PROVE ProxyInv'
BY KeepOver DEF HostExits, ServiceFails

\* The host accepts what was staged and calls the kernel: it never faults.
LEMMA HostCallsStep == ASSUME ProxyInv, HostCalls PROVE ProxyInv'
<1>1. /\ pc = "host" /\ InBlock /\ TypeOK /\ StagedInv /\ CellsInv
      /\ Item.num \in DOMAIN Arms(backend) \ {"exit", "exit_group"}
      /\ UNCHANGED <<backend, cap, req, mem, data, ret, reply, result, actions, session>>
  BY DEF HostCalls, ProxyInv, InBlock
<1>2. reply = NoReply
  BY <1>1 DEF StagedInv, Over
<1>3. Carried /\ LengthHeld
  BY <1>1, <1>2, CarriedIs, LengthIs
<1>4. AcceptsAll(Arms(backend)[Item.num])
  BY <1>1, <1>3, Passing
<1>5. kcall' = KernelCall(Arms(backend)[Item.num]) /\ pc' = "kernel"
  BY <1>4 DEF HostCalls, KernelCall
<1>6. TypeOK'
  BY <1>1, <1>5 DEF TypeOK, Live
<1>7. Item' = Item /\ Place' = Place
  BY <1>1 DEF Item, Place
<1>8. StagedInv'
  BY <1>1, <1>2, <1>5, <1>7 DEF StagedInv, InBlock
<1>9. ItemArgv' = ItemArgv
  BY <1>7 DEF ItemArgv
<1>10. KernelInv'
  BY <1>1, <1>5, <1>7, <1>9 DEF KernelInv, KernelCall
<1>11. ReplyInv'
  BY <1>5 DEF ReplyInv
<1> QED
  BY <1>1, <1>5, <1>6, <1>8, <1>10, <1>11, CellsKept, Quiet, Promised

\* The length of an address is one cell that goes in.
LEMMA LengthCell ==
    ASSUME Carried, "len" \in DOMAIN Place
    PROVE  Cells(Place["len"]) = 1 /\ "len" \notin req.null /\ Place["len"].region.dir # "out"
<1>1. /\ Mirrors(Item, Place["len"].region) /\ Place["len"].region.role = "len"
      /\ Place["len"].region.max \in BOOLEAN
  BY Lodged, Placed, RegionLayout
<1>2. Place["len"].region.dir # "out" /\ ~Place["len"].region.max
  BY <1>1 DEF Mirrors
<1>3. "len" \notin req.null
  <2>1. Has(Item, "len") /\ "len" \in Convention(Item.num) /\ Item.num \in DOMAIN Abi
    BY <1>1, Placed DEF Mirrors, Roles
  <2> QED
    BY <2>1, CarriedShape DEF Shape, Absent, Roles
<1>4. PICK n \in Nat, m \in Nat : n = Place["len"].n /\ m = Place["len"].region.n
  BY Lodged
<1>5. Cells(Place["len"]) = n * 1 /\ n = m /\ m * 1 = Len(Whole(mem, "len"))
  BY <1>2, <1>4, Lodged
<1>6. Len(Whole(mem, "len")) = 1
  BY <1>3, Lengths DEF Carried
<1> QED
  BY <1>2, <1>3, <1>4, <1>5, <1>6

\* A host that lies writes what it likes, but only into the block.
LEMMA HostileStep ==
    ASSUME ProxyInv, NEW w \in HostileWords, NEW length \in 0..MaxAddr, HostileReply(w, length)
    PROVE  ProxyInv'
<1>1. /\ pc = "host" /\ pc' = "guest" /\ InBlock /\ InBlock' /\ TypeOK /\ StagedInv
      /\ ret' = w /\ reply' = Lied
      /\ UNCHANGED <<backend, cap, req, mem, kcall, result, actions, session>>
  BY DEF HostileReply, ProxyInv, InBlock
<1>2. Carried
  BY <1>1, CarriedIs
<1>3. Item' = Item /\ Place' = Place
  BY <1>1 DEF Item, Place
<1>4. data' = [i \in DOMAIN data |->
                <<"host", "block", IF "len" \in DOMAIN Place /\ i = Place["len"].off + 1
                                   THEN length ELSE i>>]
  BY DEF HostileReply
<1>5. PICK size \in Nat : DOMAIN data = 1..size /\ Len(data) = size
  BY <1>2, Placed DEF Carried
<1>6. DOMAIN data' = 1..size /\ Len(data') = size
  BY <1>4, <1>5
<1>7. TypeOK'
  BY <1>1 DEF TypeOK, Live
<1>8. StagedInv'
  BY <1>1, <1>3, <1>5, <1>6 DEF StagedInv
<1>9. reply'.from = "hostile"
  BY <1>1 DEF Lied
<1>10. KernelInv' /\ CellsInv' /\ ReplyInv'
  BY <1>1, <1>9 DEF KernelInv, CellsInv, ReplyInv
<1>11. ASSUME NEW r \in DOMAIN Place, NEW i \in 1..Cells(Place[r])
       PROVE  IF r = "len" THEN data'[Place[r].off + i][3] \in Nat
              ELSE data'[Place[r].off + i] = <<"host", "block", Place[r].off + i>>
  <2>1. PICK off \in Nat, cells \in Nat : off = Place[r].off /\ cells = Cells(Place[r]) /\ off + cells <= size
    BY <1>2, <1>5, Lodged
  <2>2. PICK x \in Nat : x = off + i /\ x \in 1..size /\ x > off /\ x <= off + cells
    BY <2>1
  <2>3. MaxAddr \in Nat
    BY Constants
  <2>4. PICK v \in Nat : /\ data'[x] = <<"host", "block", v>>
                         /\ v = IF "len" \in DOMAIN Place /\ x = Place["len"].off + 1 THEN length ELSE x
    BY <1>4, <1>5, <2>2, <2>3
  <2>5. CASE r = "len"
    <3>1. data'[x][3] = v
      BY <2>4
    <3> QED
      BY <2>1, <2>2, <2>5, <3>1
  <2>6. CASE r # "len"
    <3>1. ~("len" \in DOMAIN Place /\ x = Place["len"].off + 1)
      <4> SUFFICES ASSUME "len" \in DOMAIN Place, x = Place["len"].off + 1 PROVE FALSE
        OBVIOUS
      <4>1. Apart(Place[r], Place["len"])
        BY <1>2, <2>6, Placed
      <4>2. PICK a \in Nat, b \in Nat : a = Place["len"].off /\ b = Cells(Place["len"]) /\ b >= 1
        BY <1>2, Lodged, LengthCell
      <4> QED
        BY <2>1, <2>2, <4>1, <4>2 DEF Apart
    <3> QED
      BY <2>1, <2>2, <2>4, <2>6, <3>1
  <2> QED
    BY <2>5, <2>6
<1>12. LiedInv'
  BY <1>3, <1>11 DEF LiedInv, Cell
<1> QED
  BY <1>1, <1>7, <1>8, <1>10, <1>12, Quiet, Promised

\* Whether an answer is one depends on the request and the block only.
LEMMA AnswersKept ==
    ASSUME req' = req, cap' = cap, NEW answer, NEW res
    PROVE  Answers(answer, res)' <=> Answers(answer, res)
<1>1. Item' = Item /\ Place' = Place
  BY DEF Item, Place
<1>2. (Faithful(answer, res)' <=> Faithful(answer, res)) /\ (Attacked(res)' <=> Attacked(res))
  BY <1>1 DEF Faithful, Attacked
<1>3. TakesAddress(res)' <=> TakesAddress(res)
  BY <1>1 DEF TakesAddress
<1>4. \A r, length : Taken(r, res, length)' = Taken(r, res, length)
  BY <1>1, <1>3 DEF Taken
<1>5. AddressLength(answer)' = AddressLength(answer)
  BY DEF AddressLength
<1>6. \A r : TakesWritten(answer, res, r)' <=> TakesWritten(answer, res, r)
  BY <1>1, <1>4, <1>5 DEF TakesWritten
<1> QED
  BY <1>1, <1>2, <1>6 DEF Answers

\* Nothing happens.
LEMMA StutterStep == ASSUME ProxyInv, UNCHANGED vars PROVE ProxyInv'
<1>1. UNCHANGED <<backend, cap, pc, req, mem, data, ret, kcall, reply, result, actions, session>>
  BY DEF vars
<1>2. Item' = Item /\ Place' = Place
  BY <1>1 DEF Item, Place
<1>5. ItemArgv' = ItemArgv
  BY <1>2 DEF ItemArgv
<1>6. TypeOK'
  BY <1>1 DEF ProxyInv, TypeOK
<1>7. StagedInv'
  BY <1>1, <1>2 DEF ProxyInv, StagedInv, InBlock
<1>8. KernelInv'
  BY <1>1, <1>2, <1>5 DEF ProxyInv, KernelInv, KernelCall
<1>9. CellsInv' /\ LiedInv'
  <2>1. CASE InBlock
    BY <1>1, <2>1, CellsKept
  <2>2. CASE ~InBlock
    BY <1>1, <2>2 DEF CellsInv, LiedInv, InBlock
  <2> QED
    BY <2>1, <2>2
<1>10. ReplyInv'
  <2>1. PICK a, res : a = reply /\ res = Decode(Item.num, Item.ret, ret)
    OBVIOUS
  <2>2. Answers(a, res)' <=> Answers(a, res)
    BY <1>1, AnswersKept
  <2> QED
    BY <1>1, <1>2, <2>1, <2>2 DEF ProxyInv, ReplyInv
<1>11. MutatedDataReachesCaller' /\ ResultFaithful' /\ ShimSurvives'
  BY <1>1 DEF ProxyInv, MutatedDataReachesCaller, ResultFaithful, ShimSurvives, FromKernel, Faithful,
       Reaches, Written, WrittenBy, KernelCell, WrittenCell, Whole, Vectored, Arguments
<1>12. StorageProtected'
  <2>1. \A r : Written(r)' = Written(r) /\ Whole(mem, r)' = Whole(mem, r)
                /\ Whole(UserMem(req), r)' = Whole(UserMem(req), r)
    BY <1>1 DEF Written, WrittenBy, Whole, Vectored
  <2>2. \A r : Untouched(r)' <=> Untouched(r)
    BY <1>1, <2>1 DEF Untouched
  <2>3. NothingElseChanges'
    BY <1>1, <2>2 DEF ProxyInv, StorageProtected, NothingElseChanges, FromKernel, Arguments, Vectored
  <2>4. CallerProtected'
    BY <1>1, <1>2 DEF ProxyInv, StorageProtected, CallerProtected, Whole, Vectored
  <2> QED
    BY <2>3, <2>4 DEF StorageProtected
<1> QED
  BY <1>6, <1>7, <1>8, <1>9, <1>10, <1>11, <1>12 DEF ProxyInv

----------------------------------------------------------------------------
(* How the answers to a call are read and collected, by kind of call.      *)

\* The types under which the calls without data read their answers.
PlainRet(num) ==
    CASE num \in {"fcntl", "epoll_create1", "eventfd2", "open", "setsockopt", "socket"} -> "c_int"
      [] num \in {"balloon_memory", "get_sgx_quote_size", "mem_info"} -> "usize"
      [] num = "gdb_read" -> "u8"
      [] num = "gdb_peek" -> "option_u8"
      [] OTHER -> "unit"

PlainNums ==
    {"bind", "connect", "epoll_ctl", "setsockopt", "open", "fcntl", "close", "dup", "dup2", "dup3",
     "epoll_create1", "eventfd2", "listen", "socket", "sync", "exit", "exit_group",
     "gdb_on_session_start", "gdb_flush", "gdb_peek", "gdb_read", "gdb_write",
     "balloon_memory", "get_sgx_quote_size", "mem_info", "mmap_host", "mprotect_host",
     "munmap_host", "trim_sgx_pages"}

Plain(c) == c.num \in PlainNums /\ c.num = req.call /\ c.collect = "none" /\ c.ret = PlainRet(c.num)

Receives(c) ==
    /\ c.num \in {"read", "recvfrom"} /\ req.call \in {"read", "readv", "recvfrom"} /\ c.ret = "usize"
    /\ c.collect \in {"prefix", "scatter", "prefix_sockaddr"}
    /\ c.collect # "prefix_sockaddr" => c.num = "read" \/ "addr" \in req.null

Sends(c) ==
    /\ c.num \in {"write", "sendto", "gdb_write_all"} /\ req.call \in {"write", "writev", "sendto", "gdb_write_all"}
    /\ c.ret = "usize" /\ c.collect = "count"

NamesPeer(c) ==
    /\ c.num \in {"accept", "accept4", "getsockname"} /\ c.num = req.call
    /\ c.ret = (IF c.num = "getsockname" THEN "unit" ELSE "c_int") /\ c.collect = "sockaddr"

Polls(c) == c.num = "poll" /\ req.call = "poll" /\ c.ret = "c_int" /\ c.collect = "prefix"

Waits(c) ==
    /\ c.num \in {"epoll_wait", "epoll_pwait"} /\ req.call \in {"epoll_wait", "epoll_pwait"}
    /\ c.ret = "c_int" /\ c.collect = "prefix"

Controls(c) == c.num = "ioctl" /\ req.call = "ioctl" /\ c.ret = "c_int" /\ c.collect = "always"

Sleeps(c) == c.num = "nanosleep" /\ req.call = "nanosleep" /\ c.ret = "unit" /\ c.collect = "interrupted"

Fetches(c) ==
    /\ c.num \in {"clock_getres", "clock_gettime", "cpuid", "get_sgx_target_info"} /\ c.num = req.call
    /\ c.ret = "unit" /\ c.collect = "ok"

Certifies(c) ==
    /\ c.num \in {"get_sgx_quote", "get_snp_vcek"} /\ c.num = req.call
    /\ c.ret = "usize" /\ c.collect = "prefix"

\* Every staged call is of one of these kinds.
LEMMA Kinds ==
    ASSUME Handle(req).k = "stage"
    PROVE  \/ Plain(Item) \/ Receives(Item) \/ Sends(Item) \/ NamesPeer(Item) \/ Polls(Item)
           \/ Waits(Item) \/ Controls(Item) \/ Sleeps(Item) \/ Fetches(Item) \/ Certifies(Item)
<1>1. CASE AcceptStaged
  <2>1. PICK c : c = Item /\ c = Accept(req)
    BY <1>1 DEF AcceptStaged, Execute, Staged, Item
  <2>2. NamesPeer(c)
    BY <1>1, <2>1 DEF AcceptStaged, Accept, Call, NamesPeer
  <2> QED
    BY <2>1, <2>2
<1>2. CASE Accept4Staged
  <2>1. PICK c : c = Item /\ c = Accept4(req)
    BY <1>2 DEF Accept4Staged, Execute, Staged, Item
  <2>2. NamesPeer(c)
    BY <1>2, <2>1 DEF Accept4Staged, Accept4, Call, NamesPeer
  <2> QED
    BY <2>1, <2>2
<1>3. CASE BindStaged
  <2>1. PICK c : c = Item /\ c = Bind(req)
    BY <1>3 DEF BindStaged, Execute, Staged, Item
  <2>2. Plain(c)
    BY <1>3, <2>1 DEF BindStaged, Bind, Call, Plain, PlainNums, PlainRet
  <2> QED
    BY <2>1, <2>2
<1>4. CASE ClockGetresStaged
  <2>1. PICK c : c = Item /\ c = ClockGetres(req)
    BY <1>4 DEF ClockGetresStaged, Execute, Staged, Item
  <2>2. Fetches(c)
    BY <1>4, <2>1 DEF ClockGetresStaged, ClockGetres, Call, Fetches
  <2> QED
    BY <2>1, <2>2
<1>5. CASE ClockGettimeStaged
  <2>1. PICK c : c = Item /\ c = ClockGettime(req)
    BY <1>5 DEF ClockGettimeStaged, Execute, Staged, Item
  <2>2. Fetches(c)
    BY <1>5, <2>1 DEF ClockGettimeStaged, ClockGettime, Call, Fetches
  <2> QED
    BY <2>1, <2>2
<1>6. CASE ConnectStaged
  <2>1. PICK c : c = Item /\ c = Connect(req)
    BY <1>6 DEF ConnectStaged, Execute, Staged, Item
  <2>2. Plain(c)
    BY <1>6, <2>1 DEF ConnectStaged, Connect, Call, Plain, PlainNums, PlainRet
  <2> QED
    BY <2>1, <2>2
<1>7. CASE EpollCtlStaged
  <2>1. PICK c : c = Item /\ c = EpollCtl(req)
    BY <1>7 DEF EpollCtlStaged, Execute, Staged, Item
  <2>2. Plain(c)
    BY <1>7, <2>1 DEF EpollCtlStaged, EpollCtl, Call, Plain, PlainNums, PlainRet
  <2> QED
    BY <2>1, <2>2
<1>8. CASE EpollWaitStaged
  <2>1. PICK c : c = Item /\ c = EpollWait(req)
    BY <1>8 DEF EpollWaitStaged, OrAttacked, Staged, Item
  <2>2. Waits(c)
    BY <1>8, <2>1 DEF EpollWaitStaged, EpollWait, Call, Waits
  <2> QED
    BY <2>1, <2>2
<1>9. CASE EpollPwaitStaged
  <2>1. PICK c : c = Item /\ c = EpollPwait(req)
    BY <1>9 DEF EpollPwaitStaged, OrAttacked, Staged, Item
  <2>2. Waits(c)
    BY <1>9, <2>1 DEF EpollPwaitStaged, EpollPwait, Call, Waits
  <2> QED
    BY <2>1, <2>2
<1>10. CASE FcntlStaged
  <2>1. PICK c : c = Item /\ c = AllocFcntl(req)
    BY <1>10 DEF FcntlStaged, Execute, Staged, Item
  <2>2. Plain(c)
    BY <1>10, <2>1 DEF FcntlStaged, AllocFcntl, Call, Plain, PlainNums, PlainRet
  <2> QED
    BY <2>1, <2>2
<1>11. CASE GetsocknameStaged
  <2>1. PICK c : c = Item /\ c = Getsockname(req)
    BY <1>11 DEF GetsocknameStaged, Execute, Staged, Item
  <2>2. NamesPeer(c)
    BY <1>11, <2>1 DEF GetsocknameStaged, Getsockname, Call, NamesPeer
  <2> QED
    BY <2>1, <2>2
<1>12. CASE IoctlStaged
  <2>1. PICK c : c = Item /\ c = AllocIoctl(req)
    BY <1>12 DEF IoctlStaged, Execute, Staged, Item
  <2>2. Controls(c)
    BY <1>12, <2>1 DEF IoctlStaged, AllocIoctl, Call, Controls
  <2> QED
    BY <2>1, <2>2
<1>13. CASE NanosleepStaged
  <2>1. PICK c : c = Item /\ c = Nanosleep(req)
    BY <1>13 DEF NanosleepStaged, Execute, Staged, Item
  <2>2. Sleeps(c)
    BY <1>13, <2>1 DEF NanosleepStaged, Nanosleep, Call, Sleeps
  <2> QED
    BY <2>1, <2>2
<1>14. CASE OpenStaged
  <2>1. PICK c : c = Item /\ c = AllocOpen(req)
    BY <1>14 DEF OpenStaged, Execute, Staged, Item
  <2>2. Plain(c)
    BY <1>14, <2>1 DEF OpenStaged, AllocOpen, Call, Plain, PlainNums, PlainRet
  <2> QED
    BY <2>1, <2>2
<1>15. CASE PollStaged
  <2>1. PICK c : c = Item /\ c = Poll(req)
    BY <1>15 DEF PollStaged, OrAttacked, Staged, Item
  <2>2. Polls(c)
    BY <1>15, <2>1 DEF PollStaged, Poll, Call, Polls
  <2> QED
    BY <2>1, <2>2
<1>16. CASE ReadStaged
  <2>1. PICK c : c = Item /\ c = Read(req)
    BY <1>16 DEF ReadStaged, OrAttacked, Staged, Item
  <2>2. Receives(c)
    BY <1>16, <2>1 DEF ReadStaged, Read, Call, Receives
  <2> QED
    BY <2>1, <2>2
<1>17. CASE ReadvStaged
  <2>1. PICK c : c = Item /\ c = Readv(req)
    BY <1>17 DEF ReadvStaged, OrAttacked, Staged, Item
  <2>2. Receives(c)
    BY <1>17, <2>1 DEF ReadvStaged, Readv, Call, Receives
  <2> QED
    BY <2>1, <2>2
<1>18. CASE RecvStaged
  <2>1. PICK c : c = Item /\ c = Recv(req)
    BY <1>18 DEF RecvStaged, OrAttacked, Staged, Item
  <2>2. Receives(c)
    BY <1>18, <2>1 DEF RecvStaged, Recv, Call, Receives
  <2> QED
    BY <2>1, <2>2
<1>19. CASE RecvfromStaged
  <2>1. PICK c : c = Item /\ c = Recvfrom(req)
    BY <1>19 DEF RecvfromStaged, OrAttacked, Staged, Item
  <2>2. Receives(c)
    BY <1>19, <2>1 DEF RecvfromStaged, Recvfrom, Call, Receives
  <2> QED
    BY <2>1, <2>2
<1>20. CASE SendStaged
  <2>1. PICK c : c = Item /\ c = Send(req)
    BY <1>20 DEF SendStaged, OrAttacked, Staged, Item
  <2>2. Sends(c)
    BY <1>20, <2>1 DEF SendStaged, Send, Call, Sends
  <2> QED
    BY <2>1, <2>2
<1>21. CASE SendtoStaged
  <2>1. PICK c : c = Item /\ c = Sendto(req)
    BY <1>21 DEF SendtoStaged, OrAttacked, Staged, Item
  <2>2. Sends(c)
    BY <1>21, <2>1 DEF SendtoStaged, Sendto, Call, Sends
  <2> QED
    BY <2>1, <2>2
<1>22. CASE SetsockoptStaged
  <2>1. PICK c : c = Item /\ c = Setsockopt(req)
    BY <1>22 DEF SetsockoptStaged, Execute, Staged, Item
  <2>2. Plain(c)
    BY <1>22, <2>1 DEF SetsockoptStaged, Setsockopt, Call, Plain, PlainNums, PlainRet
  <2> QED
    BY <2>1, <2>2
<1>23. CASE WriteStaged
  <2>1. PICK c : c = Item /\ c = Write(req)
    BY <1>23 DEF WriteStaged, OrAttacked, Staged, Item
  <2>2. Sends(c)
    BY <1>23, <2>1 DEF WriteStaged, Write, Call, Sends
  <2> QED
    BY <2>1, <2>2
<1>24. CASE WritevStaged
  <2>1. PICK c : c = Item /\ c = Writev(req)
    BY <1>24 DEF WritevStaged, OrAttacked, Staged, Item
  <2>2. Sends(c)
    BY <1>24, <2>1 DEF WritevStaged, Writev, Call, Sends
  <2> QED
    BY <2>1, <2>2
<1>25. CASE WriteAllStaged
  <2>1. PICK c : c = Item /\ c = WriteAll(req)
    BY <1>25 DEF WriteAllStaged, OrAttacked, Staged, Item
  <2>2. Sends(c)
    BY <1>25, <2>1 DEF WriteAllStaged, WriteAll, Call, Sends
  <2> QED
    BY <2>1, <2>2
<1>26. CASE CpuidStaged
  <2>1. PICK c : c = Item /\ c = Cpuid(req)
    BY <1>26 DEF CpuidStaged, Execute, Staged, Item
  <2>2. Fetches(c)
    BY <1>26, <2>1 DEF CpuidStaged, Cpuid, Call, Fetches
  <2> QED
    BY <2>1, <2>2
<1>27. CASE QuoteStaged
  <2>1. PICK c : c = Item /\ c = GetSgxQuote(req)
    BY <1>27 DEF QuoteStaged, OrAttacked, Staged, Item
  <2>2. Certifies(c)
    BY <1>27, <2>1 DEF QuoteStaged, GetSgxQuote, Call, Certifies
  <2> QED
    BY <2>1, <2>2
<1>28. CASE TargetInfoStaged
  <2>1. PICK c : c = Item /\ c = GetSgxTargetInfo(req)
    BY <1>28 DEF TargetInfoStaged, Execute, Staged, Item
  <2>2. Fetches(c)
    BY <1>28, <2>1 DEF TargetInfoStaged, GetSgxTargetInfo, Call, Fetches
  <2> QED
    BY <2>1, <2>2
<1>29. CASE VcekStaged
  <2>1. PICK c : c = Item /\ c = GetSnpVcek(req)
    BY <1>29 DEF VcekStaged, OrAttacked, Staged, Item
  <2>2. Certifies(c)
    BY <1>29, <2>1 DEF VcekStaged, GetSnpVcek, Call, Certifies
  <2> QED
    BY <2>1, <2>2
<1>30. CASE PassthroughStaged \/ ExitStaged
  <2>1. PICK c : c = Item /\ c = Passthrough(req)
    BY <1>30 DEF PassthroughStaged, ExitStaged, Execute, OrAttacked, Staged, Item
  <2>2. req.call \in {"close", "dup", "dup2", "dup3", "epoll_create1", "eventfd2", "exit", "exit_group",
               "listen", "socket", "sync"}
    BY <1>30 DEF PassthroughStaged, ExitStaged, PassthroughArgs
  <2>3. c.num = req.call /\ c.collect = "none" /\ c.ret = PassthroughRet[req.call]
    BY <2>1 DEF Passthrough, Call
  <2>4. PassthroughRet[req.call] = IF req.call \in {"epoll_create1", "eventfd2", "socket"} THEN "c_int" ELSE "unit"
    BY <2>2 DEF PassthroughRet, PassthroughArgs
  <2>5. Plain(c)
    BY <2>2, <2>3, <2>4 DEF Plain, PlainNums, PlainRet
  <2> QED
    BY <2>1, <2>5
<1>31. CASE GdbStaged
  <2>1. PICK c : c = Item /\ c = GdbPassthrough(req)
    BY <1>31 DEF GdbStaged, Execute, Staged, Item
  <2>2. req.call \in {"gdb_flush", "gdb_on_session_start", "gdb_peek", "gdb_read", "gdb_write"}
    BY <1>31 DEF GdbStaged, GdbPassthroughRet
  <2>3. c.num = req.call /\ c.collect = "none" /\ c.ret = GdbPassthroughRet[req.call]
    BY <2>1 DEF GdbPassthrough, Call
  <2>4. GdbPassthroughRet[req.call] = IF req.call = "gdb_read" THEN "u8"
                                      ELSE IF req.call = "gdb_peek" THEN "option_u8" ELSE "unit"
    BY <2>2 DEF GdbPassthroughRet
  <2>5. Plain(c)
    BY <2>2, <2>3, <2>4 DEF Plain, PlainNums, PlainRet
  <2> QED
    BY <2>1, <2>5
<1>32. CASE EnarxStaged
  <2>1. PICK c : c = Item /\ c = EnarxPassthrough(req)
    BY <1>32 DEF EnarxStaged, Execute, Staged, Item
  <2>2. req.call \in {"balloon_memory", "get_sgx_quote_size", "mem_info", "mmap_host", "mprotect_host",
                      "munmap_host", "trim_sgx_pages"}
    BY <1>32 DEF EnarxStaged, EnarxPassthroughArgs
  <2>3. c.num = req.call /\ c.collect = "none"
        /\ c.ret = IF req.call \in {"balloon_memory", "get_sgx_quote_size", "mem_info"} THEN "usize" ELSE "unit"
    BY <2>1 DEF EnarxPassthrough, Call
  <2>4. Plain(c)
    BY <2>2, <2>3 DEF Plain, PlainNums, PlainRet
  <2> QED
    BY <2>1, <2>4
<1> QED
  BY <1>1, <1>2, <1>3, <1>4, <1>5, <1>6, <1>7, <1>8, <1>9, <1>10, <1>11, <1>12, <1>13, <1>14, <1>15, <1>16, <1>17, <1>18, <1>19, <1>20, <1>21, <1>22, <1>23, <1>24, <1>25, <1>26, <1>27, <1>28, <1>29, <1>30, <1>31, <1>32, WhatIsStaged

----------------------------------------------------------------------------
(* How return words read back.                                             *)

\* An error comes back as that error.
LEMMA DecodesError ==
    ASSUME NEW num, NEW type, NEW e \in 1..4
    PROVE  Decode(num, type, ErrnoWord(e)) =
             IF num \in GdbNames /\ type = "option_u8" /\ e = 1 THEN Ok(None) ELSE Err(e)
<1>1. PICK w \in Int : w = ErrnoWord(e) /\ w = WordMax + 1 - e
  BY Constants DEF ErrnoWord
<1>2. IsErrno(w) /\ WordMax + 1 - w = e /\ (w = WordMax <=> e = 1)
  BY <1>1, Constants DEF IsErrno, ErrnoStart
<1>3. Errno(w) = Err(e)
  BY <1>2 DEF Errno
<1>4. CASE num \in GdbNames
  <2>1. Decode(num, type, w) = DecodeGdbcall(type, w)
    BY <1>4, ArmNames DEF Decode, GdbNames, SyscallNames
  <2> QED
    BY <1>1, <1>2, <1>3, <1>4, <2>1 DEF DecodeGdbcall
<1>5. CASE num \in SyscallNames
  <2>1. Decode(num, type, w) = DecodeSyscall(type, w) /\ num \notin GdbNames
    BY <1>5, ArmNames DEF Decode, GdbNames, SyscallNames
  <2> QED
    BY <1>1, <1>2, <1>3, <2>1 DEF DecodeSyscall
<1>6. CASE num \notin GdbNames /\ num \notin SyscallNames
  <2>1. Decode(num, type, w) = DecodeEnarxcall(type, w)
    BY <1>6, ArmNames DEF Decode
  <2> QED
    BY <1>1, <1>2, <1>3, <1>6, <2>1 DEF DecodeEnarxcall
<1> QED
  BY <1>4, <1>5, <1>6

\* A value comes back as that value where the type can hold it.
LEMMA DecodesWord ==
    ASSUME NEW num, NEW type, NEW w \in Nat, w <= IntMax
    PROVE  /\ type = "unit" => Decode(num, type, w) = Ok(0)
           /\ type = "usize" => Decode(num, type, w) = Ok(w)
           /\ type = "c_int" => Decode(num, type, w) = Ok(w)
           /\ type \in {"u8", "option_u8"} /\ num \in GdbNames =>
                Decode(num, type, w) = IF w > ByteMax THEN Err(EOVERFLOW) ELSE Ok(w)
<1>1. ~IsErrno(w) /\ ~(w > IntMax)
  BY Constants DEF IsErrno, ErrnoStart
<1>2. CASE num \in GdbNames
  <2>1. Decode(num, type, w) = DecodeGdbcall(type, w)
    BY <1>2, ArmNames DEF Decode, GdbNames, SyscallNames
  <2> QED
    BY <1>1, <1>2, <2>1 DEF DecodeGdbcall
<1>3. CASE num \in SyscallNames
  <2>1. Decode(num, type, w) = DecodeSyscall(type, w) /\ num \notin GdbNames
    BY <1>3, ArmNames DEF Decode, GdbNames, SyscallNames
  <2> QED
    BY <1>1, <1>3, <2>1 DEF DecodeSyscall
<1>4. CASE num \notin GdbNames /\ num \notin SyscallNames
  <2>1. Decode(num, type, w) = DecodeEnarxcall(type, w)
    BY <1>4, ArmNames DEF Decode
  <2> QED
    BY <1>1, <1>4, <2>1 DEF DecodeEnarxcall
<1> QED
  BY <1>2, <1>3, <1>4

----------------------------------------------------------------------------
(* Answers that bring no data.                                             *)

\* The two outcomes differ.
LEMMA Outcomes ==
    ASSUME NEW v
    PROVE  Ok(v).t = "ok" /\ Ok(v).v = v /\ Err(v).t = "err" /\ Err(v).v = v
BY DEF Ok, Err

\* What an answer that writes nothing has written.
LEMMA NothingWritten ==
    ASSUME NEW a, a.wrote = Nothing
    PROVE  a.wrote.len = -1 /\ \A r \in Roles : WrittenBy(a, r) = 0
BY DEF Nothing, Wrote, WrittenBy, Roles

\* What is copied back when nothing was written is what the caller had.
LEMMA TakesNothing ==
    ASSUME Carried, NEW a, a.wrote = Nothing, NEW res, NEW r \in DOMAIN Place,
           \/ Item.collect \in {"none", "count", "always"}
           \/ res.t = "err" /\ res # Err(EINTR)
           \/ Item.collect = "interrupted" /\ res.t = "ok" /\ res # Err(EINTR)
    PROVE  TakesWritten(a, res, r)
<1>1. r \in Roles /\ Mirrors(Item, Place[r].region) /\ Place[r].region.role = r /\ Cells(Place[r]) \in Nat
      /\ Place[r].n \in Nat
  BY Placed, Lodged
<1>2. WrittenBy(a, r) = 0 /\ AddressLength(a) = req.a /\ req.a \in Nat
  BY <1>1, NothingWritten, Lengths DEF AddressLength, Carried
<1>3. PICK taken : taken = Taken(r, res, req.a)
  OBVIOUS
<1>4. Collects(Item, Handle(req).option)
  BY CarriedShape DEF Shape
<1>5. Item.collect \in {"none", "ok", "always", "interrupted", "sockaddr", "prefix", "scatter", "prefix_sockaddr", "count"}
  BY <1>4 DEF Collects, Counting
<1>6. CASE Item.collect = "always"
  <2>1. r # "buf" => taken = 0
    BY <1>1, <1>3, <1>6 DEF Taken, TakesAddress
  <2>2. r = "buf" => taken = Cells(Place[r]) /\ Place[r].region.dir # "out"
    BY <1>1, <1>3, <1>6 DEF Taken, TakesAddress, Mirrors
  <2> QED
    BY <1>1, <1>2, <1>3, <2>1, <2>2 DEF TakesWritten
<1>7. CASE Item.collect = "sockaddr" /\ res.t = "err"
  <2>1. r \notin {"len", "addr"} => taken = 0
    BY <1>1, <1>3, <1>7 DEF Taken, TakesAddress
  <2>2. r = "len" => taken = 1 /\ Place[r].region.dir # "out"
    BY <1>1, <1>3, <1>7 DEF Taken, TakesAddress, Mirrors
  <2>3. r = "addr" => taken = AtMost(Place[r].n, req.a)
    BY <1>1, <1>3, <1>7 DEF Taken, TakesAddress
  <2>4. AtMost(Place[r].n, req.a) \in Nat
    BY <1>1, <1>2 DEF AtMost
  <2>5. req.call \in {"accept", "accept4", "getsockname"}
    BY <1>4, <1>7 DEF Collects
  <2> QED
    BY <1>2, <1>3, <1>7, <2>1, <2>2, <2>3, <2>4, <2>5 DEF TakesWritten
<1>8. CASE ~(Item.collect = "always") /\ ~(Item.collect = "sockaddr" /\ res.t = "err")
  <2>1. taken = 0
    BY <1>1, <1>3, <1>5, <1>8 DEF Taken, TakesAddress
  <2> QED
    BY <1>2, <1>3, <2>1 DEF TakesWritten
<1> QED
  BY <1>6, <1>7, <1>8

\* An answer that writes nothing.
LEMMA AnswersNothing ==
    ASSUME Carried, NEW a, a.wrote = Nothing, a.from = "kernel", a.ret \in Nat, NEW res,
           \/ Item.collect \in {"none", "count", "always"}
           \/ res.t = "err" /\ res # Err(EINTR)
           \/ Item.collect = "interrupted" /\ res.t = "ok" /\ res # Err(EINTR),
           Faithful(a, res), ~Attacked(res)
    PROVE  Answers(a, res)
<1>1. \A r \in DOMAIN Place : TakesWritten(a, res, r) /\ Cells(Place[r]) \in Nat
  BY TakesNothing, Lodged
<1> QED
  BY <1>1, NothingWritten DEF Answers

\* When the shim does not give up.
LEMMA NotAttacked ==
    ASSUME NEW res
    PROVE  /\ res.t = "err" => ~Attacked(res)
           /\ Item.collect \notin Counting /\ req.call \notin {"exit", "exit_group"} => ~Attacked(res)
           /\ ~(res.v > Place["buf"].n) /\ req.call \notin {"exit", "exit_group"} => ~Attacked(res)
BY DEF Attacked, Claims, Counting

\* A failure is reported as it is.
LEMMA AnswersFailure ==
    ASSUME Carried, NEW e \in {1, 4}, NEW a, a = Replied(ErrnoWord(e), Err(e), Nothing)
    PROVE  Answers(a, Decode(Item.num, Item.ret, a.ret))
<1>1. a.from = "kernel" /\ a.ret = ErrnoWord(e) /\ a.truth = Err(e) /\ a.wrote = Nothing /\ a.ret \in Nat
  BY Constants DEF Replied, ErrnoWord
<1>2. PICK res : /\ res = Decode(Item.num, Item.ret, a.ret)
                 /\ res = IF Item.num \in GdbNames /\ Item.ret = "option_u8" /\ e = 1 THEN Ok(None) ELSE Err(e)
  BY <1>1, DecodesError
<1>3. CASE ~(Item.num \in GdbNames /\ Item.ret = "option_u8" /\ e = 1)
  <2>1. res = Err(e) /\ res.t = "err" /\ res.v = e /\ Err(EINTR).v = 2
    BY <1>2, <1>3, Outcomes DEF EINTR
  <2>2. res # Err(EINTR)
    BY <2>1
  <2>3. Faithful(a, res) /\ ~Attacked(res)
    BY <1>1, <2>1, NotAttacked DEF Faithful
  <2> QED
    BY <1>1, <1>2, <2>1, <2>2, <2>3, AnswersNothing
<1>4. CASE Item.num \in GdbNames /\ Item.ret = "option_u8" /\ e = 1
  <2>1. req.call = "gdb_peek" /\ Item.collect = "none"
    <3>1. Plain(Item)
      BY <1>4, Kinds DEF Carried, Receives, Sends, NamesPeer, Polls, Waits, Controls, Sleeps, Fetches, Certifies
    <3>2. PlainRet(Item.num) = "option_u8" => Item.num = "gdb_peek"
      BY DEF PlainRet
    <3> QED
      BY <1>4, <3>1, <3>2 DEF Plain
  <2>2. a.ret = WordMax
    BY <1>1, <1>4, Constants DEF ErrnoWord
  <2>3. Faithful(a, res)
    BY <2>1, <2>2 DEF Faithful
  <2>4. ~Attacked(res)
    BY <2>1, NotAttacked DEF Counting
  <2> QED
    BY <1>1, <1>2, <2>1, <2>3, <2>4, AnswersNothing
<1> QED
  BY <1>3, <1>4

\* The host does not know the number and leaves ENOSYS.
LEMMA HostSkipsStep == ASSUME ProxyInv, HostSkips PROVE ProxyInv'
<1>1. /\ pc = "host" /\ pc' = "guest" /\ InBlock /\ TypeOK /\ StagedInv /\ CellsInv /\ reply = NoReply
      /\ ret = ErrnoWord(4) /\ ret' = ret /\ reply' = Replied(ret, Err(ENOSYS), Nothing)
      /\ UNCHANGED <<backend, cap, req, mem, data, kcall, result, actions, session>>
  BY DEF HostSkips, ProxyInv, StagedInv, InBlock, Over, ENOSYS
<1>2. Carried
  BY <1>1, CarriedIs
<1>3. Item' = Item /\ Place' = Place
  BY <1>1 DEF Item, Place
<1>4. PICK a, res : /\ a = Replied(ErrnoWord(4), Err(4), Nothing) /\ a = reply'
                    /\ res = Decode(Item.num, Item.ret, a.ret)
  BY <1>1 DEF ENOSYS
<1>5. Answers(a, res) /\ a.ret = ErrnoWord(4) /\ a.from = "kernel" /\ a.wrote = Nothing
  BY <1>2, <1>4, AnswersFailure DEF Replied
<1>6. Answers(a, res)'
  BY <1>1, <1>5, AnswersKept
<1>7. ReplyInv'
  BY <1>1, <1>3, <1>4, <1>5, <1>6 DEF ReplyInv
<1>8. TypeOK' /\ KernelInv'
  BY <1>1 DEF TypeOK, Live, KernelInv
<1>9. StagedInv'
  BY <1>1, <1>3 DEF StagedInv, InBlock
<1>10. LiedInv'
  BY <1>4, <1>5 DEF LiedInv
<1>11. CellsInv'
  <2>1. \A r \in Roles : Written(r) = 0 /\ Written(r)' = 0
    <3>1. NoReply.wrote = Nothing
      BY DEF NoReply
    <3> QED
      BY <1>1, <1>4, <1>5, <3>1, NothingWritten DEF Written
  <2>2. DOMAIN Place \subseteq Roles
    BY <1>2, Placed
  <2>3. \A r : Whole(mem, r)' = Whole(mem, r)
    BY <1>1 DEF Whole, Vectored
  <2>4. \A r, i : Cell(r, i)' = Cell(r, i)
    BY <1>1, <1>3 DEF Cell
  <2>5. NoReply.from # "hostile"
    BY DEF NoReply
  <2>6. ASSUME NEW r \in DOMAIN Place, NEW i \in 1..Cells(Place[r])
        PROVE  /\ ~(i <= Written(r)')
               /\ Place[r].region.dir # "out" => Cell(r, i)' = Whole(mem, r)'[i]
    <3>1. Written(r) = 0 /\ Written(r)' = 0 /\ i > 0 /\ ~(i <= 0)
      BY <1>2, <2>1, <2>2, Lodged
    <3> QED
      BY <1>1, <2>3, <2>4, <2>5, <3>1 DEF CellsInv
  <2> QED
    BY <1>3, <2>6 DEF CellsInv
<1> QED
  BY <1>1, <1>7, <1>8, <1>9, <1>10, <1>11, Quiet, Promised

----------------------------------------------------------------------------
(* Answers that bring data.                                                *)

\* A region stands for an argument that is not null.
LEMMA Present ==
    ASSUME Carried, NEW r \in DOMAIN Place
    PROVE  r \notin req.null /\ r \in Roles
<1>1. r \in Roles /\ Mirrors(Item, Place[r].region) /\ Place[r].region.role = r /\ Has(Item, r)
  BY Placed, Lodged
<1>2. Item.num \in DOMAIN Abi /\ r \in Convention(Item.num)
  BY <1>1 DEF Mirrors
<1> QED
  BY <1>1, <1>2, CarriedShape DEF Shape, Absent

\* A region that is not cut is as large as its argument.
LEMMA Uncut ==
    ASSUME Carried, NEW r \in DOMAIN Place, r # "buf" \/ (Item.collect \notin Counting /\ ~IsEpoll(req) /\ ~Vectored)
    PROVE  /\ Place[r].n = Cells(Place[r]) /\ Cells(Place[r]) = Len(Whole(mem, r))
           /\ r = "buf" => Cells(Place[r]) = req.n
           /\ r = "buf2" => Cells(Place[r]) = req.n2
           /\ r = "addr" => Cells(Place[r]) = req.a
<1>1. r \in Roles /\ Mirrors(Item, Place[r].region) /\ Place[r].region.role = r /\ r \notin req.null
  BY Placed, Lodged, Present
<1>2. PICK n \in Nat, m \in Nat, cells \in Nat :
         n = Place[r].n /\ m = Place[r].region.n /\ cells = Cells(Place[r])
  BY Lodged
<1>3. ~Place[r].region.max
  BY <1>1 DEF Mirrors
<1>4. cells = n * 1 /\ n = m /\ m * 1 = Len(Whole(mem, r))
  BY <1>2, <1>3, Lodged
<1>5. cells = Len(Whole(mem, r)) /\ n = cells
  BY <1>4
<1>6. /\ r = "buf" => Len(Whole(mem, r)) = req.n
      /\ r = "buf2" => Len(Whole(mem, r)) = req.n2
      /\ r = "addr" => Len(Whole(mem, r)) = req.a
  BY <1>1, Lengths DEF Carried
<1> QED
  BY <1>2, <1>5, <1>6

\* No count of elements comes near an error word.
LEMMA BufferFits ==
    ASSUME Carried, "buf" \in DOMAIN Place
    PROVE  /\ Place["buf"].n \in Nat /\ Place["buf"].n + 1 <= IntMax
           /\ Cells(Place["buf"]) \in Nat /\ Cells(Place["buf"]) <= IntMax
           /\ ~IsEpoll(req) => Cells(Place["buf"]) = Place["buf"].n
<1>1. PICK n \in Nat, z \in Nat, off \in Nat, cells \in Nat, size \in Nat :
         /\ n = Place["buf"].n /\ z = Place["buf"].region.layout.size /\ off = Place["buf"].off
         /\ cells = Cells(Place["buf"]) /\ size = Len(data)
  BY Lodged, Placed
<1>2. z > 0 /\ cells = n * z /\ off + cells <= size /\ size <= cap /\ cap \in Nat /\ cap < IntMax
      /\ (~IsEpoll(req) => z = 1)
  BY <1>1, Lodged, Placed DEF Carried
<1>3. n * 1 <= n * z
  BY <1>2, ProductGrows
<1>4. n <= cells /\ n < IntMax /\ cells <= IntMax
  BY <1>2, <1>3, Constants
<1> QED
  BY <1>1, <1>2, <1>4, Constants

\* The calls whose result counts the buffer's elements pass their number.
LEMMA BufferCounted ==
    ASSUME AtKernel, Item.collect \in Counting
    PROVE  "buf" \in DOMAIN Place /\ Counted("buf") = Place["buf"].n /\ Handle(req).option
<1>1. Carried /\ kcall.num = Item.num
  BY AtKernelIs
<1>2. Has(Item, "buf") /\ Item.num \in DOMAIN Abi /\ "#buf" \in Convention(Item.num) /\ Handle(req).option
  BY <1>1, CarriedShape DEF Shape, Collects
<1>3. "buf" \in DOMAIN Place
  BY <1>1, <1>2, Placed DEF Roles
<1>4. CountOf["buf"] = "#buf"
  BY DEF CountOf
<1>5. Position(kcall.num, CountOf["buf"]) # 0
  BY <1>1, <1>2, <1>4, Positions, AbiTuples DEF Convention
<1> QED
  BY <1>2, <1>3, <1>5, CountIs

\* The parts of a reply, named.
LEMMA Reply ==
    ASSUME NEW word, NEW truth, NEW b, NEW b2, NEW ad, NEW l, NEW a, a = Replied(word, truth, Wrote(b, b2, ad, l))
    PROVE  /\ a.from = "kernel" /\ a.ret = word /\ a.truth = truth /\ a.wrote.len = l
           /\ WrittenBy(a, "buf") = b /\ WrittenBy(a, "buf2") = b2 /\ WrittenBy(a, "addr") = ad
           /\ WrittenBy(a, "len") = IF l >= 0 THEN 1 ELSE 0
BY DEF Replied, Wrote, WrittenBy

\* The address and its length.
LEMMA AddressesAre ==
    ASSUME AtKernel, NEW b, NEW w \in Addresses(b),
           Has(Item, "addr") => Has(Item, "len")
    PROVE  \/ "addr" \notin DOMAIN Place /\ w = Wrote(b, 0, 0, -1)
           \/ /\ "addr" \in DOMAIN Place /\ "len" \in DOMAIN Place
              /\ \E l \in Nat : w = Wrote(b, 0, AtMost(Place["addr"].n, l), l)
              /\ Place["addr"].n = Cells(Place["addr"])
<1>1. Carried /\ LengthHeld
  BY AtKernelIs
<1>2. CASE "addr" \notin DOMAIN Place
  <2>1. At("addr") = -1
    BY <1>2, AtIs DEF Roles
  <2> QED
    BY <1>2, <2>1 DEF Addresses
<1>3. CASE "addr" \in DOMAIN Place
  <2>1. At("addr") # -1
    <3>1. At("addr") = Place["addr"].off /\ Place["addr"].off \in Nat
      BY <1>1, <1>3, AtIs, Lodged DEF Roles
    <3> QED
      BY <3>1
  <2>2. "len" \in DOMAIN Place
    BY <1>1, <1>3, Placed DEF Roles
  <2>3. data[At("len") + 1][3] = req.a
    BY <1>1, <2>2, AtIs DEF LengthHeld, Roles
  <2>4. Place["addr"].n = req.a /\ Cells(Place["addr"]) = req.a /\ req.a \in Nat
    BY <1>1, <1>3, Uncut, Lengths DEF Carried
  <2>5. PICK l \in 0..MaxAddr : w = Wrote(b, 0, AtMost(l, req.a), l)
    BY <2>1, <2>3 DEF Addresses
  <2>6. l \in Nat
    BY Constants
  <2>7. AtMost(l, req.a) = AtMost(req.a, l)
    BY <2>4, <2>6 DEF AtMost
  <2> QED
    BY <1>3, <2>2, <2>4, <2>5, <2>6, <2>7
<1> QED
  BY <1>2, <1>3

\* An address is copied back whole.
LEMMA TakesTheAddress ==
    ASSUME Carried, NEW a, NEW res, TakesAddress(res), NEW b, NEW word, NEW truth,
           "addr" \in DOMAIN Place <=> "len" \in DOMAIN Place,
           \/ "addr" \notin DOMAIN Place /\ a = Replied(word, truth, Wrote(b, 0, 0, -1))
           \/ /\ "addr" \in DOMAIN Place
              /\ \E l \in Nat : a = Replied(word, truth, Wrote(b, 0, AtMost(Place["addr"].n, l), l))
              /\ Place["addr"].n = Cells(Place["addr"])
    PROVE  /\ a.wrote.len \in Nat \cup {-1}
           /\ \A r \in {"addr", "len"} :
                /\ WrittenBy(a, r) \in Nat
                /\ r \notin DOMAIN Place => WrittenBy(a, r) = 0
                /\ r \in DOMAIN Place => WrittenBy(a, r) <= Cells(Place[r])
                /\ r \in DOMAIN Place => TakesWritten(a, res, r)
<1>1. CASE "addr" \notin DOMAIN Place
  <2>1. a.wrote.len = -1 /\ WrittenBy(a, "addr") = 0 /\ WrittenBy(a, "len") = 0
    BY <1>1, Reply
  <2> QED
    BY <1>1, <2>1
<1>2. CASE "addr" \in DOMAIN Place
  <2>1. PICK l \in Nat : a = Replied(word, truth, Wrote(b, 0, AtMost(Place["addr"].n, l), l))
    BY <1>2
  <2>2. a.wrote.len = l /\ WrittenBy(a, "addr") = AtMost(Place["addr"].n, l) /\ WrittenBy(a, "len") = 1
    BY <2>1, Reply
  <2>3. AddressLength(a) = l
    BY <2>2 DEF AddressLength
  <2>4. Taken("addr", res, l) = AtMost(Place["addr"].n, l)
    BY <1>2 DEF Taken
  <2>5. Taken("len", res, l) = 1
    BY <1>2 DEF Taken
  <2>6. PICK n \in Nat : n = Place["addr"].n /\ n = Cells(Place["addr"])
    BY <1>2, Lodged
  <2>7. AtMost(n, l) \in Nat /\ AtMost(n, l) <= n
    BY <2>6 DEF AtMost
  <2>8. Cells(Place["len"]) = 1
    BY <1>2, LengthCell
  <2>9. TakesWritten(a, res, "addr")
    BY <2>2, <2>3, <2>4, <2>6, <2>7 DEF TakesWritten
  <2>10. TakesWritten(a, res, "len")
    BY <2>2, <2>3, <2>5 DEF TakesWritten
  <2> QED
    BY <1>2, <2>2, <2>6, <2>7, <2>8, <2>9, <2>10
<1> QED
  BY <1>1, <1>2

\* read has no address.
LEMMA NoAddressRead == \A x \in DOMAIN Abi["read"] : Abi["read"][x] # "addr"
<1>1. Abi["read"] = <<"reg", "buf", "#buf">>
  BY DEF Abi
<1> QED
  BY <1>1

\* What was received, with MSG_TRUNC too.
LEMMA ReceivesAnswers ==
    ASSUME AtKernel, Receives(Item), NEW k \in Nat, NEW b \in Nat, NEW w \in Addresses(b), NEW a, a = Returns(k, w),
           k <= Counted("buf") => b = k, k > Counted("buf") => k = Counted("buf") + 1 /\ b = Counted("buf"),
           k > Counted("buf") => req.sel = <<"MSG_TRUNC">>
    PROVE  Answers(a, Decode(Item.num, Item.ret, a.ret))
<1>1. Carried
  BY AtKernelIs
<1>2. PICK n \in Nat : n = Counted("buf") /\ "buf" \in DOMAIN Place /\ n = Place["buf"].n /\ Handle(req).option
                       /\ n + 1 <= IntMax /\ Cells(Place["buf"]) = n /\ Place["buf"].region.layout.size = 1
  BY <1>1, BufferCounted, BufferFits, Lodged DEF Receives, Counting, IsEpoll
<1>3. b <= n /\ k <= IntMax /\ a.ret = k /\ a.truth = Ok(k) /\ a = Replied(k, Ok(k), w)
  BY <1>2, Constants DEF Returns, Replied
<1>4. PICK res : res = Decode(Item.num, Item.ret, a.ret) /\ res = Ok(k) /\ res.t = "ok" /\ res.v = k
  BY <1>3, DecodesWord, Outcomes DEF Receives
<1>5. Faithful(a, res)
  BY <1>3, <1>4 DEF Faithful
<1>6. Attacked(res) => req.sel = <<"MSG_TRUNC">>
  <2>1. req.call \notin {"exit", "exit_group"}
    BY DEF Receives
  <2>2. Attacked(res) => k > n
    BY <1>2, <1>4, <2>1, NotAttacked
  <2> QED
    BY <1>2, <2>2
<1>7. Has(Item, "addr") => Item.collect = "prefix_sockaddr"
  <2> SUFFICES ASSUME Has(Item, "addr") PROVE Item.collect = "prefix_sockaddr"
    OBVIOUS
  <2>1. "addr" \in DOMAIN Place
    BY <1>1, Placed DEF Roles
  <2>2. "addr" \notin req.null
    BY <1>1, <2>1, Present
  <2>3. Mirrors(Item, Place["addr"].region) /\ Place["addr"].region.role = "addr"
    BY <1>1, <2>1, Lodged, Placed
  <2>4. Item.num # "read"
    BY <2>3, NoAddressRead DEF Mirrors, Convention
  <2> QED
    BY <2>2, <2>4 DEF Receives
<1>8. Has(Item, "addr") => Has(Item, "len")
  BY <1>1, <1>7, CarriedShape DEF Shape, Collects
<1>9. \/ "addr" \notin DOMAIN Place /\ w = Wrote(b, 0, 0, -1)
      \/ /\ "addr" \in DOMAIN Place /\ "len" \in DOMAIN Place
         /\ \E l \in Nat : w = Wrote(b, 0, AtMost(Place["addr"].n, l), l)
         /\ Place["addr"].n = Cells(Place["addr"])
  BY <1>8, AddressesAre
<1>10. WrittenBy(a, "buf") = b /\ WrittenBy(a, "buf2") = 0
  BY <1>3, <1>9, Reply
<1>11. ASSUME ~Attacked(res) PROVE k <= n /\ b = k
  <2>1. Item.collect \in {"prefix", "scatter", "prefix_sockaddr", "count"}
    BY DEF Receives
  <2>2. ~(k > n)
    BY <1>2, <1>4, <1>11, <2>1 DEF Attacked, Claims
  <2> QED
    BY <1>2, <2>2
<1>12. ~Attacked(res) => TakesWritten(a, res, "buf")
  <2> SUFFICES ASSUME ~Attacked(res) PROVE TakesWritten(a, res, "buf")
    OBVIOUS
  <2>1. Taken("buf", res, AddressLength(a)) = k * 1
    BY <1>2, <1>4 DEF Taken, Receives
  <2> QED
    BY <1>10, <1>11, <2>1 DEF TakesWritten
<1>13. TakesWritten(a, res, "buf2")
  <2>1. Taken("buf2", res, AddressLength(a)) = 0
    BY DEF Taken, Receives
  <2> QED
    BY <1>10, <2>1 DEF TakesWritten
<1>14. /\ a.wrote.len \in Nat \cup {-1}
       /\ \A r \in {"addr", "len"} :
            /\ WrittenBy(a, r) \in Nat
            /\ r \notin DOMAIN Place => WrittenBy(a, r) = 0
            /\ r \in DOMAIN Place => WrittenBy(a, r) <= Cells(Place[r])
            /\ r \in DOMAIN Place => TakesWritten(a, res, r)
  <2>1. CASE Item.collect = "prefix_sockaddr"
    <3>1. "addr" \in DOMAIN Place <=> "len" \in DOMAIN Place
      BY <1>1, <2>1, CarriedShape, Placed DEF Shape, Collects, Roles
    <3>2. TakesAddress(res)
      BY <1>4, <2>1 DEF TakesAddress
    <3> QED
      BY <1>1, <1>3, <1>9, <3>1, <3>2, TakesTheAddress
  <2>2. CASE Item.collect # "prefix_sockaddr"
    <3>1. "addr" \notin DOMAIN Place
      BY <1>1, <1>7, <2>2, Placed DEF Roles
    <3>2. a.wrote.len = -1 /\ WrittenBy(a, "addr") = 0 /\ WrittenBy(a, "len") = 0
      BY <1>3, <1>9, <3>1, Reply
    <3>3. Taken("len", res, AddressLength(a)) = 0
      BY <2>2 DEF Taken, Receives, TakesAddress
    <3>4. TakesWritten(a, res, "len")
      BY <3>2, <3>3 DEF TakesWritten
    <3>5. "len" \in DOMAIN Place => Cells(Place["len"]) \in Nat
      BY <1>1, Lodged
    <3> QED
      BY <3>1, <3>2, <3>4, <3>5
  <2> QED
    BY <2>1, <2>2
<1>15. "buf2" \in DOMAIN Place => Cells(Place["buf2"]) \in Nat
  BY <1>1, Lodged
<1>16. DOMAIN Place \subseteq Roles
  BY <1>1, Placed
<1>17. \A r \in Roles : /\ WrittenBy(a, r) \in Nat
                        /\ r \notin DOMAIN Place => WrittenBy(a, r) = 0
                        /\ r \in DOMAIN Place => WrittenBy(a, r) <= Cells(Place[r])
  BY <1>2, <1>3, <1>10, <1>14, <1>15 DEF Roles
<1>18. ~Attacked(res) => \A r \in DOMAIN Place : TakesWritten(a, res, r)
  BY <1>12, <1>13, <1>14, <1>16 DEF Roles
<1>19. a.from = "kernel" /\ a.ret \in Nat
  BY <1>3 DEF Replied
<1> QED
  BY <1>4, <1>5, <1>6, <1>14, <1>17, <1>18, <1>19 DEF Answers

\* The name of a socket.
LEMMA NamesPeerAnswers ==
    ASSUME AtKernel, NamesPeer(Item), NEW w \in Addresses(0), NEW a,
           a = Returns(IF Item.num = "getsockname" THEN 0 ELSE IntMax, w)
    PROVE  Answers(a, Decode(Item.num, Item.ret, a.ret))
<1>1. Carried
  BY AtKernelIs
<1>2. PICK k \in Nat : k = (IF Item.num = "getsockname" THEN 0 ELSE IntMax) /\ k <= IntMax
  BY Constants
<1>3. a.ret = k /\ a.truth = Ok(k) /\ a = Replied(k, Ok(k), w) /\ a.from = "kernel"
  BY <1>2 DEF Returns, Replied
<1>4. PICK res : res = Decode(Item.num, Item.ret, a.ret) /\ res = Ok(k) /\ res.t = "ok"
  BY <1>2, <1>3, DecodesWord, Outcomes DEF NamesPeer
<1>5. Faithful(a, res)
  BY <1>3, <1>4 DEF Faithful
<1>6. ~Attacked(res)
  BY NotAttacked DEF NamesPeer, Counting
<1>7. "addr" \in DOMAIN Place <=> "len" \in DOMAIN Place
  BY <1>1, CarriedShape, Placed DEF Shape, Collects, Roles, NamesPeer
<1>8. \/ "addr" \notin DOMAIN Place /\ w = Wrote(0, 0, 0, -1)
      \/ /\ "addr" \in DOMAIN Place /\ "len" \in DOMAIN Place
         /\ \E l \in Nat : w = Wrote(0, 0, AtMost(Place["addr"].n, l), l)
         /\ Place["addr"].n = Cells(Place["addr"])
  <2>1. Has(Item, "addr") => Has(Item, "len")
    BY <1>1, <1>7, Placed DEF Roles
  <2> QED
    BY <2>1, AddressesAre
<1>9. WrittenBy(a, "buf") = 0 /\ WrittenBy(a, "buf2") = 0
  BY <1>3, <1>8, Reply
<1>10. /\ a.wrote.len \in Nat \cup {-1}
       /\ \A r \in {"addr", "len"} :
            /\ WrittenBy(a, r) \in Nat
            /\ r \notin DOMAIN Place => WrittenBy(a, r) = 0
            /\ r \in DOMAIN Place => WrittenBy(a, r) <= Cells(Place[r])
            /\ r \in DOMAIN Place => TakesWritten(a, res, r)
  <2>1. TakesAddress(res)
    BY DEF TakesAddress, NamesPeer
  <2>2. PICK b \in Nat : b = 0
    OBVIOUS
  <2>3. \/ "addr" \notin DOMAIN Place /\ a = Replied(k, Ok(k), Wrote(b, 0, 0, -1))
        \/ /\ "addr" \in DOMAIN Place
           /\ \E l \in Nat : a = Replied(k, Ok(k), Wrote(b, 0, AtMost(Place["addr"].n, l), l))
           /\ Place["addr"].n = Cells(Place["addr"])
    BY <1>3, <1>8, <2>2
  <2> QED
    BY <1>1, <1>7, <2>1, <2>3, TakesTheAddress
<1>11. \A r \in {"buf", "buf2"} : TakesWritten(a, res, r)
  <2>1. \A r \in {"buf", "buf2"} : Taken(r, res, AddressLength(a)) = 0
    BY DEF Taken, NamesPeer
  <2> QED
    BY <1>9, <2>1 DEF TakesWritten
<1>12. \A r \in DOMAIN Place : Cells(Place[r]) \in Nat /\ r \in Roles
  BY <1>1, Lodged, Placed
<1>13. \A r \in Roles : /\ WrittenBy(a, r) \in Nat
                        /\ r \notin DOMAIN Place => WrittenBy(a, r) = 0
                        /\ r \in DOMAIN Place => WrittenBy(a, r) <= Cells(Place[r])
  BY <1>9, <1>10, <1>12 DEF Roles
<1>14. \A r \in DOMAIN Place : TakesWritten(a, res, r)
  BY <1>10, <1>11, <1>12 DEF Roles
<1> QED
  BY <1>3, <1>4, <1>5, <1>6, <1>10, <1>13, <1>14 DEF Answers

\* An answer that writes into the buffer only.
LEMMA AnswersBuffer ==
    ASSUME Carried, NEW word \in Nat, NEW truth, NEW b \in Nat, NEW a, a = Replied(word, truth, Wrote(b, 0, 0, -1)), NEW res,
           Item.collect \notin {"sockaddr", "prefix_sockaddr", "interrupted"},
           Faithful(a, res), ~Attacked(res), "buf" \notin DOMAIN Place => b = 0,
           "buf" \in DOMAIN Place => b <= Cells(Place["buf"]) /\ TakesWritten(a, res, "buf")
    PROVE  Answers(a, res)
<1>1. /\ a.from = "kernel" /\ a.ret \in Nat /\ a.wrote.len = -1 /\ WrittenBy(a, "buf") = b /\ WrittenBy(a, "buf2") = 0
      /\ WrittenBy(a, "addr") = 0 /\ WrittenBy(a, "len") = 0
  BY Reply
<1>2. \A r \in {"buf2", "addr", "len"} : TakesWritten(a, res, r)
  <2>1. \A r \in {"buf2", "addr", "len"} : Taken(r, res, AddressLength(a)) = 0
    BY DEF Taken, TakesAddress
  <2> QED
    BY <1>1, <2>1 DEF TakesWritten
<1>3. \A r \in DOMAIN Place : Cells(Place[r]) \in Nat /\ r \in Roles
  BY Lodged, Placed
<1>4. \A r \in Roles : /\ WrittenBy(a, r) \in Nat
                       /\ r \notin DOMAIN Place => WrittenBy(a, r) = 0
                       /\ r \in DOMAIN Place => WrittenBy(a, r) <= Cells(Place[r])
  BY <1>1, <1>3 DEF Roles
<1>5. \A r \in DOMAIN Place : TakesWritten(a, res, r)
  BY <1>2, <1>3 DEF Roles
<1> QED
  BY <1>1, <1>4, <1>5 DEF Answers

\* The calls whose result counts elements of the buffer.
LEMMA CountedAnswers ==
    ASSUME AtKernel, Sends(Item) \/ Polls(Item) \/ Waits(Item) \/ Certifies(Item),
           NEW k \in 0..Counted("buf"), NEW b, NEW a, a = Returns(k, Wrote(b, 0, 0, -1)),
           Sends(Item) => b = 0, Polls(Item) => b = Counted("buf"),
           Waits(Item) => b = k * KernelEventSize, Certifies(Item) => b = k
    PROVE  Answers(a, Decode(Item.num, Item.ret, a.ret))
<1>1. Carried
  BY AtKernelIs
<1>2. PICK n \in Nat : n = Counted("buf") /\ "buf" \in DOMAIN Place /\ n = Place["buf"].n
                       /\ n + 1 <= IntMax
  BY <1>1, BufferCounted, BufferFits DEF Sends, Polls, Waits, Certifies, Counting
<1>3. k \in Nat /\ k <= n /\ k <= IntMax
  BY <1>2, Constants
<1>4. a = Replied(k, Ok(k), Wrote(b, 0, 0, -1)) /\ a.ret = k /\ a.truth = Ok(k)
  BY DEF Returns, Replied
<1>5. PICK res : res = Decode(Item.num, Item.ret, a.ret) /\ res = Ok(k) /\ res.t = "ok" /\ res.v = k
  BY <1>3, <1>4, DecodesWord, Outcomes DEF Sends, Polls, Waits, Certifies
<1>6. Faithful(a, res)
  BY <1>4, <1>5 DEF Faithful
<1>7. ~Attacked(res)
  <2>1. req.call \notin {"exit", "exit_group"}
    BY DEF Sends, Polls, Waits, Certifies
  <2>2. ~(k > n)
    BY <1>3
  <2> QED
    BY <1>2, <1>5, <2>1, <2>2, NotAttacked
<1>8. PICK z \in Nat, cells \in Nat : z = Place["buf"].region.layout.size /\ cells = Cells(Place["buf"]) /\ cells = n * z
         /\ z = IF IsEpoll(req) THEN EventSize ELSE 1
  BY <1>1, <1>2, Lodged
<1>9. Item.collect # "count" => Taken("buf", res, AddressLength(a)) = k * z
  BY <1>2, <1>5, <1>8 DEF Taken, Sends, Polls, Waits, Certifies
<1>10. k * z <= n * z /\ k * z \in Nat
  BY <1>3, ProductGrows, Product
<1>11. CASE Sends(Item)
  <2>1. Taken("buf", res, AddressLength(a)) = 0
    BY <1>11 DEF Taken, Sends
  <2>2. TakesWritten(a, res, "buf")
    BY <1>4, <1>11, <2>1, Reply DEF TakesWritten
  <2>3. b \in Nat /\ b <= cells
    BY <1>11
  <2> QED
    BY <1>1, <1>2, <1>4, <1>5, <1>6, <1>7, <1>8, <1>11, <2>2, <2>3, AnswersBuffer DEF Sends
<1>12. CASE Polls(Item)
  <2>1. z = 1 /\ req.call = "poll" /\ Item.collect = "prefix"
    BY <1>8, <1>12 DEF Polls, IsEpoll
  <2>2. b \in Nat /\ b = n /\ b <= cells /\ k * z <= b
    BY <1>2, <1>3, <1>8, <1>12, <2>1
  <2>3. TakesWritten(a, res, "buf")
    BY <1>4, <1>9, <2>1, <2>2, Reply DEF TakesWritten
  <2> QED
    BY <1>1, <1>2, <1>4, <1>5, <1>6, <1>7, <1>8, <2>1, <2>2, <2>3, AnswersBuffer
<1>13. CASE Waits(Item)
  <2>1. z = EventSize /\ req.call \in {"epoll_wait", "epoll_pwait"} /\ Item.collect = "prefix"
    BY <1>8, <1>13 DEF Waits, IsEpoll
  <2>2. b \in Nat /\ b <= k * z
    BY <1>3, <1>13, <2>1, Constants, Product, ProductGrows
  <2>3. TakesWritten(a, res, "buf")
    BY <1>4, <1>9, <2>1, <2>2, Reply DEF TakesWritten
  <2>4. b <= cells
    BY <1>8, <1>10, <2>2
  <2> QED
    BY <1>1, <1>2, <1>4, <1>5, <1>6, <1>7, <1>8, <2>1, <2>2, <2>3, <2>4, AnswersBuffer
<1>14. CASE Certifies(Item)
  <2>1. z = 1 /\ Item.collect = "prefix"
    BY <1>8, <1>14 DEF Certifies, IsEpoll
  <2>2. b \in Nat /\ b = k /\ b <= cells /\ k * z = b
    BY <1>3, <1>8, <1>14, <2>1
  <2>3. TakesWritten(a, res, "buf")
    BY <1>4, <1>9, <2>1, <2>2, Reply DEF TakesWritten
  <2> QED
    BY <1>1, <1>2, <1>4, <1>5, <1>6, <1>7, <1>8, <2>1, <2>2, <2>3, AnswersBuffer
<1> QED
  BY <1>11, <1>12, <1>13, <1>14

\* The calls that fill one object, or may.
LEMMA ObjectAnswers ==
    ASSUME AtKernel, Fetches(Item) \/ Controls(Item), NEW b \in Nat, NEW k \in Nat, NEW a, k <= IntMax,
           a = Replied(k, Ok(0), Wrote(b, 0, 0, -1)), Controls(Item) => k = 0,
           "buf" \notin DOMAIN Place => b = 0,
           "buf" \in DOMAIN Place => b = req.n \/ (Controls(Item) /\ b <= req.n)
    PROVE  Answers(a, Decode(Item.num, Item.ret, a.ret))
<1>1. Carried
  BY AtKernelIs
<1>2. a.ret = k /\ a.truth = Ok(0) /\ WrittenBy(a, "buf") = b
  BY Reply
<1>3. PICK res : res = Decode(Item.num, Item.ret, a.ret) /\ res = Ok(0) /\ res.t = "ok"
  BY <1>2, DecodesWord, Outcomes DEF Fetches, Controls
<1>4. Faithful(a, res) /\ ~Attacked(res)
  BY <1>2, <1>3, NotAttacked DEF Faithful, Fetches, Controls, Counting
<1>5. ASSUME "buf" \in DOMAIN Place PROVE b <= Cells(Place["buf"]) /\ TakesWritten(a, res, "buf")
  <2>1. PICK cells \in Nat : cells = Cells(Place["buf"]) /\ cells = req.n
    BY <1>1, <1>5, Uncut, Lodged DEF Fetches, Controls, Counting, IsEpoll, Vectored
  <2>2. Taken("buf", res, AddressLength(a)) = cells
    BY <1>3, <1>5, <2>1 DEF Taken, Fetches, Controls
  <2>3. Controls(Item) => Place["buf"].region.dir # "out"
    <3>1. Mirrors(Item, Place["buf"].region) /\ Place["buf"].region.role = "buf"
      BY <1>1, <1>5, Lodged, Placed
    <3> QED
      BY <3>1 DEF Mirrors, Controls
  <2> QED
    BY <1>2, <1>5, <2>1, <2>2, <2>3 DEF TakesWritten
<1> QED
  BY <1>1, <1>3, <1>4, <1>5, AnswersBuffer DEF Fetches, Controls

\* The time left of an interrupted sleep.
LEMMA SleepsAnswers ==
    ASSUME AtKernel, Sleeps(Item), NEW a,
           \/ a = Returns(0, Nothing)
           \/ a = Replied(ErrnoWord(EINTR), Err(EINTR), Wrote(0, One("buf2"), 0, -1))
    PROVE  Answers(a, Decode(Item.num, Item.ret, a.ret))
<1>1. Carried
  BY AtKernelIs
<1>2. CASE a = Returns(0, Nothing)
  <2>1. a.ret = 0 /\ a.truth = Ok(0) /\ a.wrote = Nothing /\ a.from = "kernel"
    BY <1>2 DEF Returns, Replied
  <2>2. PICK res : res = Decode(Item.num, Item.ret, a.ret) /\ res = Ok(0) /\ res.t = "ok"
    BY <2>1, DecodesWord, Outcomes, Constants DEF Sleeps
  <2>3. Faithful(a, res) /\ ~Attacked(res) /\ res # Err(EINTR)
    BY <2>1, <2>2, NotAttacked, Outcomes DEF Faithful, Sleeps, Counting
  <2> QED
    BY <1>1, <2>1, <2>2, <2>3, AnswersNothing DEF Sleeps
<1>3. CASE a = Replied(ErrnoWord(EINTR), Err(EINTR), Wrote(0, One("buf2"), 0, -1))
  <2>1. PICK b \in Nat : b = One("buf2") /\ b = IF "buf2" \in DOMAIN Place THEN 1 ELSE 0
    <3>1. At("buf2") = -1 <=> "buf2" \notin DOMAIN Place
      <4>1. At("buf2") = IF "buf2" \in DOMAIN Place THEN Place["buf2"].off ELSE -1
        BY AtIs DEF Roles
      <4>2. "buf2" \in DOMAIN Place => Place["buf2"].off \in Nat
        BY <1>1, Lodged
      <4> QED
        BY <4>1, <4>2
    <3> QED
      BY <3>1 DEF One
  <2>2. /\ a.from = "kernel" /\ a.ret = ErrnoWord(2) /\ a.truth = Err(EINTR) /\ a.wrote.len = -1
        /\ WrittenBy(a, "buf") = 0 /\ WrittenBy(a, "buf2") = b
        /\ WrittenBy(a, "addr") = 0 /\ WrittenBy(a, "len") = 0
    BY <1>3, <2>1, Reply DEF EINTR
  <2>3. PICK res : res = Decode(Item.num, Item.ret, a.ret) /\ res = Err(EINTR) /\ res.t = "err"
    BY <2>2, DecodesError, Outcomes DEF EINTR
  <2>4. Faithful(a, res) /\ ~Attacked(res)
    BY <2>2, <2>3, NotAttacked DEF Faithful
  <2>5. "buf2" \in DOMAIN Place => Cells(Place["buf2"]) = 1 /\ Place["buf2"].region.dir # "out"
    <3> SUFFICES ASSUME "buf2" \in DOMAIN Place
                 PROVE  Cells(Place["buf2"]) = 1 /\ Place["buf2"].region.dir # "out"
      OBVIOUS
    <3>1. Mirrors(Item, Place["buf2"].region) /\ Place["buf2"].region.role = "buf2"
      BY <1>1, Lodged, Placed
    <3>2. req.n2 = 1
      BY <1>1 DEF Carried, IsRequest, Sleeps
    <3> QED
      BY <1>1, <3>1, <3>2, Uncut DEF Mirrors, Sleeps
  <2>6. \A r \in Roles \ {"buf2"} : Taken(r, res, AddressLength(a)) = 0
    BY DEF Taken, TakesAddress, Sleeps, Roles
  <2>7. "buf2" \in DOMAIN Place => Taken("buf2", res, AddressLength(a)) = Cells(Place["buf2"])
    BY <2>3 DEF Taken, Sleeps
  <2>8. \A r \in DOMAIN Place : Cells(Place[r]) \in Nat /\ r \in Roles
    BY <1>1, Lodged, Placed
  <2>9. \A r \in Roles \ {"buf2"} : TakesWritten(a, res, r)
    BY <2>2, <2>6 DEF TakesWritten, Roles
  <2>10. "buf2" \in DOMAIN Place => TakesWritten(a, res, "buf2")
    BY <2>1, <2>2, <2>5, <2>7 DEF TakesWritten
  <2>11. \A r \in DOMAIN Place : TakesWritten(a, res, r)
    BY <2>8, <2>9, <2>10
  <2>12. \A r \in Roles : /\ WrittenBy(a, r) \in Nat
                          /\ r \notin DOMAIN Place => WrittenBy(a, r) = 0
                          /\ r \in DOMAIN Place => WrittenBy(a, r) <= Cells(Place[r])
    BY <2>1, <2>2, <2>5, <2>8 DEF Roles
  <2>13. a.ret \in Nat
    BY <2>2, Constants DEF ErrnoWord
  <2> QED
    BY <2>2, <2>3, <2>4, <2>11, <2>12, <2>13 DEF Answers
<1> QED
  BY <1>2, <1>3

\* The calls that only carry registers, or only take data in.
LEMMA PlainAnswers ==
    ASSUME AtKernel, Plain(Item), NEW k \in Nat, k <= IntMax, NEW truth, NEW a, a = Replied(k, truth, Nothing),
           \/ truth = Ok(k) /\ (k = 0 \/ Item.ret # "unit" \/ Item.num \in {"dup", "dup2", "dup3"})
                /\ (Item.num \in {"gdb_read", "gdb_peek"} => k <= ByteMax)
           \/ truth = Ok(None) /\ Item.num = "gdb_peek"
    PROVE  Answers(a, Decode(Item.num, Item.ret, a.ret))
<1>1. Carried /\ Item.num \notin {"exit", "exit_group"}
  BY AtKernelIs
<1>2. a.ret = k /\ a.truth = truth /\ a.wrote = Nothing /\ a.from = "kernel"
  BY DEF Replied
<1>3. PICK res : res = Decode(Item.num, Item.ret, a.ret)
  OBVIOUS
<1>4. ~Attacked(res) /\ Item.collect = "none" /\ Item.num = req.call
  BY <1>1, NotAttacked DEF Plain, Counting
<1>5. Faithful(a, res)
  <2>1. CASE Item.num = "gdb_peek" /\ truth = Ok(None)
    BY <1>2, <1>4, <2>1 DEF Faithful
  <2>2. CASE truth = Ok(k) /\ Item.num \in {"dup", "dup2", "dup3"}
    <3>1. Item.ret = "unit"
      BY <2>2 DEF Plain, PlainRet
    <3>2. res = Ok(0) /\ truth.t = "ok"
      BY <1>2, <1>3, <2>2, <3>1, DecodesWord, Outcomes
    <3> QED
      BY <1>2, <1>4, <2>2, <3>2 DEF Faithful
  <2>3. CASE truth = Ok(k) /\ (k = 0 \/ Item.ret # "unit") /\ (Item.num \in {"gdb_read", "gdb_peek"} => k <= ByteMax)
    <3>1. Item.ret \in {"unit", "usize", "c_int"} \/ (Item.ret \in {"u8", "option_u8"} /\ Item.num \in {"gdb_read", "gdb_peek"})
      BY DEF Plain, PlainRet
    <3>2. "gdb_read" \in GdbNames /\ "gdb_peek" \in GdbNames /\ ByteMax \in Nat
      BY Constants DEF GdbNames
    <3>3. CASE Item.ret \in {"unit", "usize", "c_int"}
      <4>1. res = Ok(k)
        BY <1>2, <1>3, <2>3, <3>3, DecodesWord
      <4> QED
        BY <1>2, <2>3, <4>1 DEF Faithful
    <3>4. CASE Item.ret \in {"u8", "option_u8"} /\ Item.num \in {"gdb_read", "gdb_peek"}
      <4>1. ~(k > ByteMax)
        BY <2>3, <3>2, <3>4
      <4>2. res = Ok(k)
        BY <1>2, <1>3, <3>2, <3>4, <4>1, DecodesWord
      <4> QED
        BY <1>2, <2>3, <4>2 DEF Faithful
    <3> QED
      BY <3>1, <3>3, <3>4
  <2> QED
    BY <2>1, <2>2, <2>3
<1> QED
  BY <1>1, <1>2, <1>3, <1>4, <1>5, AnswersNothing

\* Where the answers to a call come from.
LEMMA ServiceOf ==
    ASSUME NEW num, num = kcall.num
    PROVE  /\ num \in SyscallNames => ServiceReplies = KernelReplies \cup {Fails(EPERM)}
           /\ num \in GdbNames => ServiceReplies = GdbReplies \cup {Fails(EPERM)}
           /\ num \notin SyscallNames \cup GdbNames =>
                ServiceReplies = IF num \in EndsKeep \cup {"cpuid"} THEN EnarxReplies
                                 ELSE EnarxReplies \cup {Fails(EPERM)}
<1>1. SyscallNames \cap GdbNames = {} /\ EndsKeep \cap (SyscallNames \cup GdbNames) = {}
      /\ "cpuid" \notin SyscallNames \cup GdbNames
  BY DEF SyscallNames, GdbNames, EndsKeep
<1> QED
  BY <1>1, ArmNames DEF ServiceReplies

\* EPERM answers every call.
LEMMA FailureAnswers ==
    ASSUME AtKernel, NEW a, a = Fails(EPERM)
    PROVE  Answers(a, Decode(Item.num, Item.ret, a.ret))
BY AtKernelIs, AnswersFailure DEF Fails, EPERM

\* The answers of the kernel, the client and the services, by kind of call.
LEMMA KernelReceives ==
    ASSUME AtKernel, Receives(Item), NEW a \in ServiceReplies
    PROVE  Answers(a, Decode(Item.num, Item.ret, a.ret))
<1>1. kcall.num = Item.num /\ kcall.num \in {"read", "recvfrom"}
  BY AtKernelIs DEF Receives
<1>2. a \in KernelReplies \/ a = Fails(EPERM)
  BY <1>1, ServiceOf DEF SyscallNames
<1>3. PICK n \in Nat : n = Counted("buf")
  BY AtKernelIs, BufferCounted, BufferFits DEF Receives, Counting
<1>4. ASSUME a \in KernelReplies
      PROVE  \/ \E k \in 0..Counted("buf") : \E w \in Addresses(k) : a = Returns(k, w)
             \/ /\ req.sel = <<"MSG_TRUNC">>
                /\ \E w \in Addresses(Counted("buf")) : a = Returns(Counted("buf") + 1, w)
  <2>1. KernelReplies = (UNION {Received(k) : k \in 0..Counted("buf")}) \cup ReceivedTruncated
    BY <1>1 DEF KernelReplies
  <2>2. CASE \E k \in 0..Counted("buf") : a \in Received(k)
    BY <2>2 DEF Received
  <2>3. CASE a \in ReceivedTruncated
    BY <2>3 DEF ReceivedTruncated
  <2>4. (\E k \in 0..Counted("buf") : a \in Received(k)) \/ a \in ReceivedTruncated
    <3>1. PICK F : F = {Received(k) : k \in 0..Counted("buf")}
      OBVIOUS
    <3>2. KernelReplies = (UNION F) \cup ReceivedTruncated
      BY <2>1, <3>1
    <3>3. (\E S \in F : a \in S) \/ a \in ReceivedTruncated
      BY <1>4, <3>2
    <3> QED
      BY <3>1, <3>3
  <2> QED
    BY <2>2, <2>3, <2>4
<1>5. CASE \E k \in 0..Counted("buf") : \E w \in Addresses(k) : a = Returns(k, w)
  <2>1. PICK k \in 0..Counted("buf") : \E w \in Addresses(k) : a = Returns(k, w)
    BY <1>5
  <2>2. PICK w \in Addresses(k) : a = Returns(k, w)
    BY <2>1
  <2>3. k \in Nat /\ k <= Counted("buf") /\ ~(k > Counted("buf"))
    BY <1>3
  <2> QED
    BY <2>2, <2>3, ReceivesAnswers
<1>6. CASE /\ req.sel = <<"MSG_TRUNC">>
           /\ \E w \in Addresses(Counted("buf")) : a = Returns(Counted("buf") + 1, w)
  <2>1. PICK k \in Nat, b \in Nat : k = n + 1 /\ b = n
    BY <1>3
  <2>2. PICK w \in Addresses(b) : a = Returns(k, w)
    BY <1>3, <1>6, <2>1
  <2>3. ~(k <= Counted("buf")) /\ k = Counted("buf") + 1 /\ b = Counted("buf")
    BY <1>3, <2>1
  <2> QED
    BY <1>6, <2>2, <2>3, ReceivesAnswers
<1> QED
  BY <1>2, <1>4, <1>5, <1>6, FailureAnswers

LEMMA KernelNames ==
    ASSUME AtKernel, NamesPeer(Item), NEW a \in ServiceReplies
    PROVE  Answers(a, Decode(Item.num, Item.ret, a.ret))
<1>1. kcall.num = Item.num /\ kcall.num \in {"accept", "accept4", "getsockname"}
  BY AtKernelIs DEF NamesPeer
<1>2. a \in KernelReplies \/ a = Fails(EPERM)
  BY <1>1, ServiceOf DEF SyscallNames
<1>3. ASSUME a \in KernelReplies
      PROVE  \E w \in Addresses(0) : a = Returns(IF Item.num = "getsockname" THEN 0 ELSE IntMax, w)
  <2>1. CASE Item.num = "getsockname"
    <3>1. KernelReplies = {Returns(0, w) : w \in Addresses(0)}
      BY <1>1, <2>1 DEF KernelReplies
    <3> QED
      BY <1>3, <2>1, <3>1
  <2>2. CASE Item.num \in {"accept", "accept4"}
    <3>1. KernelReplies = {Returns(IntMax, w) : w \in Addresses(0)}
      BY <1>1, <2>2 DEF KernelReplies
    <3> QED
      BY <1>3, <2>2, <3>1
  <2> QED
    BY <1>1, <2>1, <2>2
<1> QED
  BY <1>2, <1>3, FailureAnswers, NamesPeerAnswers

LEMMA KernelCounts ==
    ASSUME AtKernel, Sends(Item) \/ Polls(Item) \/ Waits(Item) \/ Certifies(Item), NEW a \in ServiceReplies
    PROVE  Answers(a, Decode(Item.num, Item.ret, a.ret))
<1>1. kcall.num = Item.num
  BY AtKernelIs
<1>2. PICK n \in Nat : n = Counted("buf")
  BY AtKernelIs, BufferCounted, BufferFits DEF Sends, Polls, Waits, Certifies, Counting
<1>3. Nothing = Wrote(0, 0, 0, -1)
  BY DEF Nothing
<1>4. CASE Sends(Item)
  <2>1. CASE Item.num \in {"write", "sendto"}
    <3>1. KernelReplies = {Returns(k, Nothing) : k \in 0..Counted("buf")}
      BY <1>1, <2>1 DEF KernelReplies
    <3>2. a = Fails(EPERM) \/ \E k \in 0..Counted("buf") : a = Returns(k, Wrote(0, 0, 0, -1))
      BY <1>1, <1>3, <2>1, <3>1, ServiceOf DEF SyscallNames
    <3> QED
      BY <1>4, <3>2, FailureAnswers, CountedAnswers DEF Sends, Polls, Waits, Certifies
  <2>2. CASE Item.num = "gdb_write_all"
    <3>1. GdbReplies = {Returns(Counted("buf"), Nothing)}
      BY <1>1, <2>2 DEF GdbReplies
    <3>2. Counted("buf") \in 0..Counted("buf")
      BY <1>2
    <3>3. a = Fails(EPERM) \/ \E k \in 0..Counted("buf") : a = Returns(k, Wrote(0, 0, 0, -1))
      BY <1>1, <1>3, <2>2, <3>1, <3>2, ServiceOf DEF GdbNames
    <3> QED
      BY <1>4, <3>3, FailureAnswers, CountedAnswers DEF Sends, Polls, Waits, Certifies
  <2> QED
    BY <1>4, <2>1, <2>2 DEF Sends
<1>5. CASE Polls(Item)
  <2>1. KernelReplies = {Returns(k, Wrote(Counted("buf"), 0, 0, -1)) : k \in 0..Counted("buf")}
    BY <1>1, <1>5 DEF KernelReplies, Polls
  <2>2. a = Fails(EPERM) \/ \E k \in 0..Counted("buf") : a = Returns(k, Wrote(Counted("buf"), 0, 0, -1))
    BY <1>1, <1>5, <2>1, ServiceOf DEF SyscallNames, Polls
  <2> QED
    BY <1>5, <2>2, FailureAnswers, CountedAnswers DEF Sends, Polls, Waits, Certifies
<1>6. CASE Waits(Item)
  <2>1. KernelReplies = {Returns(k, Wrote(k * KernelEventSize, 0, 0, -1)) : k \in 0..Counted("buf")}
    BY <1>1, <1>6 DEF KernelReplies, Waits
  <2>2. a = Fails(EPERM) \/ \E k \in 0..Counted("buf") : a = Returns(k, Wrote(k * KernelEventSize, 0, 0, -1))
    BY <1>1, <1>6, <2>1, ServiceOf DEF SyscallNames, Waits
  <2> QED
    BY <1>6, <2>2, FailureAnswers, CountedAnswers DEF Sends, Polls, Waits, Certifies
<1>7. CASE Certifies(Item)
  <2>1. ServiceReplies = EnarxReplies
    BY <1>1, <1>7, ServiceOf DEF SyscallNames, GdbNames, EndsKeep, Certifies
  <2>2. \/ EnarxReplies = {Returns(Counted("buf"), Wrote(Counted("buf"), 0, 0, -1))}
        \/ EnarxReplies = {Returns(k, Wrote(k, 0, 0, -1)) : k \in 1..Counted("buf")}
    BY <1>1, <1>7 DEF EnarxReplies, Certifies
  <2>3. Counted("buf") \in 0..Counted("buf") /\ \A k \in 1..Counted("buf") : k \in 0..Counted("buf")
    BY <1>2
  <2>4. \E k \in 0..Counted("buf") : a = Returns(k, Wrote(k, 0, 0, -1))
    BY <2>1, <2>2, <2>3
  <2> QED
    BY <1>7, <2>4, CountedAnswers DEF Sends, Polls, Waits, Certifies
<1> QED
  BY <1>4, <1>5, <1>6, <1>7

\* One object is written if there is one.
LEMMA OneIs ==
    ASSUME AtKernel
    PROVE  One("buf") = IF "buf" \in DOMAIN Place THEN 1 ELSE 0
<1>1. At("buf") = IF "buf" \in DOMAIN Place THEN Place["buf"].off ELSE -1
  BY AtIs DEF Roles
<1>2. "buf" \in DOMAIN Place => Place["buf"].off \in Nat
  BY AtKernelIs, Lodged
<1>3. At("buf") = -1 <=> "buf" \notin DOMAIN Place
  BY <1>1, <1>2
<1> QED
  BY <1>3 DEF One

\* One object, when there is one to write to.
LEMMA KernelFills ==
    ASSUME AtKernel, Fetches(Item) \/ Controls(Item), NEW a \in ServiceReplies
    PROVE  Answers(a, Decode(Item.num, Item.ret, a.ret))
<1>1. kcall.num = Item.num /\ Carried /\ IsRequest(req)
  BY AtKernelIs DEF Carried
<1>2. PICK one \in Nat : one = One("buf") /\ one = IF "buf" \in DOMAIN Place THEN 1 ELSE 0
  BY OneIs
<1>3. 0 \in Nat /\ 0 <= IntMax
  BY Constants
<1>4. CASE Item.num \in {"clock_getres", "clock_gettime"}
  <2>1. KernelReplies = {Returns(0, Wrote(One("buf"), 0, 0, -1))}
    BY <1>1, <1>4 DEF KernelReplies
  <2>2. a = Fails(EPERM) \/ a = Replied(0, Ok(0), Wrote(one, 0, 0, -1))
    BY <1>1, <1>2, <1>4, <2>1, ServiceOf DEF SyscallNames, Returns
  <2>3. Fetches(Item) /\ req.n = 1 /\ ~Controls(Item)
    BY <1>1, <1>4 DEF Fetches, Controls, IsRequest, OneObject
  <2> QED
    BY <1>2, <1>3, <2>2, <2>3, FailureAnswers, ObjectAnswers
<1>5. CASE Item.num = "ioctl"
  <2>1. PICK b \in {One("buf"), 0} : KernelReplies = {Returns(0, Wrote(b, 0, 0, -1))}
    BY <1>1, <1>5 DEF KernelReplies
  <2>2. b \in Nat /\ b <= one /\ (a = Fails(EPERM) \/ a = Replied(0, Ok(0), Wrote(b, 0, 0, -1)))
    BY <1>1, <1>2, <1>5, <2>1, ServiceOf DEF SyscallNames, Returns
  <2>3. Controls(Item) /\ req.n = 1
    BY <1>1, <1>5 DEF Fetches, Controls, IsRequest, OneObject
  <2>4. ("buf" \notin DOMAIN Place => b = 0) /\ b <= 1
    BY <1>2, <2>2
  <2> QED
    BY <1>3, <2>2, <2>3, <2>4, FailureAnswers, ObjectAnswers
<1>6. CASE Item.num \in {"cpuid", "get_sgx_target_info"}
  <2>1. Fetches(Item) /\ req.call = Item.num /\ ~Controls(Item) /\ req.null = {}
    BY <1>1, <1>6 DEF Fetches, Controls, IsRequest, ByReference
  <2>2. "buf" \in DOMAIN Place
    <3>1. Item.num \in DOMAIN Abi /\ "buf" \in Convention(Item.num)
      <4>1. Abi["cpuid"] = <<"reg", "reg", "buf">> /\ Abi["get_sgx_target_info"] = <<"buf">>
            /\ {"cpuid", "get_sgx_target_info"} \subseteq DOMAIN Abi
        BY DEF Abi
      <4>2. Abi["cpuid"][3] = "buf" /\ 3 \in DOMAIN Abi["cpuid"]
            /\ Abi["get_sgx_target_info"][1] = "buf" /\ 1 \in DOMAIN Abi["get_sgx_target_info"]
        BY <4>1
      <4> QED
        BY <1>6, <4>1, <4>2 DEF Convention
    <3>2. ~Absent("buf")
      BY <2>1 DEF Absent
    <3> QED
      BY <1>1, <3>1, <3>2, CarriedShape, Placed DEF Shape, Roles
  <2>3. ServiceReplies = EnarxReplies
    BY <1>1, <1>6, ServiceOf DEF SyscallNames, GdbNames, EndsKeep
  <2>4. CASE Item.num = "cpuid"
    <3>1. EnarxReplies = {Returns(0, Wrote(1, 0, 0, -1))}
      BY <1>1, <2>4 DEF EnarxReplies
    <3>2. a = Replied(0, Ok(0), Wrote(1, 0, 0, -1))
      BY <2>3, <3>1 DEF Returns
    <3>3. req.n = 1 /\ 1 \in Nat
      BY <1>1, <2>1, <2>4 DEF IsRequest, OneObject
    <3> QED
      BY <1>3, <2>1, <2>2, <3>2, <3>3, ObjectAnswers
  <2>5. CASE Item.num = "get_sgx_target_info"
    <3>1. EnarxReplies = {Replied(TargetInfoSize, Ok(0), Wrote(TargetInfoSize, 0, 0, -1))}
      BY <1>1, <2>5 DEF EnarxReplies
    <3>2. a = Replied(TargetInfoSize, Ok(0), Wrote(TargetInfoSize, 0, 0, -1))
      BY <2>3, <3>1
    <3>3. req.n = TargetInfoSize /\ TargetInfoSize \in Nat
      BY <1>1, <2>1, <2>5, Constants DEF IsRequest
    <3>4. Cells(Place["buf"]) = req.n
      BY <1>1, <2>1, <2>2, Uncut DEF Fetches, Counting, IsEpoll, Vectored
    <3>5. TargetInfoSize <= IntMax
      BY <1>1, <2>2, <3>3, <3>4, BufferFits
    <3> QED
      BY <2>1, <2>2, <3>2, <3>3, <3>5, ObjectAnswers
  <2> QED
    BY <1>6, <2>4, <2>5
<1> QED
  BY <1>4, <1>5, <1>6 DEF Fetches, Controls

LEMMA KernelSleeps ==
    ASSUME AtKernel, Sleeps(Item), NEW a \in ServiceReplies
    PROVE  Answers(a, Decode(Item.num, Item.ret, a.ret))
<1>1. kcall.num = "nanosleep"
  BY AtKernelIs DEF Sleeps
<1>2. KernelReplies = {Returns(0, Nothing),
          Replied(ErrnoWord(EINTR), Err(EINTR), Wrote(0, One("buf2"), 0, -1))}
  BY <1>1 DEF KernelReplies
<1>3. a \in KernelReplies \/ a = Fails(EPERM)
  BY <1>1, ServiceOf DEF SyscallNames
<1> QED
  BY <1>2, <1>3, FailureAnswers, SleepsAnswers

LEMMA KernelPlain ==
    ASSUME AtKernel, Plain(Item), NEW a \in Replies
    PROVE  Answers(a, Decode(Item.num, Item.ret, a.ret))
<1>1. kcall.num = Item.num /\ Item.num \in PlainNums \ {"exit", "exit_group"}
  BY AtKernelIs DEF Plain
<1>2. 0 \in Nat /\ 0 <= IntMax /\ IntMax \in Nat /\ IntMax <= IntMax
      /\ ByteMax \in Nat /\ ByteMax <= IntMax /\ ByteMax + 1 \in Nat /\ ByteMax + 1 <= IntMax /\ 0 <= ByteMax
  BY Constants
<1>3. \A k, w : Returns(k, w) = Replied(k, Ok(k), w)
  BY DEF Returns
<1>4. Item.ret = PlainRet(Item.num)
  BY DEF Plain
<1>5. ASSUME a = Returns(0, Nothing) PROVE Answers(a, Decode(Item.num, Item.ret, a.ret))
  BY <1>2, <1>3, <1>5, PlainAnswers
<1>6. ASSUME a = Returns(IntMax, Nothing), Item.num \in {"dup", "dup2", "dup3"} \/ Item.ret \in {"c_int", "usize"}
      PROVE  Answers(a, Decode(Item.num, Item.ret, a.ret))
  <2>1. Item.num \notin {"gdb_read", "gdb_peek"}
    BY <1>4, <1>6 DEF PlainRet
  <2> QED
    BY <1>2, <1>3, <1>6, <2>1, PlainAnswers
<1>7. a \in ServiceReplies \/ a = Returns(0, Nothing)
  BY DEF Replies
<1>8. CASE Item.num \in {"bind", "close", "connect", "epoll_ctl", "listen", "setsockopt", "sync"}
  <2>1. KernelReplies = {Returns(0, Nothing)}
    BY <1>1, <1>8 DEF KernelReplies
  <2>2. a = Returns(0, Nothing) \/ a = Fails(EPERM)
    BY <1>1, <1>7, <1>8, <2>1, ServiceOf DEF SyscallNames
  <2> QED
    BY <1>5, <2>2, FailureAnswers
<1>9. CASE Item.num \in {"dup", "dup2", "dup3", "open", "fcntl", "epoll_create1", "eventfd2", "socket"}
  <2>1. KernelReplies = {Returns(IntMax, Nothing)}
    BY <1>1, <1>9 DEF KernelReplies
  <2>2. a \in {Returns(0, Nothing), Returns(IntMax, Nothing), Fails(EPERM)}
    BY <1>1, <1>7, <1>9, <2>1, ServiceOf DEF SyscallNames
  <2>3. Item.num \in {"dup", "dup2", "dup3"} \/ Item.ret = "c_int"
    BY <1>4, <1>9 DEF PlainRet
  <2> QED
    BY <1>5, <1>6, <2>2, <2>3, FailureAnswers
<1>10. CASE Item.num \in {"gdb_on_session_start", "gdb_flush", "gdb_write"}
  <2>1. GdbReplies = {Returns(0, Nothing)}
    BY <1>1, <1>10 DEF GdbReplies
  <2>2. a = Returns(0, Nothing) \/ a = Fails(EPERM)
    BY <1>1, <1>7, <1>10, <2>1, ServiceOf DEF GdbNames
  <2> QED
    BY <1>5, <2>2, FailureAnswers
<1>11. CASE Item.num \in {"gdb_read", "gdb_peek"}
  <2>1. GdbReplies = {Returns(b, Nothing) : b \in {0, ByteMax}}
          \cup (IF Item.num = "gdb_peek" THEN {Replied(ByteMax + 1, Ok(None), Nothing)} ELSE {})
    BY <1>1, <1>11 DEF GdbReplies
  <2>2. \/ a \in {Returns(0, Nothing), Returns(ByteMax, Nothing), Fails(EPERM)}
        \/ Item.num = "gdb_peek" /\ a = Replied(ByteMax + 1, Ok(None), Nothing)
    BY <1>1, <1>7, <1>11, <2>1, ServiceOf DEF GdbNames
  <2>3. ASSUME a = Returns(ByteMax, Nothing) PROVE Answers(a, Decode(Item.num, Item.ret, a.ret))
    <3>1. Item.ret # "unit"
      BY <1>4, <1>11 DEF PlainRet
    <3> QED
      BY <1>2, <1>3, <2>3, <3>1, PlainAnswers
  <2>4. ASSUME Item.num = "gdb_peek", a = Replied(ByteMax + 1, Ok(None), Nothing)
        PROVE  Answers(a, Decode(Item.num, Item.ret, a.ret))
    <3>1. PICK k \in Nat : k = ByteMax + 1 /\ k <= IntMax
      BY <1>2
    <3> QED
      BY <2>4, <3>1, PlainAnswers
  <2> QED
    BY <1>5, <2>2, <2>3, <2>4, FailureAnswers
<1>12. CASE Item.num \in {"balloon_memory", "get_sgx_quote_size", "mem_info", "mmap_host", "mprotect_host",
                         "munmap_host", "trim_sgx_pages"}
  <2>1. Item.num \notin SyscallNames \cup GdbNames
    BY <1>12 DEF SyscallNames, GdbNames
  <2>2. a \in EnarxReplies \/ a = Fails(EPERM) \/ a = Returns(0, Nothing)
    BY <1>1, <1>7, <2>1, ServiceOf
  <2>3. CASE Item.num \in {"balloon_memory", "get_sgx_quote_size", "mem_info"}
    <3>1. EnarxReplies = {Returns(IntMax, Nothing)}
      BY <1>1, <2>3 DEF EnarxReplies
    <3>2. Item.ret = "usize"
      BY <1>4, <2>3 DEF PlainRet
    <3> QED
      BY <1>5, <1>6, <2>2, <3>1, <3>2, FailureAnswers
  <2>4. CASE Item.num \in {"mmap_host", "mprotect_host", "munmap_host", "trim_sgx_pages"}
    <3>1. EnarxReplies = {Returns(0, Nothing)}
      BY <1>1, <2>4 DEF EnarxReplies
    <3> QED
      BY <1>5, <2>2, <3>1, FailureAnswers
  <2> QED
    BY <1>12, <2>3, <2>4
<1> QED
  BY <1>1, <1>8, <1>9, <1>10, <1>11, <1>12 DEF PlainNums

\* Whatever the kernel, the gdb client or a service answers is an answer to the call.
LEMMA RepliesAnswer ==
    ASSUME AtKernel, NEW a \in Replies
    PROVE  Answers(a, Decode(Item.num, Item.ret, a.ret))
<1>1. Handle(req).k = "stage" /\ kcall.num = Item.num
  BY AtKernelIs DEF Carried
<1>2. CASE Plain(Item)
  BY <1>2, KernelPlain
<1>3. CASE ~Plain(Item)
  <2>1. Item.num # "gdb_on_session_start"
    BY <1>1, <1>3, Kinds DEF Receives, Sends, NamesPeer, Polls, Waits, Controls, Sleeps, Fetches, Certifies
  <2>2. a \in ServiceReplies
    BY <1>1, <2>1 DEF Replies
  <2> QED
    BY <1>1, <1>3, <2>2, Kinds, KernelReceives, KernelNames, KernelCounts, KernelFills, KernelSleeps
<1> QED
  BY <1>2, <1>3

----------------------------------------------------------------------------
(* The kernel writes where it was told to, and nowhere else.               *)

\* In a region: what was written, then what was there.
LEMMA AnsweredCells ==
    ASSUME AtKernel, NEW a, NEW res, Answers(a, res), NEW r \in DOMAIN Place, NEW i \in 1..Cells(Place[r])
    PROVE  Answered(a)[Place[r].off + i] =
             IF i <= WrittenBy(a, r) THEN WrittenCell(a, r, i) ELSE data[Place[r].off + i]
<1>1. Carried /\ r \in Roles
  BY AtKernelIs, Placed
<1>2. PICK off \in Nat, cells \in Nat, size \in Nat :
         off = Place[r].off /\ cells = Cells(Place[r]) /\ size = Len(data) /\ off + cells <= size
  BY <1>1, Lodged, Placed
<1>3. DOMAIN data = 1..size
  BY <1>1, <1>2 DEF Carried
<1>4. PICK x \in Nat : x = off + i /\ x \in 1..size /\ x > off /\ x <= off + cells /\ x - off = i /\ i \in 1..cells
  BY <1>2
<1> DEFINE hits == {s \in Roles : At(s) >= 0 /\ x > At(s) /\ x <= At(s) + WrittenBy(a, s)}
<1>5. At(r) = off
  BY <1>1, <1>2, AtIs
<1>6. \A s \in Roles : WrittenBy(a, s) \in Nat /\ (s \in DOMAIN Place => WrittenBy(a, s) <= Cells(Place[s]))
  BY DEF Answers
<1>7. ASSUME NEW s \in hits PROVE s = r
  <2> SUFFICES ASSUME s # r PROVE FALSE
    OBVIOUS
  <2>1. s \in Roles /\ At(s) >= 0 /\ x > At(s) /\ x <= At(s) + WrittenBy(a, s)
    OBVIOUS
  <2>2. At(s) = IF s \in DOMAIN Place THEN Place[s].off ELSE -1
    BY <2>1, AtIs
  <2>3. s \in DOMAIN Place
    BY <2>1, <2>2
  <2>4. PICK b \in Nat, c \in Nat, w \in Nat :
           b = Place[s].off /\ c = Cells(Place[s]) /\ w = WrittenBy(a, s) /\ w <= c
    BY <1>1, <1>6, <2>1, <2>3, Lodged
  <2>5. Apart(Place[r], Place[s])
    BY <1>1, <2>3, Placed
  <2>6. x > b /\ x <= b + w
    BY <2>1, <2>2, <2>3, <2>4
  <2>7. off + cells <= b \/ b + c <= off
    BY <1>2, <2>4, <2>5 DEF Apart
  <2> QED
    BY ONLY off \in Nat, cells \in Nat, b \in Nat, c \in Nat, w \in Nat, x \in Nat, <2>4, <2>6, <2>7, <1>4
<1>8. Answered(a)[x] = IF hits = {} THEN data[x]
                       ELSE WrittenCell(a, CHOOSE s \in hits : TRUE, x - At(CHOOSE s \in hits : TRUE))
  BY <1>3, <1>4 DEF Answered
<1>9. r \in hits <=> i <= WrittenBy(a, r)
  <2>1. PICK w \in Nat : w = WrittenBy(a, r)
    BY <1>1, <1>6
  <2>2. off >= 0 /\ x > off /\ (x <= off + w <=> i <= w)
    BY <1>4
  <2> QED
    BY <1>1, <1>5, <2>1, <2>2
<1>10. CASE i <= WrittenBy(a, r)
  <2>1. (CHOOSE s \in hits : TRUE) = r /\ hits # {}
    BY <1>7, <1>9, <1>10
  <2> QED
    BY <1>2, <1>4, <1>5, <1>8, <1>10, <2>1
<1>11. CASE ~(i <= WrittenBy(a, r))
  <2>1. hits = {}
    BY <1>7, <1>9, <1>11
  <2> QED
    BY <1>2, <1>4, <1>8, <1>11, <2>1
<1> QED
  BY <1>10, <1>11

\* The item keeps its size.
LEMMA AnsweredDomain ==
    ASSUME NEW a
    PROVE  /\ DOMAIN Answered(a) = DOMAIN data
           /\ Answered(a) = [i \in DOMAIN data |-> Answered(a)[i]]
<1> DEFINE hits(i) == {r \in Roles : At(r) >= 0 /\ i > At(r) /\ i <= At(r) + WrittenBy(a, r)}
           cell(i) == IF hits(i) = {} THEN data[i]
                      ELSE WrittenCell(a, CHOOSE r \in hits(i) : TRUE, i - At(CHOOSE r \in hits(i) : TRUE))
<1>1. Answered(a) = [i \in DOMAIN data |-> cell(i)]
  BY DEF Answered
<1> HIDE DEF cell
<1> QED
  BY <1>1

\* The answer is in the item.
LEMMA KernelReturnsStep == ASSUME ProxyInv, KernelReturns PROVE ProxyInv'
<1>1. /\ pc = "kernel" /\ pc' = "guest" /\ InBlock /\ TypeOK /\ StagedInv /\ AtKernel
      /\ UNCHANGED <<backend, cap, req, mem, kcall, result, actions>>
  BY DEF KernelReturns, ProxyInv, InBlock, AtKernel
<1>2. PICK a \in Replies : /\ data' = Answered(a) /\ ret' = a.ret /\ reply' = a
                           /\ session' = (session \/ (kcall.num = "gdb_on_session_start" /\ a.ret = 0))
  BY DEF KernelReturns
<1>3. PICK res : res = Decode(Item.num, Item.ret, a.ret)
  OBVIOUS
<1>4. Answers(a, res) /\ a.from = "kernel" /\ Carried /\ reply = NoReply
  BY <1>1, <1>3, RepliesAnswer, AtKernelIs DEF Answers
<1>5. Item' = Item /\ Place' = Place
  BY <1>1 DEF Item, Place
<1>6. ReplyInv'
  <2>1. Answers(a, res)'
    BY <1>1, <1>4, AnswersKept
  <2> QED
    BY <1>2, <1>3, <1>5, <2>1 DEF ReplyInv
<1>7. TypeOK' /\ KernelInv' /\ LiedInv'
  BY <1>1, <1>2, <1>4 DEF TypeOK, Live, KernelInv, LiedInv
<1>8. StagedInv'
  <2>1. PICK size \in Nat : DOMAIN data = 1..size /\ Len(data) = size
    BY <1>4, Placed DEF Carried
  <2>2. PICK f : f = Answered(a) /\ DOMAIN f = 1..size /\ f = [i \in 1..size |-> f[i]]
    BY <2>1, AnsweredDomain
  <2>3. DOMAIN data' = 1..size /\ Len(data') = size
    BY <1>2, <2>2
  <2> QED
    BY <1>1, <1>5, <2>1, <2>3 DEF StagedInv, InBlock
<1>9. CellsInv'
  <2>1. \A r : Whole(mem, r)' = Whole(mem, r) /\ Written(r)' = WrittenBy(a, r)
    BY <1>1, <1>2 DEF Whole, Vectored, Written
  <2>2. \A r, i : /\ Cell(r, i)' = data'[Place[r].off + i]
                  /\ KernelCell(r, i)' = WrittenCell(a, r, i)
    BY <1>2, <1>5 DEF Cell, KernelCell
  <2>3. ASSUME NEW r \in DOMAIN Place, NEW i \in 1..Cells(Place[r])
        PROVE  /\ i <= WrittenBy(a, r) => data'[Place[r].off + i] = WrittenCell(a, r, i)
               /\ i > WrittenBy(a, r) /\ Place[r].region.dir # "out" => data'[Place[r].off + i] = Whole(mem, r)[i]
    <3>1. data'[Place[r].off + i] = IF i <= WrittenBy(a, r) THEN WrittenCell(a, r, i) ELSE data[Place[r].off + i]
      BY <1>1, <1>2, <1>4, AnsweredCells
    <3>2. i \in Nat /\ i > 0 /\ r \in Roles /\ WrittenBy(a, r) \in Nat
      BY <1>4, Lodged, Placed DEF Answers
    <3>3. i > WrittenBy(a, r) => ~(i <= WrittenBy(a, r))
      BY <3>2
    <3>4. Place[r].region.dir # "out" => data[Place[r].off + i] = Whole(mem, r)[i]
      <4>1. NoReply.wrote = Nothing /\ NoReply.from # "hostile"
        BY DEF NoReply
      <4>2. Written(r) = 0
        BY <1>4, <3>2, <4>1, NothingWritten DEF Written
      <4> QED
        BY <1>1, <1>4, <3>2, <4>1, <4>2 DEF AtKernel, CellsInv, Cell
    <3> QED
      BY <3>1, <3>3, <3>4
  <2> QED
    BY <1>5, <2>1, <2>2, <2>3 DEF CellsInv
<1> QED
  BY <1>1, <1>6, <1>7, <1>8, <1>9, Quiet, Promised

----------------------------------------------------------------------------
(* What the shim copies back.                                              *)

\* Copying back changes one argument.
LEMMA CopyBackIs ==
    ASSUME NEW m, DOMAIN m = Roles, NEW place, NEW role \in Roles, NEW cells, NEW c, c = CopyBack(m, place, role, cells)
    PROVE  /\ DOMAIN c = Roles
           /\ c[role] = [i \in DOMAIN m[role] |-> IF i <= cells THEN data[place[role].off + i] ELSE m[role][i]]
           /\ \A r \in Roles : r # role => c[r] = m[r]
BY DEF CopyBack

\* The first cells of an argument come from its region, the rest is the caller's.
Back(m, r, cells) == m[r] = [i \in 1..Spanned(req, r) |-> IF i <= cells THEN Cell(r, i) ELSE mem[r][i]]

\* Nothing copied back, an argument copied back.
LEMMA NothingBack ==
    ASSUME Carried, NEW r \in Roles, NEW m, m[r] = mem[r]
    PROVE  Back(m, r, 0)
<1>1. PICK n, s : n \in Nat /\ n = Spanned(req, r) /\ s = mem[r] /\ s = [i \in 1..n |-> s[i]]
  BY SpannedNat, UserStorage DEF Carried, IsStorage
<1>2. s = [i \in 1..n |-> IF i <= 0 THEN Cell(r, i) ELSE s[i]]
  BY <1>1
<1> QED
  BY <1>1, <1>2 DEF Back

LEMMA SomeBack ==
    ASSUME Carried, NEW m, NEW r \in Roles, DOMAIN m = Roles, m[r] = mem[r], NEW cells,
           NEW c, c = CopyBack(m, Place, r, cells)
    PROVE  DOMAIN c = Roles /\ Back(c, r, cells) /\ \A s \in Roles : s # r => c[s] = m[s]
<1>1. DOMAIN mem[r] = 1..Spanned(req, r)
  BY UserDomains DEF Carried
<1>2. /\ DOMAIN c = Roles /\ \A s \in Roles : s # r => c[s] = m[s]
      /\ c[r] = [i \in DOMAIN m[r] |-> IF i <= cells THEN data[Place[r].off + i] ELSE m[r][i]]
  BY CopyBackIs
<1>3. c[r] = [i \in 1..Spanned(req, r) |-> IF i <= cells THEN data[Place[r].off + i] ELSE mem[r][i]]
  BY <1>1, <1>2
<1> QED
  BY <1>2, <1>3 DEF Back, Cell

\* The length, then the address.
LEMMA AddressBack ==
    ASSUME Carried, NEW m, DOMAIN m = Roles, m["len"] = mem["len"], m["addr"] = mem["addr"],
           NEW length, "len" \in DOMAIN Place => length = data[Place["len"].off + 1][3],
           NEW res, TakesAddress(res), NEW c, c = CopySockaddr(m, Place)
    PROVE  /\ DOMAIN c = Roles /\ c["buf"] = m["buf"] /\ c["buf2"] = m["buf2"]
           /\ Back(c, "len", Taken("len", res, length)) /\ Back(c, "addr", Taken("addr", res, length))
<1>1. "addr" \in DOMAIN Place <=> "len" \in DOMAIN Place
  BY CarriedShape, Placed DEF Shape, Collects, Roles, TakesAddress
<1>2. {"len", "addr", "buf", "buf2"} \subseteq Roles
  BY DEF Roles
<1>3. CASE "addr" \notin DOMAIN Place
  <2>1. c = m /\ Taken("len", res, length) = 0 /\ Taken("addr", res, length) = 0
    BY <1>1, <1>3 DEF CopySockaddr, Taken
  <2> QED
    BY <1>2, <2>1, NothingBack
<1>4. CASE "addr" \in DOMAIN Place
  <2>1. Taken("len", res, length) = 1 /\ Taken("addr", res, length) = AtMost(Place["addr"].n, length)
    BY <1>1, <1>4 DEF Taken
  <2>2. PICK b : b = CopyBack(m, Place, "len", 1)
    OBVIOUS
  <2>3. c = CopyBack(b, Place, "addr", AtMost(Place["addr"].n, length))
    BY <1>1, <1>4, <2>2 DEF CopySockaddr
  <2>4. DOMAIN b = Roles /\ Back(b, "len", 1) /\ b["addr"] = mem["addr"] /\ b["buf"] = m["buf"] /\ b["buf2"] = m["buf2"]
    BY <1>2, <2>2, SomeBack
  <2>5. /\ DOMAIN c = Roles /\ Back(c, "addr", AtMost(Place["addr"].n, length))
        /\ c["len"] = b["len"] /\ c["buf"] = b["buf"] /\ c["buf2"] = b["buf2"]
    BY <1>2, <2>3, <2>4, SomeBack
  <2> QED
    BY <2>1, <2>4, <2>5 DEF Back
<1> QED
  BY <1>3, <1>4

\* The parts of an iovec.
ScatteredBack(m, cells) ==
    m["buf2"] = [i \in 1..Spanned(req, "buf2") |->
                   IF Spanned(req, "buf") + i <= cells THEN Cell("buf", Spanned(req, "buf") + i) ELSE mem["buf2"][i]]

\* A buffer scattered over an iovec.
LEMMA ScatterIs ==
    ASSUME Carried, NEW cells, NEW c, c = Scatter(Place, cells)
    PROVE  /\ DOMAIN c = Roles /\ c["len"] = mem["len"] /\ c["addr"] = mem["addr"]
           /\ Back(c, "buf", cells) /\ ScatteredBack(c, cells)
<1>1. DOMAIN mem = Roles /\ {"len", "addr", "buf", "buf2"} \subseteq Roles
  BY UserStorage DEF Carried, Roles
<1>2. DOMAIN mem["buf"] = 1..Spanned(req, "buf") /\ DOMAIN mem["buf2"] = 1..Spanned(req, "buf2")
  BY <1>1, UserDomains DEF Carried
<1>3. Len(mem["buf"]) = Spanned(req, "buf")
  <2>1. PICK n, s : n \in Nat /\ n = Spanned(req, "buf") /\ s = mem["buf"] /\ s = [i \in 1..n |-> s[i]]
    BY <1>1, SpannedNat, UserStorage DEF Carried, IsStorage
  <2> QED
    BY <2>1
<1> DEFINE at(i) == data[Place["buf"].off + i]
           first == Len(mem["buf"])
           one == [i \in DOMAIN mem["buf"] |-> IF i <= cells THEN at(i) ELSE mem["buf"][i]]
           two == [i \in DOMAIN mem["buf2"] |-> IF first + i <= cells THEN at(first + i) ELSE mem["buf2"][i]]
<1>4. c = [mem EXCEPT !["buf"] = one, !["buf2"] = two]
  BY DEF Scatter
<1>5. DOMAIN c = Roles /\ c["len"] = mem["len"] /\ c["addr"] = mem["addr"] /\ c["buf"] = one /\ c["buf2"] = two
  <2> HIDE DEF one, two
  <2> QED
    BY <1>1, <1>4
<1>6. Back(c, "buf", cells)
  BY <1>2, <1>5 DEF Back, Cell
<1>7. ScatteredBack(c, cells)
  BY <1>2, <1>3, <1>5 DEF ScatteredBack, Cell
<1> QED
  BY <1>5, <1>6, <1>7

\* Every way of collecting copies back as many cells as Taken says.
LEMMA CollectedIs ==
    ASSUME Carried, NEW res, NEW length, "len" \in DOMAIN Place => length = data[Place["len"].off + 1][3],
           NEW m, m = Collected(Item, Place, res)
    PROVE  /\ \A r \in Roles : r # "buf2" \/ Item.collect # "scatter" => Back(m, r, Taken(r, res, length))
           /\ Item.collect = "scatter" => ScatteredBack(m, Taken("buf", res, length))
<1>1. DOMAIN mem = Roles /\ {"len", "addr", "buf", "buf2"} \subseteq Roles
  BY UserStorage DEF Carried, Roles
<1>2. PICK kind : kind = Item.collect
  OBVIOUS
<1>3. Collects(Item, Handle(req).option) /\ \A r \in Roles : r \in DOMAIN Place <=> Has(Item, r)
  BY CarriedShape, Placed DEF Shape
<1>4. ASSUME m = mem, \A r \in Roles : Taken(r, res, length) = 0, kind # "scatter"
      PROVE  \A r \in Roles : Back(m, r, Taken(r, res, length))
  BY <1>4, NothingBack
<1>5. ASSUME NEW s \in {"buf", "buf2"}, m = IF s \in DOMAIN Place THEN CopyBack(mem, Place, s, Taken(s, res, length)) ELSE mem,
             \A r \in Roles : r # s => Taken(r, res, length) = 0
      PROVE  \A r \in Roles : Back(m, r, Taken(r, res, length))
  <2>1. s \notin DOMAIN Place => Taken(s, res, length) = 0
    BY DEF Taken
  <2>2. CASE s \notin DOMAIN Place
    BY <1>5, <2>1, <2>2, NothingBack
  <2>3. CASE s \in DOMAIN Place
    <3>1. Back(m, s, Taken(s, res, length)) /\ \A r \in Roles : r # s => m[r] = mem[r]
      BY <1>1, <1>5, <2>3, SomeBack
    <3> QED
      BY <1>5, <3>1, NothingBack
  <2> QED
    BY <2>2, <2>3
<1>6. CASE kind = "always" \/ (kind = "ok" /\ res.t = "ok")
  <2>1. m = IF "buf" \in DOMAIN Place THEN CopyBack(mem, Place, "buf", Cells(Place["buf"])) ELSE mem
    BY <1>2, <1>6 DEF Collected
  <2>2. "buf" \in DOMAIN Place => Taken("buf", res, length) = Cells(Place["buf"])
    BY <1>2, <1>6 DEF Taken
  <2>3. \A r \in Roles : r # "buf" => Taken(r, res, length) = 0
    BY <1>2, <1>6 DEF Taken, TakesAddress, Roles
  <2>4. m = IF "buf" \in DOMAIN Place THEN CopyBack(mem, Place, "buf", Taken("buf", res, length)) ELSE mem
    BY <2>1, <2>2
  <2> QED
    BY <1>2, <1>5, <1>6, <2>3, <2>4
<1>7. CASE kind = "interrupted" /\ res = Err(EINTR)
  <2>1. m = IF "buf2" \in DOMAIN Place THEN CopyBack(mem, Place, "buf2", Cells(Place["buf2"])) ELSE mem
    BY <1>2, <1>7 DEF Collected
  <2>2. "buf2" \in DOMAIN Place => Taken("buf2", res, length) = Cells(Place["buf2"])
    BY <1>2, <1>7 DEF Taken
  <2>3. \A r \in Roles : r # "buf2" => Taken(r, res, length) = 0
    BY <1>2, <1>7 DEF Taken, TakesAddress, Roles
  <2>4. m = IF "buf2" \in DOMAIN Place THEN CopyBack(mem, Place, "buf2", Taken("buf2", res, length)) ELSE mem
    BY <2>1, <2>2
  <2> QED
    BY <1>2, <1>5, <1>7, <2>3, <2>4
<1>8. CASE kind = "sockaddr"
  <2>1. m = CopySockaddr(mem, Place) /\ TakesAddress(res)
    BY <1>2, <1>8 DEF Collected, TakesAddress
  <2>2. Taken("buf", res, length) = 0 /\ Taken("buf2", res, length) = 0
    BY <1>2, <1>8 DEF Taken
  <2>3. /\ m["buf"] = mem["buf"] /\ m["buf2"] = mem["buf2"]
        /\ Back(m, "len", Taken("len", res, length)) /\ Back(m, "addr", Taken("addr", res, length))
    BY <1>1, <2>1, AddressBack
  <2>4. Back(m, "buf", 0) /\ Back(m, "buf2", 0)
    BY <1>1, <2>3, NothingBack
  <2> QED
    BY <1>2, <1>8, <2>2, <2>3, <2>4 DEF Roles
<1>9. CASE kind = "prefix" /\ res.t = "ok"
  <2>1. "buf" \in DOMAIN Place
    BY <1>1, <1>2, <1>3, <1>9 DEF Collects, Counting
  <2>2. m = CopyBack(mem, Place, "buf", Taken("buf", res, length))
    BY <1>2, <1>9, <2>1 DEF Collected, Taken
  <2>3. \A r \in Roles : r # "buf" => Taken(r, res, length) = 0
    BY <1>2, <1>9 DEF Taken, TakesAddress, Roles
  <2> QED
    BY <1>2, <1>5, <1>9, <2>1, <2>2, <2>3
<1>10. CASE kind = "scatter" /\ res.t = "ok"
  <2>1. "buf" \in DOMAIN Place
    BY <1>1, <1>2, <1>3, <1>10 DEF Collects, Counting
  <2>2. m = Scatter(Place, Taken("buf", res, length))
    BY <1>2, <1>10, <2>1 DEF Collected, Taken
  <2>3. Taken("addr", res, length) = 0 /\ Taken("len", res, length) = 0
    BY <1>2, <1>10 DEF Taken, TakesAddress
  <2>4. /\ m["len"] = mem["len"] /\ m["addr"] = mem["addr"]
        /\ Back(m, "buf", Taken("buf", res, length)) /\ ScatteredBack(m, Taken("buf", res, length))
    BY <2>2, ScatterIs
  <2>5. Back(m, "len", 0) /\ Back(m, "addr", 0)
    BY <1>1, <2>4, NothingBack
  <2> QED
    BY <1>2, <1>10, <2>3, <2>4, <2>5 DEF Roles
<1>11. CASE kind = "prefix_sockaddr" /\ res.t = "ok"
  <2>1. "buf" \in DOMAIN Place /\ TakesAddress(res)
    BY <1>1, <1>2, <1>3, <1>11 DEF Collects, Counting, TakesAddress
  <2>2. PICK b : b = CopyBack(mem, Place, "buf", Taken("buf", res, length))
    OBVIOUS
  <2>3. m = CopySockaddr(b, Place)
    BY <1>2, <1>11, <2>1, <2>2 DEF Collected, Taken
  <2>4. /\ DOMAIN b = Roles /\ Back(b, "buf", Taken("buf", res, length))
        /\ b["buf2"] = mem["buf2"] /\ b["len"] = mem["len"] /\ b["addr"] = mem["addr"]
    BY <1>1, <2>2, SomeBack
  <2>5. /\ m["buf"] = b["buf"] /\ m["buf2"] = mem["buf2"]
        /\ Back(m, "len", Taken("len", res, length)) /\ Back(m, "addr", Taken("addr", res, length))
    BY <2>1, <2>3, <2>4, AddressBack
  <2>6. Taken("buf2", res, length) = 0
    BY <1>2, <1>11 DEF Taken
  <2>7. Back(m, "buf2", 0) /\ Back(m, "buf", Taken("buf", res, length))
    BY <1>1, <2>4, <2>5, NothingBack DEF Back
  <2> QED
    BY <1>2, <1>11, <2>5, <2>6, <2>7 DEF Roles
<1>12. CASE \/ kind \in {"none", "count"} \/ (kind = "ok" /\ res.t # "ok") \/ (kind = "interrupted" /\ res # Err(EINTR))
            \/ (kind \in {"prefix", "scatter", "prefix_sockaddr"} /\ res.t # "ok")
  <2>1. m = mem
    BY <1>2, <1>12 DEF Collected
  <2>2. \A r \in Roles : Taken(r, res, length) = 0
    BY <1>2, <1>12 DEF Taken, TakesAddress, Roles
  <2>3. \A r \in Roles : Back(m, r, 0)
    BY <2>1, NothingBack
  <2>4. ScatteredBack(m, 0)
    <3>1. PICK n, f, s : n \in Nat /\ f \in Nat /\ n = Spanned(req, "buf2") /\ s = mem["buf2"] /\ s = [i \in 1..n |-> s[i]]
                                         /\ f = Spanned(req, "buf")
      BY <1>1, SpannedNat, UserStorage DEF Carried, IsStorage
    <3>2. s = [i \in 1..n |-> IF f + i <= 0 THEN Cell("buf", f + i) ELSE s[i]]
      BY <3>1
    <3> QED
      BY <2>1, <3>1, <3>2 DEF ScatteredBack
  <2> QED
    BY <1>1, <2>2, <2>3, <2>4
<1> QED
  BY <1>2, <1>3, <1>6, <1>7, <1>8, <1>9, <1>10, <1>11, <1>12 DEF Collects, Counting

\* Storage of the caller after collecting.
Restored(m, res, length) ==
    /\ \A r \in Roles : r # "buf2" \/ Item.collect # "scatter" => Back(m, r, Taken(r, res, length))
    /\ Item.collect = "scatter" => ScatteredBack(m, Taken("buf", res, length))

\* Collecting keeps the size of the storage.
LEMMA RestoredStorage ==
    ASSUME Carried, NEW m, NEW res, NEW length, Restored(m, res, length)
    PROVE  IsStorage(m) /\ \A r \in Roles : DOMAIN m[r] = 1..Spanned(req, r)
<1>1. ASSUME NEW r \in Roles
      PROVE  m[r] = [i \in 1..Spanned(req, r) |-> m[r][i]] /\ DOMAIN m[r] = 1..Spanned(req, r)
  <2>1. CASE r # "buf2" \/ Item.collect # "scatter"
    <3>1. Back(m, r, Taken(r, res, length))
      BY <2>1 DEF Restored
    <3> QED
      BY <3>1 DEF Back
  <2>2. CASE r = "buf2" /\ Item.collect = "scatter"
    <3>1. ScatteredBack(m, Taken("buf", res, length))
      BY <2>2 DEF Restored
    <3> QED
      BY <2>2, <3>1 DEF ScatteredBack
  <2> QED
    BY <2>1, <2>2
<1> QED
  BY <1>1 DEF IsStorage

\* An argument after collecting, the parts of an iovec as one.
LEMMA RestoredWhole ==
    ASSUME Carried, NEW m, NEW res, NEW length, Restored(m, res, length), NEW r \in Arguments
    PROVE  /\ Len(Whole(m, r)) = Len(Whole(mem, r)) /\ Len(Whole(mem, r)) \in Nat
           /\ \A i \in 1..Len(Whole(mem, r)) :
                Whole(m, r)[i] = IF i <= Taken(r, res, length) THEN Cell(r, i) ELSE Whole(mem, r)[i]
<1>1. IsRequest(req) /\ IsStorage(m) /\ IsStorage(mem) /\ r \in Roles
  BY RestoredStorage, UserStorage DEF Carried, Arguments
<1>2. PICK taken : taken = Taken(r, res, length)
  OBVIOUS
<1>3. {"buf", "buf2"} \subseteq Roles
  BY DEF Roles
<1>4. CASE r = "buf" /\ Vectored
  <2>1. PICK n1 \in Nat : n1 = Spanned(req, "buf")
    BY <1>1, <1>3, SpannedNat
  <2>2. PICK n2 \in Nat : n2 = Spanned(req, "buf2")
    BY <1>1, <1>3, SpannedNat
  <2>3. PICK size \in Nat : size = n1 + n2
    OBVIOUS
  <2>4. /\ Len(Whole(m, r)) = size
        /\ \A i \in 1..size : Whole(m, r)[i] = IF i > n1 THEN m["buf2"][i - n1] ELSE m["buf"][i]
    BY <1>1, <1>4, <2>1, <2>2, <2>3, WholeOf
  <2>5. /\ Len(Whole(mem, r)) = size
        /\ \A i \in 1..size : Whole(mem, r)[i] = IF i > n1 THEN mem["buf2"][i - n1] ELSE mem["buf"][i]
    BY <1>1, <1>4, <2>1, <2>2, <2>3, WholeOf
  <2>6. \A i \in 1..n1 : m["buf"][i] = IF i <= taken THEN Cell("buf", i) ELSE mem["buf"][i]
    <3>1. Back(m, "buf", taken)
      BY <1>2, <1>3, <1>4 DEF Restored
    <3> QED
      BY <2>1, <3>1 DEF Back
  <2>7. \A i \in 1..n2 : m["buf2"][i] = IF n1 + i <= taken THEN Cell("buf", n1 + i) ELSE mem["buf2"][i]
    <3>1. CASE Item.collect = "scatter"
      <4>1. ScatteredBack(m, taken)
        BY <1>2, <1>4, <3>1 DEF Restored
      <4> QED
        BY <2>1, <2>2, <4>1 DEF ScatteredBack
    <3>2. CASE Item.collect # "scatter"
      <4>1. Item.collect = "count"
        BY <1>4, <3>2, CarriedShape DEF Shape, Collects, Vectored
      <4>2. taken = 0 /\ Taken("buf2", res, length) = 0
        BY <1>2, <1>4, <4>1 DEF Taken
      <4>3. Back(m, "buf2", 0)
        BY <1>3, <3>2, <4>2 DEF Restored
      <4>4. \A i \in 1..n2 : m["buf2"][i] = IF i <= 0 THEN Cell("buf2", i) ELSE mem["buf2"][i]
        BY <2>2, <4>3 DEF Back
      <4> QED
        BY <4>2, <4>4
    <3> QED
      BY <3>1, <3>2
  <2>8. ASSUME NEW i \in 1..size
        PROVE  Whole(m, r)[i] = IF i <= taken THEN Cell(r, i) ELSE Whole(mem, r)[i]
    <3>1. CASE i > n1
      <4>1. PICK j \in 1..n2 : j = i - n1 /\ n1 + j = i
        BY <2>3, <3>1
      <4>2. Whole(m, r)[i] = m["buf2"][j] /\ Whole(mem, r)[i] = mem["buf2"][j]
        BY <2>4, <2>5, <3>1, <4>1
      <4> QED
        BY <1>4, <2>7, <4>1, <4>2
    <3>2. CASE ~(i > n1)
      <4>1. i \in 1..n1
        BY <2>3, <3>2
      <4>2. Whole(m, r)[i] = m["buf"][i] /\ Whole(mem, r)[i] = mem["buf"][i]
        BY <2>4, <2>5, <3>2
      <4> QED
        BY <1>4, <2>6, <4>1, <4>2
    <3> QED
      BY <3>1, <3>2
  <2> QED
    BY <1>2, <2>3, <2>4, <2>5, <2>8
<1>5. CASE ~(r = "buf" /\ Vectored)
  <2>1. PICK n \in Nat : n = Spanned(req, r)
    BY <1>1, SpannedNat
  <2>2. /\ Whole(m, r) = m[r] /\ Whole(mem, r) = mem[r]
        /\ Len(Whole(m, r)) = n /\ Len(Whole(mem, r)) = n
    <3>1. Whole(m, r) = m[r] /\ Whole(mem, r) = mem[r]
      BY <1>5 DEF Whole
    <3>2. Len(Whole(m, r)) = n
      BY <1>1, <1>5, <2>1, WholeOf
    <3>3. Len(Whole(mem, r)) = n
      BY <1>1, <1>5, <2>1, WholeOf
    <3> QED
      BY <3>1, <3>2, <3>3
  <2>3. r # "buf2" \/ Item.collect # "scatter"
    BY CarriedShape DEF Shape, Collects, Arguments, Vectored
  <2>4. Back(m, r, taken)
    BY <1>1, <1>2, <2>3 DEF Restored
  <2>5. \A i \in 1..n : m[r][i] = IF i <= taken THEN Cell(r, i) ELSE mem[r][i]
    BY <2>1, <2>4 DEF Back
  <2> QED
    BY <1>2, <2>2, <2>5
<1> QED
  BY <1>4, <1>5

----------------------------------------------------------------------------
(* No more is copied back than was staged.                                 *)

\* A count that is read is a number.
LEMMA DecodedCount ==
    ASSUME Carried, Item.collect \in Counting, ret \in Nat, NEW res, res = Decode(Item.num, Item.ret, ret), res.t = "ok"
    PROVE  res.v \in Nat
<1>1. Item.ret \in {"usize", "c_int"}
  BY Kinds DEF Carried, Plain, Receives, Sends, NamesPeer, Polls, Waits, Controls, Sleeps, Fetches, Certifies, Counting
<1>2. \A w : Ok(w).t = "ok" /\ Ok(w).v = w /\ Err(w).t = "err"
  BY Outcomes
<1>3. \A w : Errno(w).t = "err"
  BY <1>2 DEF Errno
<1>4. \/ res = DecodeGdbcall(Item.ret, ret) \/ res = DecodeSyscall(Item.ret, ret)
      \/ res = DecodeEnarxcall(Item.ret, ret)
  BY DEF Decode
<1>5. res = Ok(ret) \/ res.t = "err"
  BY <1>1, <1>2, <1>3, <1>4 DEF DecodeGdbcall, DecodeSyscall, DecodeEnarxcall
<1> QED
  BY <1>2, <1>5

\* What is copied back was staged.
LEMMA TakenFits ==
    ASSUME Carried, NEW res, ~Attacked(res), Item.collect \in Counting /\ res.t = "ok" => res.v \in Nat,
           NEW length, "len" \in DOMAIN Place => length \in Nat, NEW r \in DOMAIN Place
    PROVE  Taken(r, res, length) \in Nat /\ Taken(r, res, length) <= Cells(Place[r])
<1>1. /\ r \in Roles /\ Place[r].n \in Nat /\ Cells(Place[r]) \in Nat
      /\ Collects(Item, Handle(req).option) /\ \A s \in Roles : s \in DOMAIN Place <=> Has(Item, s)
  BY Placed, Lodged, CarriedShape DEF Shape
<1>2. CASE r = "buf" /\ Item.collect \in {"prefix", "scatter", "prefix_sockaddr"} /\ res.t = "ok"
  <2>1. Item.collect \in Counting /\ Handle(req).option
    BY <1>1, <1>2 DEF Counting, Collects
  <2>2. PICK n \in Nat, z \in Nat, v \in Nat : n = Place["buf"].n /\ z = Place["buf"].region.layout.size /\ v = res.v
    BY <1>2, <2>1, Lodged
  <2>3. ~(v > n)
    BY <1>2, <2>1, <2>2 DEF Attacked, Claims
  <2>4. v * z \in Nat /\ v * z <= n * z
    BY <2>3, Product, ProductGrows
  <2>5. Taken(r, res, length) = v * z /\ Cells(Place[r]) = n * z
    BY <1>2, <2>2, Lodged DEF Taken
  <2> QED
    BY <2>4, <2>5
<1>3. CASE r = "len" /\ TakesAddress(res)
  <2>1. Taken(r, res, length) = 1
    BY <1>3 DEF Taken
  <2> QED
    BY <1>3, <2>1, LengthCell
<1>4. CASE r = "addr" /\ TakesAddress(res)
  <2>1. "len" \in DOMAIN Place
    BY <1>1, <1>4 DEF Collects, TakesAddress, Roles
  <2>2. PICK n \in Nat, l \in Nat : n = Place[r].n /\ l = length /\ Cells(Place[r]) = n
    BY <1>1, <1>4, <2>1, Uncut
  <2>3. Taken(r, res, length) = AtMost(n, l)
    BY <1>4, <2>2 DEF Taken
  <2> QED
    BY <2>2, <2>3 DEF AtMost
<1>5. CASE /\ ~(r = "buf" /\ Item.collect \in {"prefix", "scatter", "prefix_sockaddr"} /\ res.t = "ok")
           /\ ~(r \in {"len", "addr"} /\ TakesAddress(res))
  <2>1. Taken(r, res, length) \in {0, Cells(Place[r])}
    BY <1>1, <1>5 DEF Taken, Roles
  <2> QED
    BY <1>1, <2>1
<1> QED
  BY <1>2, <1>3, <1>4, <1>5

\* What was staged fits the argument.
LEMMA RoomOfArgument ==
    ASSUME Carried, NEW r \in DOMAIN Place
    PROVE  /\ Cells(Place[r]) \in Nat /\ Len(Whole(mem, r)) \in Nat /\ Cells(Place[r]) <= Len(Whole(mem, r))
           /\ Place[r].n \in Nat /\ Place[r].n <= Cells(Place[r])
<1>1. PICK n \in Nat, z \in Nat, k \in Nat, cells \in Nat :
         /\ n = Place[r].n /\ z = Place[r].region.layout.size /\ k = Place[r].region.n
         /\ cells = Cells(Place[r]) /\ n <= k /\ cells = n * z /\ k * z = Len(Whole(mem, r)) /\ z > 0
  BY Lodged
<1>2. n * z <= k * z /\ k * z \in Nat
  BY SMTT(30), <1>1, Product, ProductGrows
<1>3. n * 1 <= n * z
  <2>1. PICK one \in Nat : one = 1
    OBVIOUS
  <2>2. one <= z /\ n <= n
    BY <1>1, <2>1
  <2>3. n * one <= n * z
    BY <2>2, ProductGrows
  <2> QED
    BY <2>1, <2>3
<1>4. n <= cells
  BY <1>1, <1>3
<1> QED
  BY <1>1, <1>2, <1>4

----------------------------------------------------------------------------
(* Collecting what an honest host left.                                    *)

\* The caller's length of the address.
LEMMA CarriedAddress ==
    ASSUME Carried, "len" \in DOMAIN Place
    PROVE  Whole(mem, "len")[1] = <<"user", "len", req.a>>
<1>1. IsRequest(req) /\ mem = UserMem(req) /\ "len" \notin req.null /\ "len" \in Roles
  BY LengthCell DEF Carried, Roles
<1>2. Spanned(req, "len") = 1 /\ Whole(mem, "len") = UserMem(req)["len"]
  BY <1>1 DEF Spanned, Owned, Whole
<1>3. UserMem(req)["len"][1] = Mine(req, "len", 1)
  BY <1>1, <1>2, UserStorage
<1> QED
  BY <1>2, <1>3 DEF Mine

\* The length in the item: the kernel's, or else the caller's.
LEMMA HonestLength ==
    ASSUME Carried, InBlock, CellsInv, reply.from # "hostile", reply.wrote.len \in Nat \cup {-1},
           "len" \in DOMAIN Place
    PROVE  data[Place["len"].off + 1][3] = AddressLength(reply) /\ AddressLength(reply) \in Nat
<1>1. Cells(Place["len"]) = 1 /\ Place["len"].region.dir # "out" /\ req.a \in Nat
  BY LengthCell, Lengths DEF Carried
<1>2. Written("len") = IF reply.wrote.len >= 0 THEN 1 ELSE 0
  BY DEF Written, WrittenBy
<1>3. CASE reply.wrote.len >= 0
  <2>1. Cell("len", 1) = KernelCell("len", 1)
    BY <1>1, <1>2, <1>3 DEF CellsInv
  <2>2. KernelCell("len", 1) = <<"kernel", "len", reply.wrote.len>>
    BY DEF KernelCell, WrittenCell
  <2>3. AddressLength(reply) = reply.wrote.len /\ reply.wrote.len \in Nat
    BY <1>3 DEF AddressLength
  <2> QED
    BY <2>1, <2>2, <2>3 DEF Cell
<1>4. CASE ~(reply.wrote.len >= 0)
  <2>1. Written("len") = 0
    BY <1>2, <1>4
  <2>2. Cell("len", 1) = Whole(mem, "len")[1]
    BY <1>1, <2>1 DEF CellsInv
  <2>3. AddressLength(reply) = req.a
    BY <1>4 DEF AddressLength
  <2> QED
    BY <1>1, <2>2, <2>3, CarriedAddress DEF Cell
<1> QED
  BY <1>3, <1>4

\* What the caller holds after an honest answer.
LEMMA HonestBack ==
    ASSUME Carried, InBlock, CellsInv, NEW res, res = Decode(Item.num, Item.ret, ret), ret = reply.ret, Answers(reply, res),
           ~Attacked(res), NEW m, m = Collected(Item, Place, res), NEW r \in Arguments
    PROVE  /\ req.call # "poll" => \A i \in 1..Written(r) : Whole(m, r)[i] = KernelCell(r, i)
           /\ \/ \A i \in Written(r) + 1..Len(Whole(m, r)) : Whole(m, r)[i] = Whole(mem, r)[i]
              \/ r = "addr" /\ res.t = "err" /\ req.call \in {"accept", "accept4", "getsockname"}
              \/ r = "buf" /\ req.call \in {"epoll_wait", "epoll_pwait"}
<1>1. /\ reply.from # "hostile" /\ reply.wrote.len \in Nat \cup {-1} /\ ret \in Nat /\ r \in Roles
      /\ Written(r) \in Nat /\ (r \notin DOMAIN Place => Written(r) = 0)
      /\ (r \in DOMAIN Place => Written(r) <= Cells(Place[r]) /\ TakesWritten(reply, res, r))
  BY DEF Answers, Arguments, Written
<1>2. PICK length, taken : length = AddressLength(reply) /\ taken = Taken(r, res, length)
  OBVIOUS
<1>3. "len" \in DOMAIN Place => length = data[Place["len"].off + 1][3] /\ length \in Nat
  BY <1>1, <1>2, HonestLength
<1>4. Restored(m, res, length)
  BY <1>3, CollectedIs DEF Restored
<1>5. PICK size \in Nat : size = Len(Whole(mem, r)) /\ taken = Taken(r, res, length)
  BY <1>2, <1>4, RestoredWhole
<1>6. /\ Len(Whole(m, r)) = size
      /\ \A i \in 1..size : Whole(m, r)[i] = IF i <= taken THEN Cell(r, i) ELSE Whole(mem, r)[i]
  BY <1>4, <1>5, RestoredWhole
<1>7. PICK written \in Nat : written = Written(r)
  BY <1>1
<1>8. CASE r \notin DOMAIN Place
  <2>1. written = 0 /\ taken = 0
    BY <1>1, <1>5, <1>7, <1>8 DEF Taken
  <2>2. \A i \in 1..size : Whole(m, r)[i] = Whole(mem, r)[i]
    BY <1>6, <2>1
  <2> QED
    BY <1>6, <1>7, <2>1, <2>2
<1>9. CASE r \in DOMAIN Place
  <2>1. PICK cells \in Nat : cells = Cells(Place[r]) /\ cells <= size /\ written <= cells
    BY <1>1, <1>5, <1>7, <1>9, RoomOfArgument
  <2>2. taken \in Nat /\ taken <= cells
    BY <1>1, <1>3, <1>5, <1>9, <2>1, DecodedCount, TakenFits
  <2>3. written <= taken \/ req.call = "poll"
    BY <1>1, <1>2, <1>5, <1>7, <1>9 DEF TakesWritten, Written
  <2>4. \/ taken <= written
        \/ Place[r].region.dir # "out"
        \/ r = "addr" /\ res.t = "err" /\ req.call \in {"accept", "accept4", "getsockname"}
        \/ r = "buf" /\ req.call \in {"epoll_wait", "epoll_pwait"}
    BY <1>1, <1>2, <1>5, <1>7, <1>9 DEF TakesWritten, Written
  <2>5. \A i \in 1..cells : /\ i <= written => Cell(r, i) = KernelCell(r, i)
                            /\ i > written /\ Place[r].region.dir # "out" => Cell(r, i) = Whole(mem, r)[i]
    BY <1>1, <1>7, <1>9, <2>1 DEF CellsInv
  <2>6. ASSUME req.call # "poll", NEW i \in 1..written PROVE Whole(m, r)[i] = KernelCell(r, i)
    <3>1. i \in 1..size /\ i \in 1..cells /\ i <= taken /\ i <= written
      BY <2>1, <2>2, <2>3, <2>6
    <3> QED
      BY <1>6, <2>5, <3>1
  <2>7. ASSUME taken <= written \/ Place[r].region.dir # "out", NEW i \in (written + 1)..size
        PROVE  Whole(m, r)[i] = Whole(mem, r)[i]
    <3>1. i \in 1..size /\ i > written
      BY <2>1
    <3>2. CASE i <= taken
      <4>1. i \in 1..cells /\ ~(taken <= written)
        BY <2>2, <3>1, <3>2
      <4> QED
        BY <1>6, <2>5, <2>7, <3>1, <3>2, <4>1
    <3>3. CASE ~(i <= taken)
      BY <1>6, <3>1, <3>3
    <3> QED
      BY <3>2, <3>3
  <2>8. \A i \in 1..Written(r) : req.call # "poll" => Whole(m, r)[i] = KernelCell(r, i)
    BY <1>7, <2>6
  <2>9. taken <= written \/ Place[r].region.dir # "out" =>
          \A i \in Written(r) + 1..Len(Whole(m, r)) : Whole(m, r)[i] = Whole(mem, r)[i]
    BY <1>6, <1>7, <2>7
  <2> QED
    BY <2>4, <2>8, <2>9
<1> QED
  BY <1>8, <1>9

----------------------------------------------------------------------------
(* Collecting what a lying host left.                                      *)

\* A lying host's length is still a number.
LEMMA LiedLength ==
    ASSUME Carried, InBlock, LiedInv, reply.from = "hostile", "len" \in DOMAIN Place
    PROVE  data[Place["len"].off + 1][3] \in Nat
<1>1. Cells(Place["len"]) = 1
  BY LengthCell
<1>2. Cell("len", 1)[3] \in Nat
  BY <1>1 DEF LiedInv
<1> QED
  BY <1>2 DEF Cell

\* A cell of the caller is its own or one of the region staged for the argument.
LEMMA LiedBack ==
    ASSUME Carried, InBlock, LiedInv, reply.from = "hostile", ret \in Nat, NEW res, res = Decode(Item.num, Item.ret, ret),
           ~Attacked(res), NEW m, m = Collected(Item, Place, res), NEW r \in Roles \ {"len"}, NEW i \in 1..Spanned(req, r)
    PROVE  LET start == IF r = "buf2" /\ req.call = "readv" THEN Place["buf"].off + req.n
                        ELSE IF r \in DOMAIN Place THEN Place[r].off ELSE 0
           IN  m[r][i] \in {Mine(req, r, i), <<"host", "block", start + i>>}
<1>1. PICK length : "len" \in DOMAIN Place => length = data[Place["len"].off + 1][3] /\ length \in Nat
  BY LiedLength
<1>2. Restored(m, res, length)
  BY <1>1, CollectedIs DEF Restored
<1>3. mem[r][i] = Mine(req, r, i) /\ Spanned(req, r) \in Nat
  BY UserStorage, SpannedNat DEF Carried
<1>4. \A s \in DOMAIN Place : Taken(s, res, length) \in Nat /\ Taken(s, res, length) <= Cells(Place[s])
  BY <1>1, DecodedCount, TakenFits
<1>5. Item.collect = "scatter" <=> req.call = "readv"
  BY CarriedShape DEF Shape, Collects
<1>6. \A s \in DOMAIN Place : s # "len" =>
         \A j \in 1..Cells(Place[s]) : Cell(s, j) = <<"host", "block", Place[s].off + j>>
  BY DEF LiedInv
<1>7. CASE r = "buf2" /\ Item.collect = "scatter"
  <2>1. "buf" \in DOMAIN Place /\ "buf" \in Roles
    BY <1>7, CarriedShape, Placed DEF Shape, Collects, Counting, Roles
  <2>2. PICK first \in Nat : first = Spanned(req, "buf") /\ first = req.n
    <3>1. "buf" \notin req.null /\ IsRequest(req)
      BY <2>1, Present DEF Carried
    <3>2. ~IsEpoll(req)
      BY <1>5, <1>7 DEF IsEpoll
    <3>3. Spanned(req, "buf") = req.n * 1 /\ req.n \in Nat
      BY <3>1, <3>2, Lengths DEF Spanned, Owned
    <3> QED
      BY <3>3
  <2>3. PICK off \in Nat, cells \in Nat, taken \in Nat :
           off = Place["buf"].off /\ cells = Cells(Place["buf"]) /\ taken = Taken("buf", res, length) /\ taken <= cells
    BY <1>4, <2>1, Lodged
  <2>4. m["buf2"][i] = IF first + i <= taken THEN Cell("buf", first + i) ELSE mem["buf2"][i]
    <3>1. ScatteredBack(m, taken)
      BY <1>2, <1>7, <2>3 DEF Restored
    <3> QED
      BY <1>7, <2>2, <3>1 DEF ScatteredBack
  <2>5. CASE first + i <= taken
    <3>1. PICK j \in 1..cells : j = first + i
      BY <1>3, <2>3, <2>5
    <3>2. Cell("buf", j) = <<"host", "block", off + j>>
      BY <1>6, <2>1, <2>3, <3>1
    <3>3. off + j = (off + req.n) + i
      BY <1>3, <2>2, <3>1
    <3> QED
      BY <1>5, <1>7, <2>3, <2>4, <2>5, <3>1, <3>2, <3>3
  <2>6. CASE ~(first + i <= taken)
    BY <1>3, <1>7, <2>4, <2>6
  <2> QED
    BY <2>5, <2>6
<1>8. CASE ~(r = "buf2" /\ Item.collect = "scatter")
  <2>1. PICK taken : taken = Taken(r, res, length)
    OBVIOUS
  <2>2. m[r][i] = IF i <= taken THEN Cell(r, i) ELSE mem[r][i]
    <3>1. Back(m, r, taken)
      BY <1>2, <1>8, <2>1 DEF Restored
    <3> QED
      BY <3>1 DEF Back
  <2>3. CASE r \notin DOMAIN Place
    <3>1. taken = 0
      BY <2>1, <2>3 DEF Taken
    <3>2. ~(i <= taken)
      BY <1>3, <3>1
    <3> QED
      BY <1>3, <2>2, <3>2
  <2>4. CASE r \in DOMAIN Place
    <3>1. PICK cells \in Nat : cells = Cells(Place[r]) /\ taken \in Nat /\ taken <= cells
      BY <1>4, <2>1, <2>4, Lodged
    <3>2. CASE i <= taken
      <4>1. i \in 1..cells
        BY <1>3, <3>1, <3>2
      <4>2. Cell(r, i) = <<"host", "block", Place[r].off + i>>
        BY <1>6, <2>4, <3>1, <4>1
      <4> QED
        BY <1>5, <1>8, <2>2, <2>4, <3>2, <4>2
    <3>3. CASE ~(i <= taken)
      BY <1>3, <2>2, <3>3
    <3> QED
      BY <3>2, <3>3
  <2> QED
    BY <2>3, <2>4
<1> QED
  BY <1>7, <1>8

\* A count that passes the check is one the caller asked for.
LEMMA CountBounded ==
    ASSUME Carried, ret \in Nat, NEW res, res = Decode(Item.num, Item.ret, ret), ~Attacked(res),
           res.t = "ok", Item.collect \in Counting
    PROVE  res.v <= Len(Whole(UserMem(req), "buf"))
<1>1. Handle(req).option /\ "buf" \in DOMAIN Place
  BY CarriedShape, Placed DEF Shape, Collects, Roles
<1>2. PICK v \in Nat, n \in Nat, cells \in Nat, size \in Nat :
         v = res.v /\ n = Place["buf"].n /\ cells = Cells(Place["buf"]) /\ size = Len(Whole(mem, "buf"))
         /\ n <= cells /\ cells <= size
  BY <1>1, DecodedCount, RoomOfArgument
<1>3. ~(v > n)
  BY <1>1, <1>2 DEF Attacked, Claims, Counting
<1>4. Whole(mem, "buf") = Whole(UserMem(req), "buf")
  BY DEF Carried
<1> QED
  BY <1>2, <1>3, <1>4

----------------------------------------------------------------------------
(* The shim collects, or gives up.                                         *)

\* Every check passes on an honest answer; a lie ends the keep or stays in its regions.
LEMMA CollectStep == ASSUME ProxyInv, CollectReply PROVE ProxyInv'
<1>1. /\ pc = "guest" /\ InBlock /\ TypeOK /\ StagedInv /\ CellsInv /\ LiedInv /\ ReplyInv
      /\ UNCHANGED <<backend, cap, req, data, ret, kcall, reply, actions, session>>
  BY DEF CollectReply, ProxyInv, InBlock
<1>2. Carried
  BY <1>1, CarriedIs
<1>3. PICK res : res = Decode(Item.num, Item.ret, ret)
  OBVIOUS
<1>4. Item' = Item /\ Place' = Place
  BY <1>1 DEF Item, Place
<1>5. \/ reply = Lied /\ ret \in Nat
      \/ ret = reply.ret /\ Answers(reply, res)
  BY <1>1, <1>3, Constants DEF ReplyInv
<1>6. Lied.from = "hostile"
  BY DEF Lied
<1>7. CASE Attacked(res) /\ pc' = "attacked"
  <2>1. TypeOK'
    BY <1>1, <1>7 DEF TypeOK, Over
  <2>2. StagedInv'
    BY <1>7 DEF StagedInv, InBlock, Over
  <2>3. reply'.from = "hostile" \/ req'.sel = <<"MSG_TRUNC">>
    BY <1>1, <1>5, <1>6, <1>7 DEF Answers
  <2>4. Promises'
    BY <1>7, <2>3 DEF Promises, MutatedDataReachesCaller, StorageProtected, NothingElseChanges,
         CallerProtected, ResultFaithful, ShimSurvives, FromKernel
  <2> QED
    BY <1>7, <2>1, <2>2, <2>4, Outside, Promised
<1>8. CASE ~Attacked(res) /\ mem' = Collected(Item, Place, res) /\ Finish(res)
  <2>1. pc' = "done" /\ result' = res
    BY <1>8 DEF Finish
  <2>2. PICK m : m = Collected(Item, Place, res) /\ mem' = m
    BY <1>8
  <2>3. TypeOK' /\ StagedInv'
    BY <1>1, <2>1 DEF TypeOK, Live, StagedInv, InBlock
  <2>4. mem = UserMem(req) /\ UserMem(req)' = UserMem(req)
    BY <1>1, <1>2 DEF Carried, UserMem, Spanned, Owned, Mine, IsEpoll
  <2>5. \A r : /\ Whole(mem, r)' = Whole(m, r) /\ Whole(UserMem(req), r)' = Whole(mem, r)
               /\ Written(r)' = Written(r)
    BY <1>1, <2>2, <2>4 DEF Whole, Vectored, Written
  <2>6. Arguments' = Arguments /\ \A r, i : KernelCell(r, i)' = KernelCell(r, i)
    BY <1>1 DEF Arguments, Vectored, KernelCell
  <2>7. ASSUME reply.from = "kernel" PROVE ret = reply.ret /\ Answers(reply, res)
    BY <1>5, <1>6, <2>7
  <2>8. MutatedDataReachesCaller'
    <3>1. ASSUME reply.from = "kernel", req.call # "poll", NEW r \in Arguments, NEW i \in 1..Written(r)
          PROVE  Whole(m, r)[i] = KernelCell(r, i)
      BY <1>1, <1>2, <1>3, <1>8, <2>2, <2>7, <3>1, HonestBack
    <3> QED
      BY <1>1, <2>5, <2>6, <3>1 DEF MutatedDataReachesCaller, FromKernel, Reaches
  <2>9. NothingElseChanges'
    <3>1. ASSUME reply.from = "kernel", NEW r \in Arguments
          PROVE  \/ \A i \in Written(r) + 1..Len(Whole(m, r)) : Whole(m, r)[i] = Whole(mem, r)[i]
                 \/ r = "addr" /\ res.t = "err" /\ req.call \in {"accept", "accept4", "getsockname"}
                 \/ r = "buf" /\ req.call \in {"epoll_wait", "epoll_pwait"}
      BY <1>1, <1>2, <1>3, <1>8, <2>2, <2>7, <3>1, HonestBack
    <3> QED
      BY <1>1, <2>1, <2>5, <2>6, <3>1 DEF NothingElseChanges, FromKernel, Untouched
  <2>10. \A r : Spanned(req, r)' = Spanned(req, r) /\ \A i : Mine(req, r, i)' = Mine(req, r, i)
    BY <1>1 DEF Spanned, Owned, Mine, IsEpoll
  <2>11. \A r \in Roles : DOMAIN m[r] = 1..Spanned(req, r)
    <3>1. PICK length : "len" \in DOMAIN Place => length = data[Place["len"].off + 1][3]
      OBVIOUS
    <3>2. Restored(m, res, length)
      BY <1>2, <2>2, <3>1, CollectedIs DEF Restored
    <3> QED
      BY <1>2, <3>2, RestoredStorage
  <2>12. ret \in Nat
    BY <1>5 DEF Answers
  <2>13. ASSUME reply.from = "hostile", NEW r \in Roles \ {"len"}, NEW i \in 1..Spanned(req, r)
         PROVE  LET start == IF r = "buf2" /\ req.call = "readv" THEN Place["buf"].off + req.n
                             ELSE IF r \in DOMAIN Place THEN Place[r].off ELSE 0
                IN  m[r][i] \in {Mine(req, r, i), <<"host", "block", start + i>>}
    BY <1>1, <1>2, <1>3, <1>8, <2>2, <2>12, <2>13, LiedBack
  <2>14. ASSUME res.t = "ok", Item.collect \in {"prefix", "scatter", "prefix_sockaddr", "count"}
         PROVE  res.v <= Len(Whole(mem, "buf"))
    BY <1>2, <1>3, <1>8, <2>4, <2>12, <2>14, CountBounded DEF Counting
  <2>15. CallerProtected'
    BY <1>1, <1>4, <2>1, <2>2, <2>5, <2>10, <2>11, <2>13, <2>14 DEF CallerProtected
  <2>16. ResultFaithful'
    BY <1>1, <2>1, <2>7 DEF ResultFaithful, FromKernel, Answers, Faithful
  <2>17. ShimSurvives'
    BY <2>1 DEF ShimSurvives
  <2>18. Promises'
    BY <2>8, <2>9, <2>15, <2>16, <2>17 DEF Promises, StorageProtected
  <2> QED
    BY <2>1, <2>3, <2>18, Outside, Promised
<1> QED
  BY <1>3, <1>7, <1>8 DEF CollectReply

----------------------------------------------------------------------------
(* The theorems.                                                           *)

\* The invariant holds at first, and every step keeps it.
LEMMA InitEstablishesInv == ASSUME Init PROVE ProxyInv
<1>1. pc = "idle" /\ reply = NoReply /\ backend \in Backends /\ cap \in Caps /\ actions = FALSE /\ session = FALSE
  BY DEF Init
<1>2. TypeOK
  BY <1>1 DEF TypeOK, Live
<1>3. StagedInv /\ KernelInv /\ CellsInv /\ LiedInv /\ ReplyInv
  BY <1>1 DEF StagedInv, KernelInv, CellsInv, LiedInv, ReplyInv, InBlock
<1>4. MutatedDataReachesCaller /\ StorageProtected /\ ResultFaithful /\ ShimSurvives
  BY <1>1 DEF MutatedDataReachesCaller, StorageProtected, NothingElseChanges, CallerProtected,
       ResultFaithful, ShimSurvives, FromKernel
<1> QED
  BY <1>2, <1>3, <1>4 DEF ProxyInv

LEMMA NextPreservesInv == ASSUME ProxyInv, [Next]_vars PROVE ProxyInv'
<1>1. CASE \E q \in Requests : Submit(q)
  BY <1>1, SubmitStep
<1>2. CASE Return
  BY <1>2, ReturnStep
<1>3. CASE RefuseRequest \/ LeaveToPlatform
  BY <1>3, RefuseStep
<1>4. CASE AnswerStub
  BY <1>4, StubStep
<1>5. CASE RtSigaction
  BY <1>5, RtSigactionStep
<1>6. CASE Sally
  BY <1>6, SallyStep
<1>7. CASE HostExits \/ ServiceFails
  BY <1>7, HostEndsStep
<1>8. CASE HostSkips
  BY <1>8, HostSkipsStep
<1>9. CASE HostCalls
  BY <1>9, HostCallsStep
<1>10. CASE KernelReturns
  BY <1>10, KernelReturnsStep
<1>11. CASE \E w \in HostileWords, length \in 0..MaxAddr : HostileReply(w, length)
  BY <1>11, HostileStep
<1>12. CASE CollectReply
  BY <1>12, CollectStep
<1>13. CASE Stopped \/ UNCHANGED vars
  BY <1>13, StutterStep DEF Stopped
<1> QED
  BY <1>1, <1>2, <1>3, <1>4, <1>5, <1>6, <1>7, <1>8, <1>9, <1>10, <1>11, <1>12, <1>13 DEF Next

(* The inductive invariant of a proxied call: the item mirrors the request, the
   cells of its regions are the kernel's or the caller's, and every answer reads
   back as what was meant. *)
THEOREM InvariantHolds == Spec => []ProxyInv
<1>1. Init => ProxyInv
  BY InitEstablishesInv
<1>2. ProxyInv /\ [Next]_vars => ProxyInv'
  BY NextPreservesInv
<1> QED
  BY <1>1, <1>2, PTL DEF Spec

(* The states of a call (Handler::execute and the host's loop) and what they hold. *)
THEOREM TypeCorrect == Spec => []TypeOK
<1>1. ProxyInv => TypeOK
  BY DEF ProxyInv
<1> QED
  BY <1>1, InvariantHolds, PTL

(* For every request, block size and backend the kernel sees the workload's
   call: guest/call stages it and host/ rebuilds it without changing a register,
   a pointer or a byte. *)
THEOREM CallReachesKernel == Spec => []KernelSeesWorkloadCall
<1>1. ProxyInv => KernelSeesWorkloadCall
  <2> SUFFICES ASSUME ProxyInv PROVE KernelSeesWorkloadCall
    OBVIOUS
  <2>1. CASE pc = "kernel"
    <3>1. AtKernel
      BY <2>1 DEF AtKernel, ProxyInv
    <3> QED
      BY <3>1, KernelSees
  <2>2. CASE pc # "kernel"
    BY <2>2 DEF KernelSeesWorkloadCall
  <2> QED
    BY <2>1, <2>2
<1> QED
  BY <1>1, InvariantHolds, PTL

(* Whatever the kernel writes reaches the workload, however Call::collect cuts,
   scatters or bounds it (poll excepted). *)
THEOREM DataReachesCaller == Spec => []MutatedDataReachesCaller
<1>1. ProxyInv => MutatedDataReachesCaller
  BY DEF ProxyInv
<1> QED
  BY <1>1, InvariantHolds, PTL

(* Nothing else of the workload's storage changes, not even when the host lies
   about what it wrote and how much. *)
THEOREM CallersStorageSafe == Spec => []StorageProtected
<1>1. ProxyInv => StorageProtected
  BY DEF ProxyInv
<1> QED
  BY <1>1, InvariantHolds, PTL

(* The workload is told what the kernel answered: the codecs of the results lose
   no error and change no value, dup and gdb_peek excepted. *)
THEOREM ResultIsTheKernels == Spec => []ResultFaithful
<1>1. ProxyInv => ResultFaithful
  BY DEF ProxyInv
<1> QED
  BY <1>1, InvariantHolds, PTL

(* The shim gives up only on a lie (or MSG_TRUNC), the host never faults on an
   item of the shim, and only a negative signal number makes the shim panic. *)
THEOREM ShimEndures == Spec => []ShimSurvives
<1>1. ProxyInv => ShimSurvives
  BY DEF ProxyInv
<1> QED
  BY <1>1, InvariantHolds, PTL
=============================================================================
