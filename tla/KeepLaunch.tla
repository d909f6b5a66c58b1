----------------------------- MODULE KeepLaunch -----------------------------
(***************************************************************************)
(* Building a keep on the host: the backend is picked, the signature file  *)
(* read, shim and executable are parsed, checked and cut into page-aligned *)
(* segments (src/src/backend/binary.rs), and the backend's builder hands   *)
(* them to KVM, to the SEV firmware or to the SGX driver (kvm/, sev/ and   *)
(* sgx/builder.rs), which measure what they are given.  `enarx sign` runs  *)
(* the same loader over a hasher in place of the builder (sev/ and         *)
(* sgx/hasher.rs); a launch with its signature starts only when both       *)
(* computed the same measurement.                                          *)
(*                                                                         *)
(* Addresses are bytes.  A page's contents are a name: which binary, which *)
(* PT_LOAD header, which page of it.  A digest is the sequence of what was *)
(* hashed, so two digests are equal when the same pages were measured in   *)
(* the same order.                                                         *)
(***************************************************************************)
EXTENDS Integers, Sequences, FiniteSets, SequencesExt

CONSTANTS Page,        \* Page::SIZE
          Align,       \* align_of::<usize>()
          Retries,     \* SEV_RETRIES
          CpuidMax,    \* COUNT_MAX entries of a CPUID page
          Jobs,        \* what the command is asked to run, and where
          BalloonAt,   \* guest addresses the running shim asks memory for
          MaxBalloons  \* bound on the memory requests of a running keep

ASSUME LaunchAssumption ==
    /\ Page \in Nat \ {0} /\ Align \in Nat \ {0} /\ Page % Align = 0
    /\ Retries \in Nat /\ MaxBalloons \in Nat /\ BalloonAt \subseteq Nat

VARIABLES job,      \* the command's inputs; they do not change
          pc,       \* where the launch is
          tech,     \* the backend picked
          why,      \* why the launch failed
          retry,    \* retries left: of an attempt, and of opening /dev/sev in it
          segs,     \* the segments to load: the shim's, then the executable's
          dev,      \* what the kernel and the firmware hold for this keep
          bld,      \* the builder, then the Keep made from it
          short,    \* SGX_IOC_ENCLAVE_ADD_PAGES has added less than it was given
          balloons

launch == <<job, pc, tech, why, retry, segs, dev, bld, short, balloons>>

BACKENDS == <<"sgx", "sev", "kvm", "nil">>
Empty == <<>>

-----------------------------------------------------------------------------
(* Binaries and segments *)

\* Binary::new: identification, machine and version, and the entry point.
BinaryOk(b) ==
    /\ b.header
    /\ \E k \in DOMAIN b.loads : b.loads[k].vaddr <= b.entry
                                 /\ b.entry < b.loads[k].vaddr + b.loads[k].memsz

LoadEnds(b) == {b.loads[k].vaddr + b.loads[k].memsz : k \in DOMAIN b.loads}
LoadStarts(b) == {b.loads[k].vaddr : k \in DOMAIN b.loads}

\* The executable starts at 0 and ends inside the slot the shim leaves for it.
FitsSlot(shim, exec) ==
    /\ \A a \in LoadStarts(exec) : a >= 0
    /\ 0 \in LoadStarts(exec)
    /\ \A z \in LoadEnds(exec) : z <= shim.slot[2] - shim.slot[1]

LoadError(shim, exec) ==
    CASE ~BinaryOk(shim) \/ ~BinaryOk(exec) -> "header"
      [] shim.slot = Empty -> "slot"
      [] ~FitsSlot(shim, exec) -> "fit"
      [] ~shim.requires -> "version"
      [] OTHER -> "none"

\* A slip to catch: the end is rounded down.
SegmentsFloored(b, relocate) ==
    [k \in DOMAIN b.loads |->
        LET ph == b.loads[k] IN
        [of |-> <<b.name, k>>, flags |-> ph.flags,
         start |-> ((ph.vaddr + relocate) \div Page) * Page,
         end |-> ((ph.vaddr + ph.memsz + relocate) \div Page) * Page]]

\* Binary::segments: whole pages, relocated; it asserts that the relocation is
\* one of whole pages.
Relocates(shim) == shim.slot[1] % Page = 0
Segments(b, relocate) ==
    [k \in DOMAIN b.loads |->
        LET ph == b.loads[k] IN
        [of |-> <<b.name, k>>, flags |-> ph.flags,
         start |-> ((ph.vaddr + relocate) \div Page) * Page,
         end |-> ((ph.vaddr + ph.memsz + relocate + Page - 1) \div Page) * Page]]

AllSegments(shim, exec) == Segments(shim, 0) \o Segments(exec, shim.slot[1])

\* sort_unstable_by_key: segments with one start may end up in either order.
Firsts(s, left) == {i \in left : \A k \in left : s[i].start <= s[k].start}
Sorted(s) ==
    LET orders[n \in 0..Len(s)] ==
            IF n = 0 THEN {Empty}
            ELSE UNION {{Append(p, i) : i \in Firsts(s, DOMAIN s \ ToSet(p))} : p \in orders[n - 1]}
    IN orders[Len(s)]
OverlapIn(s, p) == \E i \in 1..(Len(s) - 1) : s[p[i]].end > s[p[i + 1]].start

PageAt(s, i) == s.start + (i - 1) * Page
PagesOf(s) == (s.end - s.start) \div Page
Content(s, i) == <<s.of, i>>

-----------------------------------------------------------------------------
(* What is measured *)

\* What the SEV firmware adds to its launch digest for a page it is given, and for
\* the VMSA of a vCPU: the host fills the CPUID page and the firmware the secrets.
FirmwareInfo(type, gpa, contents) ==
    [type |-> type, gpa |-> gpa, contents |-> IF type = "normal" THEN contents ELSE Empty]
VmsaInfo == [type |-> "vmsa", gpa |-> -1, contents |-> <<"vmsa">>]

SevType(s) == IF "cpuid" \in s.flags THEN "cpuid"
              ELSE IF "secrets" \in s.flags THEN "secrets" ELSE "normal"
FirmwareLog(s) == [i \in 1..PagesOf(s) |-> FirmwareInfo(SevType(s), PageAt(s, i), Content(s, i))]

\* sev Hasher::hash: a page's contents are hashed only when it is a normal one.
Update(type, gpa, contents) == [type |-> type, gpa |-> gpa, contents |-> contents]
SevHash(s) ==
    IF SevType(s) = "normal" THEN [i \in 1..PagesOf(s) |-> Update("normal", PageAt(s, i), Content(s, i))]
    ELSE IF PagesOf(s) = 0 THEN Empty ELSE <<Update(SevType(s), s.start, Empty)>>

\* sgx Config::flags; the processor's EADD is measured always, its EEXTEND when asked
\* for, and Hasher::load of the sgx crate follows it.
SgxClass(s) == IF "tcs" \in s.flags THEN "tcs" ELSE "regular"
SgxHash(s) == [i \in 1..PagesOf(s) |->
    [type |-> SgxClass(s), gpa |-> PageAt(s, i),
     contents |-> IF "unmeasured" \in s.flags THEN Empty ELSE Content(s, i)]]

\* Hasher::update_finish, with SEV_SNP_VMSA_SHA384 for the VMSA's contents.
UpdateFinish == Update("vmsa", -1, <<"vmsa">>)

\* Backend::hash: Loader::load over a hasher.
Hash(t, shim, exec) ==
    LET all == AllSegments(shim, exec) IN
    IF t = "sev" THEN FlattenSeq([k \in DOMAIN all |-> SevHash(all[k])]) \o <<UpdateFinish>>
                 ELSE FlattenSeq([k \in DOMAIN all |-> SgxHash(all[k])])

Hashes(shim, exec) ==
    /\ LoadError(shim, exec) = "none" /\ Relocates(shim)
    /\ \A p \in Sorted(AllSegments(shim, exec)) : ~OverlapIn(AllSegments(shim, exec), p)

\* cli/sign.rs: a signature per backend that was built in; one that cannot be
\* hashed ends the command without a signature file.
Signs(shims, exec, built) == \A t \in built : Hashes(shims[t], exec)
Sign(shims, exec, built) ==
    [current |-> TRUE, exec |-> exec,
     sgx |-> IF "sgx" \in built THEN Hash("sgx", shims["sgx"], exec) ELSE Empty,
     sev |-> IF "sev" \in built THEN Hash("sev", shims["sev"], exec) ELSE Empty]

(* The files a command is given.  An executable carries none of the shims'   *)
(* own segment flags and no shim's name; a signature file is what sign made  *)
(* with these shims, for the backends it was built with, and a name stands   *)
(* for one executable.  A block is a whole number of words, as BLOCK_SIZE is. *)
IsBinary(b) ==
    /\ b.name \in STRING /\ b.entry \in Nat /\ b.block \in Nat /\ b.slot \in {Empty} \cup (Nat \X Nat)
    /\ b.loads \in Seq([vaddr : Nat, memsz : Nat, flags : SUBSET STRING])
IsExecutable(b, shims) ==
    /\ IsBinary(b)
    /\ \A t \in DOMAIN shims : shims[t].name # b.name
    /\ \A k \in DOMAIN b.loads : "unmeasured" \notin b.loads[k].flags
SignedFor(g, j) ==
    /\ IsExecutable(g.exec, j.shim) /\ (g.exec.name = j.exec.name => g.exec = j.exec)
    /\ \A t \in {"sgx", "sev"} : g[t] \in {Empty, Hash(t, j.shim[t], g.exec)}
ASSUME JobsAssumption ==
    \A j \in Jobs :
        /\ j.backend \in {"any"} \cup ToSet(BACKENDS) /\ "nil" \in j.have
        /\ DOMAIN j.shim = {"kvm", "sev", "sgx"}
        /\ \A t \in DOMAIN j.shim : IsBinary(j.shim[t]) /\ j.shim[t].block % Align = 0
        /\ IsExecutable(j.exec, j.shim)
        /\ j.signatures = Empty \/ SignedFor(j.signatures[1], j)

Shim == job.shim[tech]

-----------------------------------------------------------------------------
NoDev == [state |-> "none", slots |-> Empty, mem |-> Empty, log |-> Empty, vcpus |-> 0]
NoBuilder == [regions |-> Empty, sallyports |-> {}, hash |-> Empty, tcs |-> {}, next |-> 1]

Untried == [outer |-> Retries, inner |-> Retries]

Init ==
    /\ job \in Jobs
    /\ pc = "pick" /\ tech = "none" /\ why = "none"
    /\ retry = Untried
    /\ segs = Empty /\ dev = NoDev /\ bld = NoBuilder /\ short = FALSE /\ balloons = 0

\* An error drops the builder, and with it every descriptor it holds.
Fail(reason) ==
    /\ pc' = "failed" /\ why' = reason /\ dev' = NoDev /\ bld' = NoBuilder /\ retry' = Untried
    /\ UNCHANGED <<job, tech, segs, short, balloons>>

Goes(to) == pc' = to /\ UNCHANGED <<job, tech, why, segs, short, balloons>>

-----------------------------------------------------------------------------
(* BackendOptions::pick and Signatures::load *)

\* Without a name the first backend that is there, configured or not.
FirstHave == CHOOSE i \in DOMAIN BACKENDS :
                 /\ BACKENDS[i] \in job.have
                 /\ \A k \in 1..(i - 1) : BACKENDS[k] \notin job.have

Pick ==
    /\ pc = "pick"
    /\ LET picked == IF job.backend = "any" THEN BACKENDS[FirstHave] ELSE job.backend IN
       IF job.backend # "any" /\ (picked \notin job.have \/ picked \notin job.configured)
       THEN Fail("backend")
       ELSE /\ tech' = picked /\ pc' = "signatures"
            /\ UNCHANGED <<job, why, retry, segs, dev, bld, short, balloons>>

LoadSignatures ==
    /\ pc = "signatures"
    /\ IF job.signatures # Empty /\ ~job.signatures[1].current THEN Fail("signatures")
       ELSE /\ Goes(IF tech = "nil" THEN "running" ELSE "load")
            /\ UNCHANGED <<retry, dev, bld>>

\* The first half of Loader::load, up to and with the backend's Config.
SallyportHeaders(b) == {k \in DOMAIN b.loads : "sallyport" \in b.loads[k].flags}

Load ==
    /\ pc = "load"
    /\ IF LoadError(Shim, job.exec) # "none" THEN Fail(LoadError(Shim, job.exec))
       ELSE IF ~Shim.notes THEN Fail("config")
       ELSE IF tech # "sgx" /\ Cardinality(SallyportHeaders(Shim)) # 1 THEN Fail("config")
       ELSE Goes(IF tech = "sgx" THEN "ecreate" ELSE "kvm") /\ UNCHANGED <<retry, dev, bld>>

-----------------------------------------------------------------------------
(* The builders *)

Vm == [NoDev EXCEPT !.state = "vm"]

\* A slip to catch: an attempt that failed is not counted.
AgainUncounted ==
    /\ Goes("kvm") /\ dev' = NoDev
    /\ retry' = Untried /\ UNCHANGED bld

\* sev builder's outer retry: everything is opened again.
Again ==
    IF retry.outer = 0 THEN Fail("retries")
    ELSE /\ Goes("kvm") /\ dev' = NoDev
         /\ retry' = [outer |-> retry.outer - 1, inner |-> Retries]
         /\ UNCHANGED bld

OpenKvm ==
    /\ pc = "kvm"
    /\ \/ /\ dev' = Vm /\ Goes(IF tech = "sev" THEN "devsev" ELSE "segments")
          /\ UNCHANGED <<retry, bld>>
       \/ tech = "kvm" /\ Fail("kvm")
       \/ tech = "sev" /\ Again

\* The inner retry, around Firmware::open alone.
OpenSev ==
    /\ pc = "devsev"
    /\ \/ Goes("init") /\ UNCHANGED <<retry, dev, bld>>
       \/ /\ retry.inner > 0
          /\ Goes("devsev") /\ retry' = [retry EXCEPT !.inner = @ - 1] /\ UNCHANGED <<dev, bld>>
       \/ retry.inner = 0 /\ Again

\* Launcher::new, SNP_INIT.
SnpInit ==
    /\ pc = "init"
    /\ \/ Goes("start") /\ dev' = [dev EXCEPT !.state = "snp"] /\ UNCHANGED <<retry, bld>>
       \/ Again

\* Launcher::start is outside the retry, whose counters are gone.
SnpStart ==
    /\ pc = "start"
    /\ \/ /\ Goes("segments") /\ dev' = [dev EXCEPT !.state = "started"]
          /\ retry' = Untried /\ UNCHANGED bld
       \/ Fail("start")

\* sgx Builder::try_from: reserve, align, open the device, ECREATE.
Ecreate ==
    /\ pc = "ecreate"
    /\ \/ Goes("segments") /\ dev' = [dev EXCEPT !.state = "created"] /\ UNCHANGED <<retry, bld>>
       \/ Fail("create")

\* The assertion and the overlap check come after the builder has been made.
CheckSegments ==
    /\ pc = "segments"
    /\ LET all == AllSegments(Shim, job.exec) IN
       \E p \in Sorted(all) :
          IF ~Relocates(Shim) THEN Fail("assert")
          ELSE IF OverlapIn(all, p) THEN Fail("overlap")
          ELSE /\ segs' = all /\ pc' = "map"
               /\ UNCHANGED <<job, tech, why, retry, dev, bld, short, balloons>>

-----------------------------------------------------------------------------
(* Mapper::map *)

Seg == segs[bld.next]

\* kvm_builder_map: the blocks that fit, each start rounded up to a word.
AlignUp(a) == ((a + Align - 1) \div Align) * Align
BlockStartsAll(size, block) ==   \* A slip to catch: the last block need not fit.
    {AlignUp(k * block) : k \in {n \in 0..size : n * block < size}}
BlockStarts(size, block) ==
    {AlignUp(k * block) : k \in {n \in 0..size : n * block < size
                                                 /\ AlignUp(n * block) + block <= size}}
Blocks(s) == IF "sallyport" \in s.flags
             THEN {s.start + a : a \in BlockStarts(s.end - s.start, Shim.block)} ELSE {}

Region(s) == [gpa |-> s.start, size |-> s.end - s.start, backed |-> TRUE]
Clash(r, q) == r.gpa < q.gpa + q.size /\ q.gpa < r.gpa + r.size

\* KVM_SET_USER_MEMORY_REGION refuses a region that meets another slot's.
SetRegion(slots, n, r) == IF n <= Len(slots) THEN [slots EXCEPT ![n] = r] ELSE Append(slots, r)
KvmTakes(slots, n, r) == \A k \in DOMAIN slots : k = n \/ ~Clash(slots[k], r)

Loaded(s, n, type) == [i \in 1..n |-> [at |-> PageAt(s, i), type |-> type, contents |-> Content(s, i)]]

\* "Ignore regions with no pages."
MapNothing ==
    /\ pc = "map" /\ bld.next <= Len(segs) /\ PagesOf(Seg) = 0
    /\ bld' = [bld EXCEPT !.next = @ + 1]
    /\ Goes("map") /\ UNCHANGED <<retry, dev>>

\* The builder keeps the region; its slot is the number of regions before it.
Mapped(s) == [bld EXCEPT !.next = @ + 1, !.regions = Append(@, Region(s)),
                         !.sallyports = @ \cup Blocks(s)]

MapKvm ==
    /\ pc = "map" /\ tech = "kvm" /\ bld.next <= Len(segs) /\ PagesOf(Seg) > 0
    /\ \/ /\ KvmTakes(dev.slots, Len(bld.regions) + 1, Region(Seg))
          /\ dev' = [dev EXCEPT !.slots = SetRegion(@, Len(bld.regions) + 1, Region(Seg)),
                                !.mem = @ \o Loaded(Seg, PagesOf(Seg), "ram")]
          /\ bld' = Mapped(Seg) /\ Goes("map") /\ UNCHANGED retry
       \/ Fail("map")

\* CpuidPage::import_from_kvm: up to the terminator, functions of the two ranges.
CpuidListed(entries) ==
    {i \in DOMAIN entries : /\ entries[i] = "listed"
                            /\ \A k \in 1..i : entries[k] # "end"
                            /\ ~\E k \in 1..i, h \in 1..i : h < k /\ entries[k] = "zero" /\ entries[h] = "listed"}
CpuidFits == Cardinality(CpuidListed(job.cpuids)) <= CpuidMax

\* Launcher::update_data, tried twice for the CPUID page: the firmware encrypts and measures the pages.
SevUpdated(s) ==
    [dev EXCEPT !.slots = SetRegion(@, Len(bld.regions) + 1, Region(s)),
                !.mem = @ \o Loaded(s, PagesOf(s), SevType(s)),
                !.log = @ \o FirmwareLog(s)]

MapSev ==
    /\ pc = "map" /\ tech = "sev" /\ bld.next <= Len(segs) /\ PagesOf(Seg) > 0
    /\ IF SevType(Seg) # "normal" /\ PagesOf(Seg) # 1 THEN Fail("assert")
       ELSE IF SevType(Seg) = "cpuid" /\ ~CpuidFits THEN Fail("cpuid")
       ELSE \/ /\ KvmTakes(dev.slots, Len(bld.regions) + 1, Region(Seg))
               /\ dev' = SevUpdated(Seg)
               /\ bld' = Mapped(Seg) /\ Goes("map") /\ UNCHANGED retry
            \/ Fail("map")

\* ENCLAVE_ADD_PAGES: a signal may stop it early, with success; count is not read.
AddSome(n) ==
    /\ dev' = [dev EXCEPT !.mem = @ \o Loaded(Seg, n, SgxClass(Seg)),
                          !.log = @ \o SubSeq(SgxHash(Seg), 1, n)]
    /\ short' = (short \/ n < PagesOf(Seg))
    /\ bld' = [bld EXCEPT !.next = @ + 1, !.hash = @ \o SgxHash(Seg),
                 !.tcs = IF SgxClass(Seg) = "tcs"
                         THEN @ \cup {PageAt(Seg, i) : i \in 1..PagesOf(Seg)} ELSE @]
    /\ UNCHANGED <<job, pc, tech, why, retry, segs, balloons>>

MapSgx ==
    /\ pc = "map" /\ tech = "sgx" /\ bld.next <= Len(segs) /\ PagesOf(Seg) > 0
    /\ (\E n \in 1..PagesOf(Seg) : AddSome(n)) \/ Fail("map")

-----------------------------------------------------------------------------
(* Finishing *)

Done == pc = "map" /\ bld.next > Len(segs)
Running == Goes("running") /\ UNCHANGED <<retry, bld>>

\* kvm_try_from_builder: a keep without a block could never be spoken to.
FinishKvm ==
    /\ Done /\ tech = "kvm"
    /\ IF bld.sallyports = {} THEN Fail("sallyports")
       ELSE \/ Running /\ dev' = [dev EXCEPT !.vcpus = 1, !.state = "running"]
            \/ Fail("vcpu")

\* A slip to catch: the launch is finished before the vCPU is made.
SevMadeLate == dev

\* The vCPU is made first: SNP_LAUNCH_FINISH measures the VMSA of each one.
SevMade == [dev EXCEPT !.vcpus = 1]
SevDigest(d) == d.log \o [i \in 1..d.vcpus |-> VmsaInfo]

FinishSev ==
    /\ Done /\ tech = "sev"
    /\ IF bld.sallyports = {} THEN Fail("sallyports")
       ELSE IF job.signatures # Empty /\ job.signatures[1].sev = Empty THEN Fail("blob")
       ELSE IF job.signatures # Empty /\ job.signatures[1].sev # SevDigest(SevMade) THEN Fail("digest")
       ELSE \/ Running /\ dev' = [SevMade EXCEPT !.state = "running", !.log = SevDigest(SevMade)]
            \/ Fail("finish")

\* The file's signature, or one over what the builder hashed itself; EINIT
\* compares it with what the processor measured.
FinishSgx ==
    /\ Done /\ tech = "sgx"
    /\ IF job.signatures # Empty /\ job.signatures[1].sgx = Empty THEN Fail("blob")
       ELSE LET signed == IF job.signatures # Empty THEN job.signatures[1].sgx ELSE bld.hash IN
            IF signed # dev.log THEN Fail("digest")
            ELSE \/ Running /\ dev' = [dev EXCEPT !.state = "running"]
                 \/ Fail("finish")

-----------------------------------------------------------------------------
(* Keep::map, for a running shim's BalloonMemory *)

\* A failed P::map leaves KVM with the slot and unmaps the memory behind it; the
\* next request takes the slot again, which KVM accepts only as the same pages moved.
Balloon(to, size) ==
    /\ pc = "running" /\ tech \in {"kvm", "sev"} /\ balloons < MaxBalloons
    /\ balloons' = balloons + 1
    /\ LET slot == Len(bld.regions) + 1
           r == [gpa |-> to, size |-> size, backed |-> TRUE]
           refused == UNCHANGED <<dev, bld>>
           mapped == /\ dev' = [dev EXCEPT !.slots = SetRegion(@, slot, r)]
                     /\ bld' = [bld EXCEPT !.regions = Append(@, r)]
           lost == /\ dev' = [dev EXCEPT !.slots = SetRegion(@, slot, [r EXCEPT !.backed = FALSE])]
                   /\ UNCHANGED bld
           takes == /\ KvmTakes(dev.slots, slot, r)
                    /\ slot <= Len(dev.slots) => dev.slots[slot].size = size IN
       IF takes THEN refused \/ mapped \/ (tech = "sev" /\ lost) ELSE refused
    /\ UNCHANGED <<job, pc, tech, why, retry, segs, short>>

LaunchStep ==
    \/ Pick \/ LoadSignatures \/ Load
    \/ OpenKvm \/ OpenSev \/ SnpInit \/ SnpStart \/ Ecreate
    \/ CheckSegments \/ MapNothing \/ MapKvm \/ MapSev \/ MapSgx
    \/ FinishKvm \/ FinishSev \/ FinishSgx

Next == LaunchStep \/ \E to \in BalloonAt, n \in {1, 2} : Balloon(to, n * Page)

Spec == Init /\ [][Next]_launch /\ WF_launch(LaunchStep)

-----------------------------------------------------------------------------
\* Before a builder has been given anything.
Early == {"pick", "signatures", "load", "kvm", "devsev", "init", "start", "ecreate", "segments"}

\* Pages are named, and so is what is measured.
Names == (STRING \X Nat) \X Nat
Segs == [of : STRING \X Nat, flags : SUBSET STRING, start : Nat, end : Nat]
Regions == [gpa : Nat, size : Nat, backed : BOOLEAN]
Hashed == Names \cup {Empty, <<"vmsa">>}
Types == {"ram", "normal", "cpuid", "secrets", "tcs", "regular"}
Infos == [type : Types \cup {"vmsa"}, gpa : Int, contents : Hashed]
Entries == [at : Nat, type : Types, contents : Names]
Devs == [state : {"none", "vm", "snp", "started", "created", "running"}, slots : Seq(Regions),
         mem : Seq(Entries), log : Seq(Infos), vcpus : {0, 1}]
Builders == [regions : Seq(Regions), sallyports : SUBSET Nat, hash : Seq(Infos),
             tcs : SUBSET Nat, next : Nat]
Reasons == {"backend", "signatures", "header", "slot", "fit", "version", "config", "retries", "kvm",
            "start", "create", "overlap", "map", "assert", "cpuid", "sallyports", "vcpu", "blob",
            "digest", "finish"}

TypeOK ==
    /\ job \in Jobs /\ tech \in {"none"} \cup ToSet(BACKENDS)
    /\ pc \in Early \cup {"map", "running", "failed"} /\ why \in Reasons \cup {"none"}
    /\ retry \in [outer : 0..Retries, inner : 0..Retries]
    /\ segs \in Seq(Segs) /\ dev \in Devs /\ bld \in Builders /\ bld.next \in 1..(Len(segs) + 1)
    /\ short \in BOOLEAN /\ balloons \in 0..MaxBalloons

Relocation(b) == IF b = Shim THEN 0 ELSE Shim.slot[1]

TypeFor(flags) ==
    CASE tech = "kvm" -> "ram"
      [] tech = "sev" -> IF "cpuid" \in flags THEN "cpuid" ELSE IF "secrets" \in flags THEN "secrets" ELSE "normal"
      [] OTHER -> IF "tcs" \in flags THEN "tcs" ELSE "regular"

(* A keep that runs holds, at every byte a PT_LOAD header of the shim or of  *)
(* the executable names, the page of that header, with the type its flags    *)
(* ask for, and holds no page twice: whatever the rounding, the relocation,  *)
(* a stopped ENCLAVE_ADD_PAGES (whose count the builder does not read) and   *)
(* the order of segments do on the way.                                      *)
KeepComplete ==
    pc = "running" /\ tech # "nil" =>
        /\ \A b \in {Shim, job.exec} : \A k \in DOMAIN b.loads :
             LET ph == b.loads[k]
                 first == (ph.vaddr + Relocation(b)) \div Page IN
             \A a \in ph.vaddr..(ph.vaddr + ph.memsz - 1) :
                LET page == (a + Relocation(b)) \div Page IN
                [at |-> page * Page, type |-> TypeFor(ph.flags),
                 contents |-> <<<<b.name, k>>, page - first + 1>>] \in ToSet(dev.mem)
        /\ \A i, j \in DOMAIN dev.mem : dev.mem[i].at = dev.mem[j].at => i = j

(* The firmware and the processor refuse a measurement only for a reason:    *)
(* the signature is of another executable, or pages did not reach the        *)
(* enclave.  What `enarx sign` hashes for the same files, and what the SGX   *)
(* builder hashes on the way, is what the hardware measures.                 *)
SignedKeepsStart ==
    why = "digest" => short \/ (job.signatures # Empty /\ job.signatures[1].exec # job.exec)

(* The ways in and out of a running keep are sound: its sallyport blocks are *)
(* word-aligned, do not meet and lie in the shim's sallyport segment; its    *)
(* threads' TCS pages are pages of the enclave; and each region it keeps is  *)
(* the memory KVM has in that slot, a failed registration and the slot       *)
(* number it leaves behind included.                                         *)
DoorsSound ==
    pc = "running" /\ tech # "nil" =>
        /\ tech = "sgx" => bld.tcs = {m.at : m \in {q \in ToSet(dev.mem) : q.type = "tcs"}}
        /\ tech # "sgx" =>
             /\ bld.sallyports # {}
             /\ \A a \in bld.sallyports :
                  /\ a % Align = 0
                  /\ \A b \in bld.sallyports : a < b => a + Shim.block <= b
                  /\ \E s \in ToSet(segs) : /\ "sallyport" \in s.flags
                                            /\ s.start <= a /\ a + Shim.block <= s.end
             /\ \A n \in DOMAIN bld.regions :
                  bld.regions[n] = dev.slots[n] /\ dev.slots[n].backed

(* Every launch ends, with a keep or with an error: the retries nested in    *)
(* retries around /dev/kvm, /dev/sev and SNP_INIT are bounded.               *)
LaunchEnds == <>(pc \in {"running", "failed"})
-----------------------------------------------------------------------------
(* What holds at every step of a launch *)

\* While and after a builder is given segments.
Building == pc \in {"map", "running"} /\ tech # "nil"

\* The segments the builder has been through, and the pages of one.
Before == 1..(bld.next - 1)
Entry(s, i) == [at |-> PageAt(s, i), type |-> TypeFor(s.flags), contents |-> Content(s, i)]

\* Until the builder runs nothing is left of an attempt that failed.
EarlyInv ==
    /\ pc \in Early => /\ dev.slots = Empty /\ dev.mem = Empty /\ dev.log = Empty
                       /\ bld = NoBuilder /\ short = FALSE
    /\ pc \in Early \ {"pick", "signatures", "load"} => LoadError(Shim, job.exec) = "none"
    /\ pc \notin {"pick", "failed"} => tech # "none"
    /\ pc \notin {"pick", "failed", "signatures", "running"} => tech # "nil"
    /\ why # "none" => pc = "failed"
    /\ short => tech = "sgx"

\* The segments do not meet: the check of neighbours in the sorted list is enough.
Apart(s) == \A i, k \in DOMAIN s : i # k => s[i].end <= s[k].start \/ s[k].end <= s[i].start
SegmentsInv ==
    Building => /\ segs = AllSegments(Shim, job.exec) /\ Apart(segs)
                /\ LoadError(Shim, job.exec) = "none"

\* The pages in the keep are those of the segments before, each of them once.
PagesInv ==
    Building =>
        /\ \A i \in DOMAIN dev.mem :
              \E k \in Before : \E n \in 1..PagesOf(segs[k]) : dev.mem[i] = Entry(segs[k], n)
        /\ ~short => \A k \in Before : \A n \in 1..PagesOf(segs[k]) :
                        \E i \in DOMAIN dev.mem : dev.mem[i] = Entry(segs[k], n)
        /\ \A i, j \in DOMAIN dev.mem : dev.mem[i].at = dev.mem[j].at => i = j

\* What has been measured is what sign hashes for the segments before; an enclave
\* that misses pages has a shorter log, and still the first page of each segment.
MeasureInv ==
    pc = "map" =>
        /\ tech = "sev" => dev.log = FlattenSeq([k \in Before |-> SevHash(segs[k])])
        /\ tech = "sgx" =>
              /\ bld.hash = FlattenSeq([k \in Before |-> SgxHash(segs[k])])
              /\ IF short THEN Len(dev.log) < Len(bld.hash) ELSE dev.log = bld.hash
              /\ \A k \in Before : PagesOf(segs[k]) > 0 =>
                    \E i \in DOMAIN dev.log : dev.log[i] = SgxHash(segs[k])[1]

\* KVM has the builder's regions in their slots, and may have one more.
RegionsInv ==
    Building /\ tech # "sgx" =>
        /\ Len(bld.regions) <= Len(dev.slots)
        /\ \A n \in DOMAIN bld.regions : bld.regions[n] = dev.slots[n] /\ dev.slots[n].backed

\* Blocks are whole blocks from the start of a sallyport segment.
BlocksInv ==
    Building => \A a \in bld.sallyports : \E k \in Before :
        /\ "sallyport" \in segs[k].flags /\ a + Shim.block <= segs[k].end
        /\ \E n \in 0..(segs[k].end - segs[k].start) : a = segs[k].start + n * Shim.block

TcsInv ==
    Building /\ tech = "sgx" /\ ~short =>
        bld.tcs = UNION {{PageAt(segs[k], n) : n \in 1..PagesOf(segs[k])} :
                           k \in {h \in Before : "tcs" \in segs[h].flags}}

RunningInv ==
    pc = "running" /\ tech # "nil" =>
        /\ bld.next = Len(segs) + 1
        /\ IF tech = "sgx" THEN ~short ELSE bld.sallyports # {}

LaunchInv ==
    /\ TypeOK /\ EarlyInv /\ SegmentsInv /\ PagesInv /\ MeasureInv
    /\ RegionsInv /\ BlocksInv /\ TcsInv /\ RunningInv /\ SignedKeepsStart

=============================================================================
