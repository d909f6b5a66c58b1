# Enarx in TLA+

A verification project for [Enarx](../src/README.md): TLA+ modules that model how a
keep is built, how it runs on SGX, KVM and SEV-SNP, and how a workload gets into it;
TLC configurations that check them on small instances; and TLAPS proofs for every
value of the constants. `PROJECT.json` maps every definition to the lines it models.

## 1. The system

A *keep* is a trusted execution environment (an SGX enclave, a KVM or SEV-SNP
virtual machine) in which a *shim* runs a WebAssembly runtime, the workload. The
workload's syscalls trap into the shim. The shim answers some of them itself,
memory above all, and forwards the rest through the *sallyport*: a block of
shared memory holding a list of items, which the host executes in place.

| component | state | operations | talks to |
|---|---|---|---|
| SGX thread (`backend/sgx/thread.rs`, `shim-sgx/src/main.rs`) | host: `how`, `cssa`, block; enclave: SSA frames, which levels have exceptions enabled | `Thread::enter`, `_start`, `main`, `Handler::handle`, `finish` | each other, through EENTER, ERESUME and asynchronous exits |
| sallyport block (`sallyport/src/guest/alloc`, `guest/call`, `item`, `host`) | the two-ended allocator, the block's bytes | `execute` = stage, commit, sally, collect; host: decode, `deref`, run | every guest call; both transports |
| call types (`sallyport/src/guest/handler.rs`, `guest/call/*`, `host/*`) | the item, the caller's buffers, signal actions, the gdb connection | one handler method, one `Alloc` type and one host arm per call | workload, host kernel |
| SGX memory (`shim-sgx/src/heap.rs`, `handler/mod.rs`, `backend/sgx/thread.rs`) | break, maximal break, ledger; the host's mappings; enclave page states | `brk`, `mmap`, `mprotect`, `munmap`, `mremap`; `MmapHost`, `MprotectHost`, `TrimSgxPages`, `MunmapHost` | each syscall is up to four enarxcalls, each of which may fail |
| KVM memory (`shim-kvm/src/allocator.rs`, `hostcall.rs`, `backend/kvm`) | frame heap, page tables, `last_alloc`, break, next mapping; the host's memory and slots | `brk`, `mmap`, `munmap`, `mremap`, `balloon`, `allocate_and_map_memory` | the host's balloon call in the middle of a request |
| KVM vCPU (`shim-kvm/src/hostcall.rs`, `syscall.rs`, `print.rs`, `interrupts.rs`, `main.rs`, `backend/kvm/thread.rs`) | pool of two blocks, two spin locks, live host calls; the host's table of the same blocks | `syscall_rust`, `try_new`, `sally`, drops, `shim_exit`, `panic`; `Thread::enter` | the trigger port; nested calls |
| SNP guest (`shim-kvm/src/snp`, `paging.rs`, `pagetables.rs`) | shim page table, validated and shared pages, GHCB, message pages, sequence number, cached VCEK | `smash`, `set_memory_shared`, `vmgexit`, `guest_req`, `get_key`, `get_report`, `get_attestation` | host, through which every message to the security processor goes |
| launch (`backend/binary.rs`, `backend/kvm`, `backend/sev`, `backend/sgx`, `cli/sign.rs`) | segments, regions, slots, what is measured, retries | pick a backend, parse and check, build, measure, finish, `Keep::map` | kernel, SEV firmware, SGX driver |
| VCEK cache (`backend/sev/snp/vcek.rs`) | certificate file, lock file | `read`, `write` | several processes in one directory |
| hand-over (`exec/mod.rs`) | socket pair, writer thread | `run_package`, `keep_exec` | the loader, through the socket |
| loader (`exec-wasmtime/src/loader`) and configuration (`enarx-config`) | phase, package, descriptor table, environment | request, attest, compile, connect, run | repository, steward, workload |
| TLS streams (`exec-wasmtime/src/loader/compiled/tls.rs`) | rustls connection over a socket | `connect`, `sock_accept`, `read_vectored`, `write_vectored`, `complete_io` | peer |
| command line (`cli`, `drawbridge.rs`) | none of its own | one request each | network |

What is hard in it:

* control crosses between two parties that keep *mirrored* state: the CSSA
  counter of the host and the processor's; the host's table of blocks and the
  shim's; the ledger and the page states of the enclave; the sequence numbers of
  guest and firmware; the hash a signer computes and the one the hardware does;
* a syscall is a sequence of host calls, any of which may fail after the earlier
  ones had their effect;
* shared memory is reused without being cleared, and the host that answers in it
  may lie;
* host calls nest, on a single vCPU with spin locks and two blocks;
* resources are small and run out in the middle: SSA frames, the bytes of a
  block, ledger records, memory slots, frames for page tables, socket buffers;
* the shim treats what it cannot explain as an attack and ends the keep, so an
  honest but failing host must never look like one;
* files, a repository and a certificate cache change between two looks at them.

The hazards, each at its line and with the properties that would catch it, are in
`PROJECT.json`.

## 2. Modules

| module | models | composes |
|---|---|---|
| `HostCall` | abstract: one request, handed over, executed exactly once, returned; or the keep stops | – |
| `SgxThread` | one SGX thread: host loop, processor, shim entry and handlers | implements `HostCall` |
| `SallyportBlock` | `Handler::execute` against the host's decoder, byte offsets and alignment included | implements `HostCall` |
| `SallyportItem` | the words of an item and how results are encoded in them | – |
| `SallyportGuest` | what each call stages, passes and collects | `SallyportItem` |
| `SallyportHandler` | what the shim validates, refuses and answers itself | `SallyportGuest` |
| `SallyportHost` | how the host turns an item into a kernel, Enarx or gdb call | `SallyportGuest` |
| `SallyportProxy` | one call after another from end to end, on three backends | `SallyportHandler`, `SallyportHost` |
| `SgxHeap` | memory syscalls of the SGX shim and the host side of each | – |
| `KvmMemory` | allocator and memory syscalls of the KVM shim, with ballooning | – |
| `KvmThread` | one vCPU: blocks, locks, nested calls, ways out; `Thread::enter` | implements `HostCall` |
| `ShimPaging` | the shim's own page table: splitting leaves, clearing the C-bit | – |
| `SnpReport` | the ASN.1 encoding of report and VCEK, and a decoder to check it against | – |
| `SnpGuest` | start-up under SNP, shared pages, the GHCB, guest messages, attestation | `ShimPaging`, `SnpReport` |
| `KeepLaunch` | from two ELF files and a signature to a running keep, on four backends | – |
| `VcekCache` | readers and writers of the certificate cache, kills included | – |
| `HostLaunch` | a launch, then its keep beside updates of the cache | `KeepLaunch`, `VcekCache` |
| `WorkloadLoader` | the command, its writer thread and the loader's phases | – |
| `TlsStream` | a TLS stream, its calls step by step, and the peer | – |
| `Workload` | the loader opens a stream, the workload uses it | `WorkloadLoader`, `TlsStream` |
| `MC*` | TLC instances: values of the constants | extend the above |
| `*_proofs` | TLAPS proofs | extend the above |

### SgxThread
`hw` is the processor's CSSA, `ssa` what each frame holds, `extra` which levels
have had exceptions enabled (`main.rs`), `how` and `cssa` the fields of the
host's `Thread`. `EEnter` is `_start` and `main` up to the dispatch on the level,
`ExecTrap` and `ExecFault` are the workload, `HandleSally`, `HandleReturn` and
`Finish` the handlers, and the `Decide*` actions are the tail of `Thread::enter`,
one for each way through it. The choice whether to evaluate the block is the
code's: by level, and by how entry mode changed.

### SallyportBlock
Bytes are counted; contents are not, except for headers: `mem` holds the
header at each offset with its age, so that a header left by an earlier call can
be told from one of this call. A call is a list of layouts, fixed or shrinking
(`allocate_input_slice_max`). One action per stage of `Call::stage`, one for the
commit, one per item of the host's iterator.

### SallyportItem, SallyportGuest, SallyportHandler, SallyportHost, SallyportProxy
Where `SallyportBlock` has the bytes of calls of any shape, these have the shape of
every call. `SallyportGuest` gives each `Alloc*` type as data: its regions, its
argument words and the rule by which it collects. `SallyportHandler` is
`Handler::syscall` with the methods behind it, `SallyportHost` the arms of
`host/syscall.rs`, `enarxcall.rs` and `gdbcall.rs`. In the proxy the actions are
`Handle`, the staging, the host's execution, the kernel's answer (any the call
allows, or any word and any data from a host that does not run the code) and
the collection. A cell of storage is tagged with who wrote it, as part of which
argument, at which index, so "propagated", "truncated" and "mixed up" can be told
apart. Word sizes are scaled down; which words are errors, which fit a `c_int`
and which fit a byte is kept.

### SgxHeap
`ledger` is a function from pages to access; records are counted as maximal
runs, since that is what the capacity limits. Each enarxcall is an action with a
succeeding and a failing variant; `HEAP` is write-locked throughout, so syscalls
do not overlap. `epc` follows a page through EAUG, EACCEPTCOPY, EMODPR, EMODT and
EACCEPT. `own`, `lost` and `holes` are history: what the workload was given, what was
claimed for it without memory because the host's mmap failed, and what it has itself
unmapped from inside the break.

### KvmMemory
`chunks` is the recursion of `allocate_and_map_memory`, `Ensure` its waiting
loop, `BalloonOk` and `BalloonErr` one turn of `balloon`, `MapPage` one page of
`map_memory` with the table it may need, `Undo` the error paths of all levels.
One level of page tables stands for three. `own`, `stray`, `left` and `torn` are
history: what the workload has, what a munmap left mapped, what a failed request
left mapped, and what a shrinking mremap took although bytes of it were kept.

### KvmThread
`stack` holds the live `HostCall`s. The first is `MemInfo`, made by the allocator's
first use before anything else; refused, its `unwrap` panics where it stands
(`MemInfoPanics`), with the block and the lock. `Syscall` takes `THREAD_TLS`, all calls of the
shim's own take `SHIM_LOCAL_STORAGE`; `Drop` releases in the order Rust drops.
`Fault` and `Panic` may strike between any two calls, a missing block or a refused
mem_info also inside one; `FailPrint` and `ShimExit`
are what the handlers do. Failed output panics, and a panic inside the panic
handler is a triple fault. `Take`, `Serve`, `Replace` are `Thread::enter`.

### ShimPaging, SnpReport, SnpGuest
There is one vCPU, so the guest is one thread of control: `pc` is where it is,
`then` what it returns to. Sharing a page is the code's sequence: split its leaf down
to 4 KiB, clear the C-bit, rescind the validation, ask the host through the page
state change loop. A guest message is its contents and its nonce; `sealed` is
history, everything ever encrypted under VMPCK0. The host carries the messages:
an honest one serves what it is asked in as many goes as it likes, any other
answers with an error, with nothing, with something it has seen, or with a
damaged message. It does not write to shared pages while the guest runs.

### KeepLaunch, VcekCache, HostLaunch
A page's contents are a name (binary, header, page), a digest the sequence of
what was hashed, so two digests agree when the same pages were measured in the
same order. `Sign` runs the loader over the hasher, the builder's actions run it
over the device; the device may refuse any call, and `/dev/sev` may be busy.
In `VcekCache` each file system call is a step that may fail, the removals too, whose
errors `write` ignores, and a writer may be killed between any two. `kept` is history:
which file stayed because its removal failed. `HostLaunch` lets the cache move only once the launch is over: the
two share no state, so the other orders differ in nothing.

### WorkloadLoader, TlsStream, Workload
`main` and `writer` are the two threads of `run_package`, `sock` the pieces in the
socket pair, `stage` the loader's typestate. The repository is a sequence of states
it moves through between requests. In `TlsStream` a call of the workload is the loop
`complete_io_async`, one step per system call; a step of a blocking socket that
cannot go on is not enabled. A record is one element on a wire.

## 3. Runs

| run | question | result |
|---|---|---|
| `sgx_thread` | does the host's CSSA count ever drift (`CssaTracked`, `NoDeadEnds`, `ResumesPastTrap`); is a block served exactly once (`ServiceSpec`); is every trap answered (`TrapAnswered`) | holds |
| `sallyport_block` | are regions aligned and disjoint and offsets right (`StagingSound`); does the host read this call and never fault (`RoundTripSound`); no late ENOMEM; one execute is one host call (`ServiceSpec`) | holds |
| `sallyport_proxy` | does every call reach the kernel as made (`KernelSeesWorkloadCall`), its data come back (`MutatedDataReachesCaller`) and nothing else change, also with a lying host (`StorageProtected`); are results faithful; does the shim give up only on a liar (`ShimSurvives`) | holds, up to the deviations named in the properties |
| `sgx_heap` | between syscalls, is every page accounted for on all sides, also when the ledger is full (`HeapAccounted`); is a failing host never taken for an attacker (`HonestHostTrusted`, `KeepEndsOnlyOverLost`); are pages handed out twice (`NoAliasing`) | holds, but for the pages unmapped inside the break (see below) |
| `kvm_memory` | is every frame in exactly one place at every step and every owned page mapped (`MemoryAccounted`); does mapping fail only when the host has nothing (`FailsOnlyExhausted`); is every request answered until then (`ReturnsUnlessExhausted`) | holds |
| `kvm_thread` | are two blocks enough and do the tables agree (`BlocksSound`); when does the vCPU wait for itself (`SpinsOnlyRefused`); does every failure end the keep (`FailureEndsKeep`); `ServiceSpec` | holds; the vCPU spins in exactly one case, a refused mem_info (see below) |
| `snp_guest` | no nonce twice, counters together (`NoncesSound`); an answer is this call's; exactly the meant pages are shared (`PagesAsAsked`); an honest host is never taken for an attacker; the attestation decodes (`ReportDecodes`); calls return (`CallsReturn`) | holds |
| `keep_launch` | a running keep holds every page at its place and type (`KeepComplete`); a signature is refused only for a reason (`SignedKeepsStart`); blocks, threads and regions are sound (`DoorsSound`); the cache hands out whole certificates (`VcekWhole`); a lock or a torn certificate is of an update at work, killed or refused the removal (`NothingLeftBehind`); launches end (`LaunchEnds`) | holds |
| `workload` | what runs is what was asked for, whole (`RunsWhatWasAsked`); what is reported is true (`ReportedTruthfully`); a TLS stream loses, repeats and reorders nothing it said it took (`StreamSound`) | holds |
| `kvm_munmap_hole` | munmap over a hole leaves the rest mapped | finding |
| `sallyport_poll` | poll loses entries the kernel wrote | finding |
| `tls_write` | a write on a blocking TLS stream waits for the peer to speak | finding |

Each finding quotes, in `PROJECT.json`, the comment or document that says otherwise.

### Bounds
* `SgxThread`: three SSA frames, as in `layout.ld`; three host calls per trap: the
  state after the second is that after any later one.
* `SallyportBlock`: a block of 128 bytes leaves 24 for a syscall's data. The calls
  in `MCCalls` fit, fit exactly, shrink or overflow; calls of every kind follow
  each other in one block, so that long headers precede short ones.
* `SallyportProxy`: every call the handler knows, each pointer null and not, buffers
  of 0 to 3 cells, blocks with room for 2 or for 6, and return words from every
  class (error, small, beyond a `c_int`, beyond a byte). A call leaves no state behind
  except signal actions and the gdb connection, which the run keeps.
* `SgxHeap`: three pages of two bytes; addresses from zero to past the end, off and
  on page boundaries; a ledger of two records, one fewer than the pages can need.
* `KvmMemory`: two pages of break and three of mappings, pages of two bytes so that
  lengths end inside a page, tables of two pages, so that a half may straddle a
  table; host memory that runs out in the loop of `Ensure` or inside a mapping (4 or 6
  pages, asked for by fours, then by twos), three slots. `MaxAlloc` is reached.
  Requests beyond the virtual pages are cut off by guards (`BrkPages`, `MmapPages`); in
  the code these areas are terabytes.
* `KvmThread`: the code's two blocks, and two calls per `HostCall`; a debug build,
  whose actions include those of a release build.
* `SnpGuest`: tables of two entries, eight pages of which four are one huge leaf with
  the message pages in its middle, so that splitting happens twice; three calls, and
  sequence numbers that end during the third; report lengths on both sides of
  the one-octet ASN.1 header; VCEK lengths of none, small and of a page.
* `KeepLaunch`: pages of four bytes; about fifty launches: each backend, executables
  whose loads share a page, are empty or do not fit, broken shims, signature files
  of the same and of another executable, an old one and an empty one. Retries: two.
* `VcekCache`: two updates and one keep that tries twice. The proofs have any number.
* `Workload`: packages of every kind, arguments that overflow the socket pair, a
  repository that changes its configuration and then its module, descriptor lists with
  each kind of file; socket buffers of two records, three units written, two read.

### Fairness
* `SgxThread!Fairness`: `keep_exec` loops until the thread stops and the handlers
  are straight-line code between host calls, so the host's steps and the
  handlers' are weakly fair. The workload owes nothing.
* `KvmMemory!FairSpec`: the shim's loop runs on and the host answers each balloon
  call. Nothing is assumed of what it answers.
* `KvmThread!FairSpec`: the host serves what it was handed and sees the shutdown;
  a `HostCall` that was begun goes on; and a handler's report is finite (the stack
  trace has at most 64 frames), so `shim_exit` is strongly fair. A host whose
  `write(2)` keeps accepting zero bytes would keep `shim_write_all` busy; `MaxCalls`
  leaves that out.
* `SnpGuest!Spec`: the guest's code and the host come back from every exit, and
  `MaxStalls` bounds the exits in a row in which the host makes no progress with a page
  state change: the loop in `set_memory_shared` has no bound of its own.
* `KeepLaunch`, `HostLaunch`: the launching process runs. Refusals are unrestricted;
  what ends the launch is the retry counters.
* `Workload!FairSpec` (for `tls_write`): the thread in a call goes on, the peer reads
  what reaches it and says what it has to say.

`CHECK_DEADLOCK FALSE` is in `keep_launch` and `workload`: commands end.

### Deviations without a run
Where the code departs from what its own comments or the syscalls it stands for
say, the models follow the code. A property that would otherwise be false names the
deviation as an exception; these are the ones met:

* SGX memory: `brk(NULL)` reports the old break after a growth (`heap.rs:67`); after a
  failed growth the same `brk` succeeds without memory (`handler/mod.rs:280`, history
  variable `lost`); after a munmap inside the break a `brk` down and up again gives the page
  back without a claim (`heap.rs:51`), and an mmap, which looks in the ledger only
  (`heap.rs:81`), hands out the same page: `NoAliasing` excepts these pages
  (`holes`) and no others; with a full ledger an mprotect changes the page and not the
  record (`SgxHeap!Protected`).
* KVM memory: a lower `brk` over a hole panics (`hostcall.rs:381`); `brk` of exactly the
  current end is ENOMEM; shrinking an mremap inside a page unmaps the bytes kept
  (sallyport `handler.rs:371`, `torn`); a mapping that fails inside a half leaves its
  pages mapped to free frames (`allocator.rs:376`, `left`); the waiting loop ignores
  that balloon gave up (`allocator.rs:342`), so a request the host cannot satisfy
  never returns; the host's last single page is never asked for.
* the first host call: `EnarxAllocator::new` unwraps mem_info with SHIM_LOCAL_STORAGE
  locked (`allocator.rs:108-112`). If the host refuses it, the panic handler waits
  for that lock in `shim_exit` (`hostcall.rs:676`) and the vCPU spins for ever, while
  `main.rs:122` says of the handler that it "Reverts to a triple fault". The host in
  this repository never refuses mem_info (`kvm/thread.rs:82-90`), but the shim does not trust its
  host. `SpinsOnlyRefused` and `FailureEndsKeep` except this case and no other.
* calls: the shim's `epoll_event` is not the kernel's packed one (`libc.rs:41`); `dup`,
  `dup2`, `dup3` lose the new descriptor; gdb's Peek encodes "nothing yet" as an error
  its decoder reads as another; `epoll_pwait` passes five of six arguments; `sendto`
  without an address passes a length; a negative signal number panics and `oldact` is
  not written; failing `accept` and `getsockname` copy an address back; a
  `recv` with MSG_TRUNC that reports more than it wrote is taken for an attack; a
  refused `exit` returns.
* SNP: an error for the VCEK is cached for good (`hostcall.rs:51`); the attestation
  buffer is compared with a constant, not with the length (`hostcall.rs:243`);
  `do_io_out` ignores the exit codes.
* certificates: a torn certificate can be read when the update that was writing it
  failed meanwhile; a killed update leaves its lock and a partial file for good; a
  failing `remove_file` is ignored (`vcek.rs:145`, `154`, `155`, `159`), so the lock may stay and block
  every reader, or a torn certificate without a lock, which later updates take for
  theirs and keeps deliver.
* launch: the count SGX_IOC_ENCLAVE_ADD_PAGES returns is not read (EINIT then
  refuses); an empty segment may sort before or behind its neighbour; a slot number is used
  again after a failed map; without `--backend` a backend that is present but not
  configured may be picked.
* hand-over: the argument socket is non-blocking, so its write timeout has no effect and
  arguments beyond its buffer fail (`exec/mod.rs:175`); an error of the keep hides the
  writer's (`:194`); FD_NAMES splits the name of a connection to an IPv6 host;
  cut arguments are taken not to decode (TOML would accept a `Local` package cut before its
  `conf`, but arguments that short are written in one piece); a poll on the TCP descriptor misses plaintext rustls holds; the handshake in
  `sock_accept` blocks.

## 4. Proofs

Eight modules have proofs; each proof is of every instance that meets the
module's assumptions, and TLC evaluates the assumptions on every run.

| module | assumes | inductive invariant | theorems |
|---|---|---|---|
| `Sgx_proofs` | thread: `NSSA = 3`, as `layout.ld` sets it, any number of calls per trap; memory: any heap, page size and ledger capacity, requests are naturals | `ThreadInv`, `HeapInv` | `CssaNeverDrifts`, `NeverDeadEnds`, `ResumesAlwaysPastTrap`, `ImplementsHostCall`; `HeapAlwaysAccounted`, `HonestHostAlwaysTrusted`, `KeepOnlyEndsOverLost`, `NeverAliases` |
| `SallyportBlock_proofs` | a block of a whole number of words with room for END; only byte slices shrink; calls and layouts arbitrary | `BlockInv` | `StagingAlwaysSound`, `RoundTripAlwaysSound`, `EnomemNeverLate`, `ImplementsHostCall` |
| `SallyportProxy_proofs` | any requests of the shape the call types give them, blocks smaller than `c_int::MAX`, backends and return words of a lying host; widths ordered as on x86_64, with every errno inside `MaxErrno`; the kernel's `epoll_event` no larger than the shim's | `ProxyInv` | `CallReachesKernel`, `DataReachesCaller`, `CallersStorageSafe`, `ResultIsTheKernels`, `ShimEndures` |
| `KvmMemory_proofs` | any sizes of page, table, areas, host memory and request; a largest balloon request of two pages or more; break and mappings share no table | `MemoryInv` | `MemoryInvariant`, `MemoryAlwaysAccounted`, `FailsOnlyWhenExhausted` |
| `KvmThread_proofs` | at least two blocks; any number of calls per `HostCall`; both builds | `ThreadInv` | `BlocksAlwaysSound`, `WaitsForItselfOnlyRefused`, `ImplementsHostCall` |
| `SnpGuest_proofs` | the layout of `layout.ld` (4 KiB leaves under GHCB and blocks, every other page in a leaf of any size); tables with any number of entries; a message header of 12 bytes or more and lengths that fit a `u32`; any host, any number of calls | `SnpInv`, `ExitInv`, `PageInv`, `ReportInv` | `NoncesAlwaysSound`, `AnswerIsThisCallsAlways`, `HonestHostAlwaysServes`, `PagesAlwaysAsAsked`, `ReportAlwaysDecodes` |
| `HostLaunch_proofs` | a page is a whole number of alignment units and blocks are whole ones; any shims, executables, signature files and balloons, a signature file being one `sign` made with these shims, an executable having no shim's name and no unmeasured page, a name standing for one executable; any number of readers and writers, at least one try | `LaunchInv`, `CacheInv` | `KeepAlwaysComplete`, `SignedKeepsAlwaysStart`, `DoorsAlwaysSound`, `LaunchAlwaysAccounted`, `VcekWholeAlways`, `NothingLeftBehindAlways`, `WritersExclude` |
| `Workload_proofs` | arguments of any length, any socket pair, any history of the repository with at least one state; configurations whose names and hosts are sequences, a connection having a host; socket buffers, record limit and amounts of data arbitrary | `LoaderInv`, `TableInv`, `StreamInv` | `ReportAlwaysTruthful`, `PackageAlwaysSound`, `AlwaysRunsWhatWasAsked`, `StreamAlwaysSound` |

`Sgx_proofs`, `SallyportBlock_proofs`, `SallyportProxy_proofs` and `KvmThread_proofs` also
prove type correctness (`TypeCorrect`, `HeapTypeCorrect`); in the others the types are
part of the invariant. None of the properties is inductive by itself:

* `SgxThread`: that `cssa` equals the processor's count after a step depends on
  which exit led to it. `DepthInv` says how the two are related at every point of
  the loop, `ExtraInv` that a level has exceptions enabled exactly while it or a
  deeper one is active (so the next `#UD` lands in a free frame), `SsaInv` what the
  frame to be resumed holds, `BlockInv` at which levels the block is a request.
* `SallyportBlock`: an offset is right only if all the sections around it are.
  `StageInv` gives `ptr` and every section's offset at each stage, and that
  `ptr + free` is the block less the END header (which is why END always fits);
  `StagedInv` places END behind the item; `DataInv` orders the references; `HostInv`
  says that the two headers the host can stand at were written by this call.
* `SgxHeap`: between two enarxcalls pages are in states no property allows between
  syscalls. `BusyInv` says which, by the step the syscall has reached; `SettledInv`
  that all other pages are settled; `OpInv` that the syscall's pages are in the heap;
  `LostInv`, `HoleInv` and `OwnInv` tie history to the ledger; `RoomInv` is why the second
  record of an mmap cannot overflow a ledger that took the first.
* `SallyportProxy`: what the caller gets depends on where the staging put each
  argument, on the words the host read and on what the kernel did with them.
  `StagedInv` says that from staging to collecting the caller's storage is unchanged and the
  item is the one staged; `KernelInv` that the kernel was called with the item's words,
  as the host's arm reads them; `CellsInv` that each region holds what the
  kernel wrote and behind it what the caller had; `LiedInv` what it holds after a lie;
  `ReplyInv` that the return word decodes to what the answer meant, that the kernel wrote
  into regions of the item only, and that what is copied back is what it wrote
  (`TakesWritten`). The proof has a part for all calls: regions staged one after
  another lie apart and inside the item (`Layout`), a pointer to a region is accepted
  by `deref` and passed on (`ArgumentPassed`), an answer changes its own cells
  (`AnsweredCells`), collecting never reads past a region (`TakenFits`). And it has a part for each
  call, which is where the code could be wrong: that what the call stages has the
  shape of the request, suits the arm the host has for that number and the kernel's
  calling convention (the `*Framed` lemmas), and that each answer the kernel may give to it
  reads back (`RepliesAnswer`). `Staging` is a recursive function over at
  most three regions; it is unfolded one region at a time (`StagingUnfolds`, `StagingLaid`). `ProxyInv` was model-checked as an invariant
  of the `sallyport_proxy` instance before it was proved.
* `KvmMemory`: in the middle of a request the frames of the halves not yet mapped are in
  no table and not free. `ChunksInv` says that the halves lie one behind the other
  in the request's range, `FramesInv` that the free frames, the mapped ones, the tables' and
  those in flight (`Flight`, by half) part all the frames the host gave, `PagesInv` which
  pages are mapped so far, and `HostInv` that an undo has found the host exhausted.
  `FramesInv` is claimed as long as `map_memory` has left nothing behind (`left`),
  as `FramesAccounted` is.
* `KvmThread`: `StackInv` says that at most one syscall and one call of the shim's own
  are alive, and that each lock is held exactly for its call. From it and
  `BlocksOwned` a block is free wherever a call may start, and its lock is free but
  in the handler of a refused mem_info; `GuestInv` and `HostInv` carry the request from
  the port to the host.
* `SnpGuest`: that no nonce is used twice needs to know how far guest and firmware are
  apart at each stage of a request. `MsgInv` says it stage by stage, together with what the
  request and the response page may hold; `ControlOK` ties the return stack to the
  stage, so that sharing pages never comes between encrypting and counting.
  `ExitInv` adds what an honest host has filled in when the guest comes back from an exit
  (`ServedOK`) and who holds the GHCB (`LockOK`). `PageInv` ties encryption,
  validation and sharing together and says of the range being shared how far the host
  has come; it rests on lemmas about the page table itself: splitting a leaf changes no
  translation (`SmashKeeps`) and the loop that clears the C-bit ends with exactly its range
  cleared (`ClearCBitClears`, with `TurnsLeft` as its measure). `ReportInv` bounds
  the lengths of a report under way; that headers read back is arithmetic on their
  octets (`DerLengthIs`, `HeaderReadsBack`).
* `KeepLaunch`: what the builder has made so far is a function of the segments it has gone
  through. `SegmentsInv` says that the segments under way are those of the two
  files, in order and apart: the check for overlaps compares neighbours only, and that
  is enough once they are sorted (`NeighboursSuffice`). `PagesInv` has a page
  added exactly for the segments done, `MeasureInv` that the measurement is
  what `sign` hashes of the same segments, up to the point reached; an enclave cut
  short by an `ADD_PAGES` that added less than it was given has fewer entries than that, so its
  hash is not the signed one and `EINIT` refuses it. `RegionsInv` ties slots to the regions, `BlocksInv` the blocks to
  the segments they are in, `TcsInv` the threads to the pages of their type. The
  invariants are claimed of `HostSpec`, whose other steps leave the launch alone.
* `VcekCache`: a reader's certificate is whole because of the order of its two looks. The
  invariant has the exclusion of writers, that an existing lock names the writer who
  made it, who is at work, was killed or could not remove it, and what a reader that has the
  file open may find in it: whole, or of a writer that still has the lock, was killed with
  it, or has failed. The
  theorems are about `CacheSpec`, of which `HostLaunch` takes only steps.
* `Workload`: `HandOverInv` counts the pieces of the arguments (read, in the socket, to be
  written) and says the loader gets past them only when all are read; `PackageInv` says
  what has been fetched in each state and that the directory held is one the repository
  had; `TableInv` that the descriptors opened are a prefix of the configured files; that the
  names joined and split again are the files' (`OneNameEach`) is an induction over
  the files. `StreamInv` is that what the peer has, what is on the wire and what rustls
  holds, one behind the other, are the units told, and the same the other way; it
  rests on how the units of a sequence of records split and join (`UnitsConcat`,
  `UnitsSplit`, `ProcessedBatch`), and needs that nothing but alerts comes behind a
  close_notify (`AlertsLast`).

The refinement theorems map each transport to `HostCall`: initial states map to
`HostCall!Init`, and under the invariant every step maps to a step or to a
stutter (`StepSimulates`).

What a recursive definition computes is proved by induction in the form of sets:
the library's well-founded order on finite sets gives that every nonempty set of
naturals has a least member (`LeastNumber`), hence that a set which holds 0 and is closed
under successor holds all of them (`InductiveSet`), the same for sequences (`InductiveSeq`),
and that a recursion has a solution (`Iteration`), which lets the definition be unfolded.

Only model-checked: liveness (`TrapAnswered`, `ReturnsUnlessExhausted`, `FailureEndsKeep`,
`CallsReturn`, `LaunchEnds`), which needs fairness and ENABLED and is out of the prover's
reach; and the three findings, which are counterexamples. Every invariant and every safety
property of a passing run is a theorem.

## 5. What is left

A composition of `KvmThread` and `KvmMemory`, in which a request balloons from inside a
syscall with the block it needs; `mprotect` on KVM.

## 6. Not modelled

* Start-up assembly, descriptor tables and the constants of the first page tables:
  straight-line set-up without a state that changes later.
* Cryptography, key generation, certificates beyond what the loader checks of them, register
  and ioctl encodings. AES-GCM is perfect: what was not sealed does not open.
* The gdb stub in the shims (the gdbstub library's); the gdbcalls are in the proxy.
* The exchange with aesmd, the HTTP requests of the drawbridge client, user and tree
  commands, key files: one request and one answer each.
* `mprotect` and page flags on KVM; NMI and debug exceptions.
* Lengths near the top of the address space, where the code's rounding wraps.

External and modelled from their use: the ledger (`mmledger`), the frame heap
(`linked_list_allocator`), rustls and the peer, the repository, the kernel's answers, the
SEV firmware and the SGX driver.
