---------------------------- MODULE SallyportHost ----------------------------
(***************************************************************************)
(* The host's side of a proxied call: how the words of an item become the  *)
(* arguments of a call to the kernel, of a gdb connection or of the Enarx  *)
(* services, with every offset checked against the item's data.            *)
(***************************************************************************)
EXTENDS SallyportGuest

CONSTANTS
  TargetInfoSize,   \* cells of an SGX TargetInfo
  ReportSize        \* cells of an SGX Report

(* A kernel argument: the i-th word as it is, or a pointer to n elements   *)
(* at the offset in the i-th word.  `n` names the word that holds the      *)
(* count (k = "word"), is a number, or is read from the block itself       *)
(* (k = "cell").  `null` names the word whose NULL makes the argument null.*)
Word(i) == [k |-> "word", i |-> i, null |-> 0]
WordOrZero(i, j) == [k |-> "word", i |-> i, null |-> j]

Pointer(i, n, layout) ==
  [k |-> "ptr", i |-> i, n |-> n, layout |-> layout, null |-> 0]
NullWith(spec, j) ==
  [k |-> "ptr", i |-> spec.i, n |-> spec.n, layout |-> spec.layout, null |-> j]
OrNull(spec) == NullWith(spec, spec.i)

Bytes(i, j) == Pointer(i, [k |-> "word", v |-> j], U8)
Aligned(i, layout) == Pointer(i, [k |-> "num", v |-> 1], layout)
AlignedSlice(i, j, layout) == Pointer(i, [k |-> "word", v |-> j], layout)

SockaddrIn(i, j) == AlignedSlice(i, j, Obj)

(* The address's room is what the length beside it says.                   *)
SockaddrOut(i, j) == Pointer(i, [k |-> "cell", v |-> j], Obj)
SocklenOut(j) == Aligned(j, Obj)

Words(n) == [i \in 1..n |-> Word(i)]

----------------------------------------------------------------------------
(* The arms of syscall::execute: the arguments passed to the kernel.       *)

SyscallArmsToDup ==
  [accept |-> <<Word(1), OrNull(SockaddrOut(2, 3)), NullWith(SocklenOut(3), 2)>>,
   accept4 |-> <<Word(1), OrNull(SockaddrOut(2, 3)), NullWith(SocklenOut(3), 2), Word(4)>>,
   bind |-> <<Word(1), SockaddrIn(2, 3), Word(3)>>,
   clock_getres |-> <<Word(1), OrNull(Aligned(2, Obj))>>,
   clock_gettime |-> <<Word(1), Aligned(2, Obj)>>,
   close |-> Words(1),
   connect |-> <<Word(1), SockaddrIn(2, 3), Word(3)>>,
   dup |-> Words(1)]

SyscallArmsToFcntl ==
  [dup2 |-> Words(2),
   dup3 |-> Words(3),
   epoll_create1 |-> Words(1),
   epoll_ctl |-> <<Word(1), Word(2), Word(3), Aligned(4, EpollEvent)>>,
   epoll_pwait |-> <<Word(1), AlignedSlice(2, 3, EpollEvent), Word(3), Word(4), Aligned(5, Obj)>>,
   epoll_wait |-> <<Word(1), AlignedSlice(2, 3, EpollEvent), Word(3), Word(4)>>,
   eventfd2 |-> Words(2),
   exit |-> Words(1),
   exit_group |-> Words(1),
   fcntl |-> Words(3)]

SyscallArmsToPoll ==
  [getsockname |-> <<Word(1), SockaddrOut(2, 3), SocklenOut(3)>>,
   ioctl |-> <<Word(1), Word(2), OrNull(Bytes(3, 4))>>,
   listen |-> Words(2),
   nanosleep |-> <<Aligned(1, Obj), OrNull(Aligned(2, Obj))>>,
   open |-> <<Bytes(1, 2), Word(3), Word(4)>>,
   poll |-> <<AlignedSlice(1, 2, Obj), Word(2), Word(3)>>]

SyscallArmsToWrite ==
  [read |-> <<Word(1), Bytes(2, 3), Word(3)>>,
   recvfrom |-> <<Word(1), Bytes(2, 3), Word(3), Word(4), OrNull(SockaddrOut(5, 6)),
                NullWith(SocklenOut(6), 5)>>,
   sendto |-> <<Word(1), Bytes(2, 3), Word(3), Word(4), OrNull(SockaddrIn(5, 6)), Word(6)>>,
   setsockopt |-> <<Word(1), Word(2), Word(3), OrNull(AlignedSlice(4, 5, Obj)), WordOrZero(5, 4)>>,
   socket |-> Words(3),
   sync |-> <<>>,
   write |-> <<Word(1), Bytes(2, 3), Word(3)>>]

(* The arms of both; a name that both know is the first one's.             *)
Joined(f, g) == [x \in DOMAIN f \cup DOMAIN g |-> IF x \in DOMAIN f THEN f[x] ELSE g[x]]

SyscallArms ==
  Joined(Joined(SyscallArmsToDup, SyscallArmsToFcntl), Joined(SyscallArmsToPoll, SyscallArmsToWrite))

(* execute_gdb; a slice is a pointer and a count *)
GdbArms ==
  [gdb_on_session_start |-> <<>>, gdb_flush |-> <<>>, gdb_peek |-> <<>>, gdb_read |-> <<>>,
   gdb_write |-> Words(1),
   gdb_write_all |-> <<Bytes(1, 2), Word(2)>>]

(* host/enarxcall.rs, behind every backend *)
HostEnarxArms == [cpuid |-> <<Word(1), Word(2), Aligned(3, Obj)>>]

SgxEnarxArms ==
  [cpuid |-> <<Word(1), Word(2), Aligned(3, Obj)>>,
   get_sgx_target_info |-> <<Pointer(1, [k |-> "num", v |-> TargetInfoSize], U8)>>,
   get_sgx_quote |-> <<Pointer(1, [k |-> "num", v |-> ReportSize], U8), Bytes(2, 3), Word(3)>>,
   get_sgx_quote_size |-> <<>>]

SgxMemoryArms ==
  [mmap_host |-> Words(3), mprotect_host |-> Words(3), munmap_host |-> Words(2),
   trim_sgx_pages |-> Words(2)]

KvmEnarxArms == [mem_info |-> <<>>, balloon_memory |-> Words(3)]

SnpEnarxArms == [get_snp_vcek |-> <<Bytes(1, 2), Word(2)>>]

(* What a backend executes; an item it does not know is skipped and keeps  *)
(* the answer the guest committed, -ENOSYS.                                *)
BackendArms(backend) ==
  CASE backend = "sgx" -> Joined(SgxEnarxArms, SgxMemoryArms)
    [] backend = "kvm" -> KvmEnarxArms
    [] backend = "snp" -> Joined(KvmEnarxArms, SnpEnarxArms)

Arms(backend) ==
  Joined(Joined(SyscallArms, GdbArms), Joined(HostEnarxArms, BackendArms(backend)))

----------------------------------------------------------------------------
(* host::deref and host::deref_aligned: the pointed-to cells lie inside    *)
(* the item's data, `size` cells of it.                                    *)

NullArg == [k |-> "ptr", v |-> -1]

DerefStrict(size, offset, n, layout) ==
  /\ offset.k = "num" /\ offset.v >= 0
  /\ n.k = "num"
  /\ offset.v + n.v * layout.size < size
  /\ offset.v % layout.align = 0

Deref(size, offset, n, layout) ==
  /\ offset.k = "num" /\ offset.v >= 0
  /\ n.k = "num"
  /\ n.v * layout.size <= size
  /\ offset.v <= size - n.v * layout.size
  /\ offset.v % layout.align = 0

IsNull(argv, spec) == spec.null # 0 /\ argv[spec.null] = NULL

(* length is the number in the block's socket length, as the host reads it.*)
Elements(argv, spec, length) ==
  CASE spec.n.k = "word" -> argv[spec.n.v]
    [] spec.n.k = "num" -> spec.n
    [] spec.n.k = "cell" -> Num(length)

Accepts(argv, spec, size, length) ==
  spec.k = "ptr" /\ ~IsNull(argv, spec) =>
    Deref(size, argv[spec.i], Elements(argv, spec, length), spec.layout)

(* The value that reaches the kernel.                                      *)
Value(argv, spec) ==
  IF IsNull(argv, spec) THEN IF spec.k = "word" THEN Num(0) ELSE NullArg
  ELSE IF spec.k = "word" THEN argv[spec.i] ELSE [k |-> "ptr", v |-> argv[spec.i].v]
=============================================================================
