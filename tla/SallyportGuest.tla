---------------------------- MODULE SallyportGuest ---------------------------
(***************************************************************************)
(* The guest's side of a proxied call: which of the caller's buffers are   *)
(* staged in the block, in which order and direction, which words go into  *)
(* the item and how the answer is collected.                               *)
(*                                                                         *)
(* A call is collected by one of these rules:                              *)
(*   none             nothing is copied back                               *)
(*   ok               the buffer, when the call succeeded                  *)
(*   always           the buffer, whatever the result                      *)
(*   interrupted      the second buffer, when the call was interrupted     *)
(*   sockaddr         the length, then so much of the address              *)
(*   prefix           as many elements as the result says                  *)
(*   scatter          the same, over the parts of an iovec                 *)
(*   prefix_sockaddr  prefix and sockaddr, both only on success            *)
(*   count            nothing, but the result is checked like a prefix     *)
(*                                                                         *)
(* A request q is what the workload (or the shim) asks for:                *)
(*   call  the name of the system call, Enarx call or gdb call             *)
(*   n     elements of its main buffer "buf", n2 of its second one "buf2"  *)
(*   a     bytes of its socket address "addr", whose length is in "len"    *)
(*   null  the pointers that are null                                      *)
(*   sel   the value that selects a branch: a descriptor, a request, flags *)
(***************************************************************************)
EXTENDS SallyportItem, FiniteSets

CONSTANT EventSize   \* cells of the shim's epoll_event

(* Layouts.  A cell is one unit of storage; alignment is that of a byte    *)
(* (1) or of a machine word (2).                                           *)
U8 == [size |-> 1, align |-> 1]
Obj == [size |-> 1, align |-> 2]
EpollEvent == [size |-> EventSize, align |-> 2]

(* dir is in, out, inout, or gather: in, from the parts of an iovec.       *)
Region(dir, role, n, layout) ==
  [dir |-> dir, role |-> role, n |-> n, layout |-> layout, max |-> FALSE]

(* stage_slice_max: as many elements as still fit.                         *)
ShrinkToFit(region) ==
  [dir |-> region.dir, role |-> region.role, n |-> region.n, layout |-> region.layout, max |-> TRUE]

Off(role) == [k |-> "off", v |-> role]
Count(role) == [k |-> "len", v |-> role]

Call(num, regions, argv, ret, collect) ==
  [num |-> num, regions |-> regions, argv |-> argv, ret |-> ret, collect |-> collect]

Optional(q, role, regions) == IF role \in q.null THEN <<>> ELSE regions

SockaddrInput(q) == Region("in", "addr", q.a, Obj)

AddrOutput(q) == Region("out", "addr", q.a, Obj)
AddrlenOutput == Region("inout", "len", 1, Obj)
SockaddrOutput(q) == <<AddrOutput(q), AddrlenOutput>>

SockoptInput(q) == Region("in", "buf", q.n, Obj)

----------------------------------------------------------------------------
(* System calls, one definition per call type.                             *)

Accept(q) ==
  Call("accept", Optional(q, "addr", SockaddrOutput(q)),
       <<Arg(1), Off("addr"), Off("len")>>, "c_int", "sockaddr")

Accept4(q) ==
  Call("accept4", Optional(q, "addr", SockaddrOutput(q)),
       <<Arg(1), Off("addr"), Off("len"), Arg(4)>>, "c_int", "sockaddr")

Bind(q) ==
  Call("bind", <<SockaddrInput(q)>>, <<Arg(1), Off("addr"), Count("addr")>>, "unit", "none")

ClockGetres(q) ==
  Call("clock_getres", Optional(q, "buf", <<Region("out", "buf", 1, Obj)>>),
       <<Arg(1), Off("buf")>>, "unit", "ok")

ClockGettime(q) ==
  Call("clock_gettime", <<Region("out", "buf", 1, Obj)>>, <<Arg(1), Off("buf")>>, "unit", "ok")

Connect(q) ==
  Call("connect", <<SockaddrInput(q)>>, <<Arg(1), Off("addr"), Count("addr")>>, "unit", "none")

EpollCtl(q) ==
  Call("epoll_ctl", <<Region("in", "buf", 1, EpollEvent)>>,
       <<Arg(1), Arg(2), Arg(3), Off("buf")>>, "unit", "none")

EpollWait(q) ==
  Call("epoll_wait", <<Region("out", "buf", q.n, EpollEvent)>>,
       <<Arg(1), Off("buf"), Count("buf"), Arg(4)>>, "c_int", "prefix")

EpollPwait(q) ==
  Call("epoll_pwait",
       <<Region("out", "buf", q.n, EpollEvent), Region("in", "buf2", 1, Obj)>>,
       <<Arg(1), Off("buf"), Count("buf"), Arg(4), Off("buf2")>>, "c_int", "prefix")

AllocFcntl(q) == Call("fcntl", <<>>, <<Arg(1), Arg(2), Arg(3)>>, "c_int", "none")

Getsockname(q) ==
  Call("getsockname", SockaddrOutput(q), <<Arg(1), Off("addr"), Off("len")>>, "unit", "sockaddr")

AllocIoctl(q) ==
  Call("ioctl", Optional(q, "buf", <<Region("inout", "buf", 1, U8)>>),
       <<Arg(1), Arg(2), Off("buf"), Count("buf")>>, "c_int", "always")

Nanosleep(q) ==
  Call("nanosleep",
       IF "buf2" \in q.null THEN <<Region("in", "buf", 1, Obj)>>
       ELSE <<Region("in", "buf", 1, Obj), Region("inout", "buf2", 1, Obj)>>,
       <<Off("buf"), Off("buf2")>>, "unit", "interrupted")

OpenSwapped(q) ==
  Call("open", <<Region("in", "buf", q.n, U8)>>,
       <<Off("buf"), Count("buf"), Arg(3), Arg(2)>>, "c_int", "none")

AllocOpen(q) ==
  Call("open", <<Region("in", "buf", q.n, U8)>>,
       <<Off("buf"), Count("buf"), Arg(2), Arg(3)>>, "c_int", "none")

Poll(q) ==
  Call("poll", <<Region("inout", "buf", q.n, Obj)>>,
       <<Off("buf"), Count("buf"), Arg(3)>>, "c_int", "prefix")

ReadWhole(q) ==
  Call("read", <<ShrinkToFit(Region("out", "buf", q.n, U8))>>,
       <<Arg(1), Off("buf"), Count("buf")>>, "usize", "always")

Read(q) ==
  Call("read", <<ShrinkToFit(Region("out", "buf", q.n, U8))>>,
       <<Arg(1), Off("buf"), Count("buf")>>, "usize", "prefix")

ReadvFirst(q) ==
  Call("read", <<ShrinkToFit(Region("out", "buf", q.n + q.n2, U8))>>,
       <<Arg(1), Off("buf"), Count("buf")>>, "usize", "prefix")

(* All iovecs share one region, so the call becomes a single read.         *)
Readv(q) ==
  Call("read", <<ShrinkToFit(Region("out", "buf", q.n + q.n2, U8))>>,
       <<Arg(1), Off("buf"), Count("buf")>>, "usize", "scatter")

Recv(q) ==
  Call("recvfrom", <<ShrinkToFit(Region("out", "buf", q.n, U8))>>,
       <<Arg(1), Off("buf"), Count("buf"), Arg(4)>>, "usize", "prefix")

(* The address is staged first: the buffer may take all the space left.    *)
Recvfrom(q) ==
  Call("recvfrom", <<AddrOutput(q), AddrlenOutput, ShrinkToFit(Region("out", "buf", q.n, U8))>>,
       <<Arg(1), Off("buf"), Count("buf"), Arg(4), Off("addr"), Off("len")>>,
       "usize", "prefix_sockaddr")

Send(q) ==
  Call("sendto", <<ShrinkToFit(Region("in", "buf", q.n, U8))>>,
       <<Arg(1), Off("buf"), Count("buf"), Arg(4)>>, "usize", "count")

Sendto(q) ==
  Call("sendto", <<SockaddrInput(q), ShrinkToFit(Region("in", "buf", q.n, U8))>>,
       <<Arg(1), Off("buf"), Count("buf"), Arg(4), Off("addr"), Count("addr")>>,
       "usize", "count")

Setsockopt(q) ==
  Call("setsockopt", Optional(q, "buf", <<SockoptInput(q)>>),
       <<Arg(1), Arg(2), Arg(3), Off("buf"), Count("buf")>>, "c_int", "none")

Write(q) ==
  Call("write", <<ShrinkToFit(Region("in", "buf", q.n, U8))>>,
       <<Arg(1), Off("buf"), Count("buf")>>, "usize", "count")

Writev(q) ==
  Call("write", <<ShrinkToFit(Region("gather", "buf", q.n + q.n2, U8))>>,
       <<Arg(1), Off("buf"), Count("buf")>>, "usize", "count")

(* Calls that carry registers only: how many, and the type they return.    *)
PassthroughArgs ==
  [close |-> 1, dup |-> 1, dup2 |-> 2, dup3 |-> 3, epoll_create1 |-> 1,
   eventfd2 |-> 2, exit |-> 1, exit_group |-> 1, listen |-> 2, socket |-> 3, sync |-> 0]

PassthroughUnits == [c \in DOMAIN PassthroughArgs |-> "unit"]

PassthroughRet ==
  [c \in DOMAIN PassthroughArgs |->
     IF c \in {"epoll_create1", "eventfd2", "socket"} THEN "c_int" ELSE "unit"]

Passthrough(q) ==
  Call(q.call, <<>>, [i \in 1..PassthroughArgs[q.call] |-> Arg(i)],
       PassthroughRet[q.call], "none")

----------------------------------------------------------------------------
(* Enarx calls.                                                            *)

Cpuid(q) ==
  Call("cpuid", <<Region("out", "buf", 1, Obj)>>, <<Arg(1), Arg(2), Off("buf")>>, "unit", "ok")

GetSgxQuote(q) ==
  Call("get_sgx_quote",
       <<Region("in", "buf2", q.n2, U8), Region("out", "buf", q.n, U8)>>,
       <<Off("buf2"), Off("buf"), Count("buf")>>, "usize", "prefix")

GetSgxTargetInfo(q) ==
  Call("get_sgx_target_info", <<Region("out", "buf", q.n, U8)>>, <<Off("buf")>>, "unit", "ok")

GetSnpVcek(q) ==
  Call("get_snp_vcek", <<Region("out", "buf", q.n, U8)>>,
       <<Off("buf"), Count("buf")>>, "usize", "prefix")

EnarxPassthroughArgs ==
  [balloon_memory |-> 3, get_sgx_quote_size |-> 0, mem_info |-> 0, mmap_host |-> 3,
   mprotect_host |-> 3, munmap_host |-> 2, trim_sgx_pages |-> 2]

EnarxPassthrough(q) ==
  Call(q.call, <<>>, [i \in 1..EnarxPassthroughArgs[q.call] |-> Arg(i)],
       IF q.call \in {"balloon_memory", "get_sgx_quote_size", "mem_info"}
       THEN "usize" ELSE "unit", "none")

----------------------------------------------------------------------------
(* Calls of the gdb stub.                                                  *)

WriteAll(q) ==
  Call("gdb_write_all", <<ShrinkToFit(Region("in", "buf", q.n, U8))>>,
       <<Off("buf"), Count("buf")>>, "usize", "count")

GdbPassthroughRet ==
  [gdb_flush |-> "unit", gdb_on_session_start |-> "unit", gdb_peek |-> "option_u8",
   gdb_read |-> "u8", gdb_write |-> "unit"]

GdbPassthrough(q) ==
  Call(q.call, <<>>, IF q.call = "gdb_write" THEN <<Arg(1)>> ELSE <<>>,
       GdbPassthroughRet[q.call], "none")
=============================================================================
