-------------------------- MODULE SallyportHandler --------------------------
(***************************************************************************)
(* The shim's handler: from a workload's registers to one of the calls of  *)
(* SallyportGuest, to an answer the shim gives by itself, or to a refusal. *)
(* `syscall` decodes and validates, a method per call executes.            *)
(***************************************************************************)
EXTENDS SallyportGuest

CONSTANT LinkSize   \* cells of "/init\0", the link /proc/self/exe

(* What a handled request comes to.                                        *)
Refuse(e) == [k |-> "refuse", res |-> Err(e)]
Staged(call, option) == [k |-> "stage", call |-> call, option |-> option]
Execute(call) == Staged(call, FALSE)
(* The call collects as an Option; a None means that the host lied.        *)
OrAttacked(call) == Staged(call, TRUE)
(* Answered without the host: the result and how much of "buf" is written. *)
Stub(res, wrote) == [k |-> "stub", outcomes |-> {[res |-> res, wrote |-> wrote]}]
StubAnyOf(outcomes) == [k |-> "stub", outcomes |-> outcomes]
(* Left to the platform's memory management (SgxHeap, KvmMemory).          *)
Memory(flags) == [k |-> "memory", flags |-> flags]
SetAction == [k |-> "sigaction"]

Stdio == {"stdin", "stdout", "stderr"}
O_WRONLY == 1
O_RDWR == 2   \* with O_APPEND

----------------------------------------------------------------------------
(* Calls that only sometimes reach the block.                              *)

Fcntl(q) ==
  IF q.sel[1] \in Stdio
  THEN IF q.sel[2] = "F_GETFL" THEN Stub(Ok(IF q.sel[1] = "stdin" THEN O_RDWR ELSE O_WRONLY), 0)
       ELSE Refuse(EINVAL)
  ELSE IF q.sel[2] \in {"F_GETFD", "F_SETFD", "F_GETFL", "F_SETFL"} THEN Execute(AllocFcntl(q))
       ELSE Refuse(EBADFD)

Ioctl(q) ==
  IF q.sel[1] \in Stdio THEN Stub(Err(IF q.sel[2] = "TIOCGWINSZ" THEN ENOTTY ELSE EINVAL), 0)
  ELSE IF q.sel[2] \in {"FIONBIO", "FIONREAD"} THEN Execute(AllocIoctl(q))
  ELSE Stub(Err(EBADFD), 0)

Open(q) ==
  IF q.sel = <<"/etc/resolv.conf", "O_RDONLY">>
  THEN Execute(AllocOpen(q)) ELSE Stub(Err(EACCES), 0)

(* Calls the shim answers by itself.                                       *)
Fstat(q) ==
  IF q.sel[1] \in Stdio THEN Stub(Ok(0), q.n) ELSE Stub(Err(EBADFD), 0)

(* One cell per chunk; the processor may be out of random numbers at any.  *)
Getrandom(q) ==
  LET filled(i) == [res |-> Ok(i), wrote |-> i] IN
  CASE q.sel[1] = "other" -> Stub(Err(EINVAL), 0)
    [] q.sel[1] = "GRND_NONBLOCK" ->
         StubAnyOf({filled(q.n)} \cup {[res |-> Err(EAGAIN), wrote |-> i] : i \in 0..q.n - 1})
    [] q.sel[1] = "GRND_RANDOM" -> StubAnyOf({filled(i) : i \in 0..q.n})
    [] OTHER -> StubAnyOf({filled(q.n)})

Readlink(q) ==
  IF q.sel[1] # "/proc/self/exe" THEN Stub(Err(ENOENT), 0)
  ELSE IF q.n < LinkSize THEN Stub(Err(EINVAL), 0)
  ELSE Stub(Ok(LinkSize), LinkSize)

Uname(q) == Stub(Ok(0), q.n)

FakeIds ==
  [getegid |-> 10, geteuid |-> 10, getgid |-> 10, getpid |-> 10, getuid |-> 10,
   set_tid_address |-> 1]

(* The others ignore their arguments.                                      *)
Ignoring(q) == Stub(Ok(IF q.call \in DOMAIN FakeIds THEN FakeIds[q.call] ELSE 0), 0)

----------------------------------------------------------------------------
(* The handler's methods.                                                  *)

MethodsToExit(m, q) ==
  CASE m = "accept" -> Execute(Accept(q))
    [] m = "accept4" -> Execute(Accept4(q))
    [] m = "bind" -> Execute(Bind(q))
    [] m = "clock_getres" -> Execute(ClockGetres(q))
    [] m = "clock_gettime" -> Execute(ClockGettime(q))
    [] m = "connect" -> Execute(Connect(q))
    [] m = "epoll_ctl" -> Execute(EpollCtl(q))
    [] m = "epoll_wait" -> OrAttacked(EpollWait(q))
    [] m = "epoll_pwait" -> OrAttacked(EpollPwait(q))
    [] OTHER -> Execute(Passthrough(q))

(* exit does not return: an answer to it is not the host's to give.        *)
MethodsToMremap(m, q) ==
  CASE m \in {"exit", "exit_group"} -> OrAttacked(Passthrough(q))
    [] m = "fcntl" -> Fcntl(q)
    [] m = "fstat" -> Fstat(q)
    [] m = "getrandom" -> Getrandom(q)
    [] m = "getsockname" -> Execute(Getsockname(q))
    [] m = "ioctl" -> Ioctl(q)
    [] m = "listen" -> Execute(Passthrough(q))
    [] OTHER -> Ignoring(q)

MethodsToRecv(m, q) ==
  CASE m = "nanosleep" -> Execute(Nanosleep(q))
    [] m = "open" -> Open(q)
    [] m = "poll" -> OrAttacked(Poll(q))
    [] m = "read" -> OrAttacked(Read(q))
    [] m = "readlink" -> Readlink(q)
    [] m = "readv" -> OrAttacked(Readv(q))
    [] m = "recv" -> OrAttacked(Recv(q))
    [] m = "recvfrom" -> OrAttacked(Recvfrom(q))

MethodsToWritev(m, q) ==
  CASE m = "send" -> OrAttacked(Send(q))
    [] m = "sendto" -> OrAttacked(Sendto(q))
    [] m = "setsockopt" -> Execute(Setsockopt(q))
    [] m \in {"socket", "sync"} -> Execute(Passthrough(q))
    [] m = "uname" -> Uname(q)
    [] m = "write" -> OrAttacked(Write(q))
    [] m = "writev" -> OrAttacked(Writev(q))
    [] OTHER -> Ignoring(q)

GdbMethods(m, q) ==
  IF m = "gdb_write_all" THEN OrAttacked(WriteAll(q)) ELSE Execute(GdbPassthrough(q))

EnarxMethods(m, q) ==
  CASE m = "cpuid" -> Execute(Cpuid(q))
    [] m = "get_sgx_quote" -> OrAttacked(GetSgxQuote(q))
    [] m = "get_sgx_target_info" -> Execute(GetSgxTargetInfo(q))
    [] m = "get_snp_vcek" -> OrAttacked(GetSnpVcek(q))
    [] OTHER -> Execute(EnarxPassthrough(q))

----------------------------------------------------------------------------
(* Handler::syscall.                                                       *)

(* Every pointer the method will use must be non-null (and aligned).       *)
NonNull(q, role) == role \notin q.null

Validated(q, roles, handled) ==
  IF \A role \in roles : NonNull(q, role) THEN handled ELSE Refuse(EINVAL)

(* The address's length is read before the address itself.                 *)
ValidateSockaddrOutput(q) == IF "addr" \in q.null THEN {} ELSE {"addr", "len"}

SyscallToExit(q) ==
  CASE q.call \in {"accept", "accept4"} ->
         Validated(q, ValidateSockaddrOutput(q), MethodsToExit(q.call, q))
    [] q.call \in {"bind", "connect"} -> Validated(q, {"addr"}, MethodsToExit(q.call, q))
    [] q.call \in {"clock_gettime", "epoll_ctl", "epoll_wait"} ->
         Validated(q, {"buf"}, MethodsToExit(q.call, q))
    [] q.call = "epoll_pwait" ->
         Validated(q, {"buf"},
                   MethodsToExit(IF "buf2" \in q.null THEN "epoll_wait" ELSE q.call, q))
    [] q.call \in {"exit", "exit_group"} -> MethodsToMremap(q.call, q)
    [] q.call \in {"arch_prctl", "brk"} -> Memory("")
    [] OTHER -> MethodsToExit(q.call, q)

SyscallToMunmap(q) ==
  CASE q.call \in {"fstat", "getrandom"} -> Validated(q, {"buf"}, MethodsToMremap(q.call, q))
    [] q.call = "getsockname" -> Validated(q, {"addr", "len"}, MethodsToMremap(q.call, q))
    [] q.call = "ioctl" ->
         IF "buf" \notin q.null /\ q.sel[2] \notin {"FIONBIO", "FIONREAD"}
         THEN Refuse(ENOTSUP) ELSE MethodsToMremap(q.call, q)
    [] q.call \in {"madvise", "mprotect", "mremap", "munmap"} /\ "buf" \in q.null ->
         Refuse(EFAULT)
    [] q.call = "mremap" /\ "buf" \notin q.null ->
         IF q.sel[1] \in {"MREMAP_FIXED to null", "other"}
         THEN Refuse(EINVAL) ELSE Memory(q.sel[1])
    [] q.call \in {"madvise", "mprotect", "munmap"} /\ "buf" \notin q.null -> Memory("")
    [] q.call = "mmap" -> Memory("")
    [] OTHER -> MethodsToMremap(q.call, q)

SyscallToRtSigaction(q) ==
  CASE q.call \in {"nanosleep", "open", "poll", "read"} ->
         Validated(q, {"buf"}, MethodsToRecv(q.call, q))
    [] q.call \in {"readlink", "readv"} -> Validated(q, {"buf", "buf2"}, MethodsToRecv(q.call, q))
    [] q.call = "recvfrom" ->
         Validated(q, {"buf"} \cup ValidateSockaddrOutput(q),
                   MethodsToRecv(IF "addr" \in q.null THEN "recv" ELSE q.call, q))
    [] q.call = "rt_sigaction" -> SetAction

SyscallToWritev(q) ==
  CASE q.call = "sendto" ->
         Validated(q, {"buf"}, MethodsToWritev(IF "addr" \in q.null THEN "send" ELSE q.call, q))
    [] q.call \in {"set_tid_address", "uname", "write"} ->
         Validated(q, {"buf"}, MethodsToWritev(q.call, q))
    [] q.call = "writev" -> Validated(q, {"buf", "buf2"}, MethodsToWritev(q.call, q))
    [] q.call \in {"rt_sigprocmask", "setsockopt", "sigaltstack", "socket", "sync"} ->
         MethodsToWritev(q.call, q)
    [] OTHER -> Refuse(ENOSYS)

(* The four parts of the match, in the order of the source.                *)
CallsToExit ==
  {"accept", "accept4", "arch_prctl", "bind", "brk", "clock_getres", "clock_gettime", "close", "connect", "dup",
   "dup2", "dup3", "epoll_create1", "epoll_ctl", "epoll_pwait", "epoll_wait", "eventfd2",
   "exit", "exit_group"}
CallsToMunmap ==
  {"fcntl", "fstat", "getegid", "geteuid", "getgid", "getpid", "getrandom", "getsockname",
   "getuid", "ioctl", "listen", "madvise", "mmap", "mprotect", "mremap", "munmap"}
CallsToRtSigaction ==
  {"nanosleep", "open", "poll", "read", "readlink", "readv", "recvfrom", "rt_sigaction"}

Handle(q) ==
  CASE q.call \in CallsToExit -> SyscallToExit(q)
    [] q.call \in CallsToMunmap -> SyscallToMunmap(q)
    [] q.call \in CallsToRtSigaction -> SyscallToRtSigaction(q)
    [] q.call \in DOMAIN GdbPassthroughRet \cup {"gdb_write_all"} -> GdbMethods(q.call, q)
    [] q.call \in DOMAIN EnarxPassthroughArgs
                    \cup {"cpuid", "get_sgx_quote", "get_sgx_target_info", "get_snp_vcek"} ->
         EnarxMethods(q.call, q)
    [] OTHER -> SyscallToWritev(q)
=============================================================================
