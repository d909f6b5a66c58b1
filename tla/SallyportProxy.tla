---------------------------- MODULE SallyportProxy ---------------------------
(***************************************************************************)
(* One proxied call from end to end: the workload's registers reach the    *)
(* shim's handler, the call is staged in the block, the host turns it into *)
(* a kernel call (or a gdb or Enarx service) and the shim collects what    *)
(* came back.  SallyportBlock models the block's memory for a fixed shape  *)
(* of call; here the shapes are the real ones, one request after another.  *)
(*                                                                         *)
(* Storage is a sequence of cells <<who, role, i>>: who wrote the cell,    *)
(* as part of which argument, at which index.  In the cell of a socket     *)
(* address's length the index is the length itself.                        *)
(***************************************************************************)
EXTENDS SallyportHandler, SallyportHost

CONSTANTS
  Requests,         \* the requests the workload may make
  Caps,             \* sizes of the block's room for a call's data
  Backends,         \* a subset of {"sgx", "kvm", "snp"}
  KernelEventSize,  \* cells of the kernel's epoll_event
  MaxAddr,          \* bound on the length of an address the kernel answers with
  HostileWords      \* the return words of a host that does not run the code

VARIABLES
  backend, cap,
  pc,        \* idle, syscall, host, kernel, guest, done; or an end: attacked,
             \* exited, fault, ended, panic
  req,       \* the request being served
  mem,       \* the caller's storage, by role
  data,      \* the data of the call's item
  ret,       \* the item's return word
  kcall,     \* what reached the kernel
  reply,     \* what the kernel (or the host) did
  result,    \* what the workload gets
  actions,   \* ThreadLocalStorage::actions, for one signal
  session    \* a gdb client is connected

vars == <<backend, cap, pc, req, mem, data, ret, kcall, reply, result, actions, session>>

Roles == {"buf", "buf2", "addr", "len"}

(* A request.  Where the call's type has one object, the request has one;  *)
(* the calls the shim makes for itself pass references, which are not null.*)
OneObject == {"clock_getres", "clock_gettime", "cpuid", "epoll_ctl", "ioctl", "nanosleep"}
ByReference == {"cpuid", "gdb_write_all", "get_sgx_quote", "get_sgx_target_info", "get_snp_vcek"}

IsRequest(q) ==
  /\ q.n \in Nat /\ q.n2 \in Nat /\ q.a \in Nat /\ q.null \subseteq Roles
  /\ q.call \in OneObject => q.n = 1
  /\ q.call \in {"epoll_pwait", "nanosleep"} => q.n2 = 1
  /\ q.call = "get_sgx_target_info" => q.n = TargetInfoSize
  /\ q.call = "get_sgx_quote" => q.n2 = ReportSize
  /\ q.call \in ByReference => q.null = {}

(* A block is smaller than c_int::MAX, and the kernel's epoll_event, being *)
(* packed, is not larger than the shim's.                                  *)
ASSUME ProxyAssumption ==
  /\ \A q \in Requests : IsRequest(q)
  /\ Caps \subseteq 0..IntMax - 1
  /\ Backends \subseteq {"sgx", "kvm", "snp"}
  /\ {EventSize, KernelEventSize} \subseteq Nat \ {0} /\ KernelEventSize <= EventSize
  /\ {MaxAddr, TargetInfoSize, ReportSize} \subseteq Nat
  /\ HostileWords \subseteq 0..WordMax

----------------------------------------------------------------------------
(* The workload's storage.                                                 *)

IsEpoll(q) == q.call \in {"epoll_ctl", "epoll_wait", "epoll_pwait"}

(* Cells the shim's view of the argument covers; past what the kernel's    *)
(* layout gives it, they belong to something else.                         *)
Owned(q, role) ==
  IF role \in q.null THEN 0
  ELSE CASE role = "buf" -> q.n * (IF IsEpoll(q) THEN KernelEventSize ELSE 1)
         [] role = "buf2" -> q.n2
         [] role = "addr" -> q.a
         [] role = "len" -> 1

Spanned(q, role) ==
  IF role = "buf" /\ IsEpoll(q) /\ "buf" \notin q.null THEN q.n * EventSize ELSE Owned(q, role)

Mine(q, role, i) ==
  IF role = "len" THEN <<"user", "len", q.a>>
  ELSE <<"user", IF i <= Owned(q, role) THEN role ELSE "beyond", i>>

UserMem(q) == [role \in Roles |-> [i \in 1..Spanned(q, role) |-> Mine(q, role, i)]]

----------------------------------------------------------------------------
(* Staging: regions one after another, each aligned.                       *)

PaddedTo(n, align) == ((n + align - 1) \div align) * align
AtMost(a, b) == IF a <= b THEN a ELSE b

StageRegion(room, acc, region) ==
  LET off == PaddedTo(acc.end, region.layout.align)
      n == IF region.max THEN AtMost(region.n, room - AtMost(acc.end, room)) ELSE region.n
      end == off + n * region.layout.size
  IN  [end |-> end,
       fits |-> acc.fits /\ end <= room,
       place |-> [r \in DOMAIN acc.place \cup {region.role} |->
                    IF r = region.role THEN [off |-> off, n |-> n, region |-> region]
                    ELSE acc.place[r]]]

NothingStaged == [end |-> 0, fits |-> TRUE, place |-> [r \in {} |-> 0]]

Staging(call, room) ==
  LET after[k \in 0..Len(call.regions)] ==
        IF k = 0 THEN NothingStaged ELSE StageRegion(room, after[k - 1], call.regions[k])
  IN  after[Len(call.regions)]

(* The item's size is padded to whole words, and the padding must fit too. *)
ItemSize(staging) == PaddedTo(staging.end, 2)
Fits(staging, room) == staging.fits /\ ItemSize(staging) <= room

Argv(call, place) ==
  [i \in 1..Len(call.argv) |->
     LET w == call.argv[i] IN
     CASE w.k = "off" -> IF w.v \in DOMAIN place THEN Num(place[w.v].off) ELSE NULL
       [] w.k = "len" -> Num(IF w.v \in DOMAIN place THEN place[w.v].n ELSE 0)
       [] OTHER -> w]

Cells(spot) == spot.n * spot.region.layout.size

(* What an input region is filled from.                                    *)
Source(role, spot) == IF spot.region.dir = "gather" THEN mem.buf \o mem.buf2 ELSE mem[role]

StaleCell(i) == <<"stale", "block", i>>

(* The cells after commit: the caller's where something goes in, and what  *)
(* an earlier call left elsewhere.                                         *)
Committed(staging) ==
  [i \in 1..ItemSize(staging) |->
     LET inputs == {r \in DOMAIN staging.place :
                      /\ staging.place[r].region.dir # "out"
                      /\ i > staging.place[r].off
                      /\ i <= staging.place[r].off + Cells(staging.place[r])}
     IN  IF inputs = {} THEN StaleCell(i)
         ELSE LET r == CHOOSE r \in inputs : TRUE
              IN  Source(r, staging.place[r])[i - staging.place[r].off]]

----------------------------------------------------------------------------
(* The kernel, seen through its calling convention: a register, a pointer  *)
(* to an argument, or the count of its elements.                           *)

Abi ==
  [accept |-> <<"reg", "addr", "len">>,
   accept4 |-> <<"reg", "addr", "len", "reg">>,
   bind |-> <<"reg", "addr", "#addr">>,
   clock_getres |-> <<"reg", "buf">>,
   clock_gettime |-> <<"reg", "buf">>,
   connect |-> <<"reg", "addr", "#addr">>,
   cpuid |-> <<"reg", "reg", "buf">>,
   epoll_ctl |-> <<"reg", "reg", "reg", "buf">>,
   epoll_pwait |-> <<"reg", "buf", "#buf", "reg", "buf2", "reg">>,
   epoll_wait |-> <<"reg", "buf", "#buf", "reg">>,
   gdb_write |-> <<"reg">>,
   gdb_write_all |-> <<"buf", "#buf">>,
   get_sgx_quote |-> <<"buf2", "buf", "#buf">>,
   get_sgx_target_info |-> <<"buf">>,
   get_snp_vcek |-> <<"buf", "#buf">>,
   getsockname |-> <<"reg", "addr", "len">>,
   ioctl |-> <<"reg", "reg", "buf">>,
   nanosleep |-> <<"buf", "buf2">>,
   open |-> <<"buf", "reg", "reg">>,
   poll |-> <<"buf", "#buf", "reg">>,
   read |-> <<"reg", "buf", "#buf">>,
   recvfrom |-> <<"reg", "buf", "#buf", "reg", "addr", "len">>,
   sendto |-> <<"reg", "buf", "#buf", "reg", "addr", "#addr">>,
   setsockopt |-> <<"reg", "reg", "reg", "buf", "#buf">>,
   write |-> <<"reg", "buf", "#buf">>]

Position(num, role) ==
  IF num \in DOMAIN Abi /\ \E p \in 1..Len(Abi[num]) : Abi[num][p] = role
  THEN CHOOSE p \in 1..Len(Abi[num]) : Abi[num][p] = role ELSE 0

(* The pointer the kernel was given for an argument, -1 when there is none.*)
At(role) ==
  LET p == Position(kcall.num, role) IN IF p = 0 THEN -1 ELSE kcall.args[p].v

CountOf == [buf |-> "#buf", buf2 |-> "#buf2", addr |-> "#addr", len |-> "#len"]
Counted(role) == kcall.args[Position(kcall.num, CountOf[role])].v

(* A reply: the return word, what it means, and how many cells of which    *)
(* argument were written; `len` is the address's length, -1 when unwritten.*)
Wrote(buf, buf2, addr, len) == [buf |-> buf, buf2 |-> buf2, addr |-> addr, len |-> len]
Nothing == Wrote(0, 0, 0, -1)
Replied(word, truth, wrote) == [from |-> "kernel", ret |-> word, truth |-> truth, wrote |-> wrote]
WrittenBy(answer, role) ==
  IF role = "len" THEN (IF answer.wrote.len >= 0 THEN 1 ELSE 0) ELSE answer.wrote[role]
WrittenCell(answer, role, i) == <<"kernel", role, IF role = "len" THEN answer.wrote.len ELSE i>>
Fails(e) == Replied(ErrnoWord(e), Err(e), Nothing)
Returns(v, wrote) == Replied(v, Ok(v), wrote)

NoReply == [from |-> "none", ret |-> 0, truth |-> Ok(0), wrote |-> Nothing]

Lied == [from |-> "hostile", ret |-> 0, truth |-> Ok(0), wrote |-> Nothing]

One(role) == IF At(role) = -1 THEN 0 ELSE 1

(* An address of any length, cut to the caller's room, with its length.    *)
Addresses(buf) ==
  IF At("addr") = -1 THEN {Wrote(buf, 0, 0, -1)}
  ELSE {Wrote(buf, 0, AtMost(len, data[At("len") + 1][3]), len) : len \in 0..MaxAddr}

(* What was received; with MSG_TRUNC the count may exceed what was written.*)
Received(k) == {Returns(k, w) : w \in Addresses(k)}
ReceivedTruncated ==
  IF req.sel = <<"MSG_TRUNC">>
  THEN {Returns(Counted("buf") + 1, w) : w \in Addresses(Counted("buf"))} ELSE {}

KernelReplies ==
  LET num == kcall.num IN
  CASE num \in {"read", "recvfrom"} ->
         (UNION {Received(k) : k \in 0..Counted("buf")}) \cup ReceivedTruncated
    [] num \in {"write", "sendto"} -> {Returns(k, Nothing) : k \in 0..Counted("buf")}
    [] num \in {"accept", "accept4"} -> {Returns(IntMax, w) : w \in Addresses(0)}
    [] num = "getsockname" -> {Returns(0, w) : w \in Addresses(0)}
    [] num = "poll" -> {Returns(k, Wrote(Counted("buf"), 0, 0, -1)) : k \in 0..Counted("buf")}
    [] num \in {"epoll_wait", "epoll_pwait"} ->
         {Returns(k, Wrote(k * KernelEventSize, 0, 0, -1)) : k \in 0..Counted("buf")}
    [] num \in {"clock_getres", "clock_gettime"} -> {Returns(0, Wrote(One("buf"), 0, 0, -1))}
    [] num = "ioctl" ->
         {Returns(0, Wrote(IF req.sel[2] = "FIONREAD" THEN One("buf") ELSE 0, 0, 0, -1))}
    [] num = "nanosleep" ->
         {Returns(0, Nothing),
          Replied(ErrnoWord(EINTR), Err(EINTR), Wrote(0, One("buf2"), 0, -1))}
    [] num \in {"bind", "close", "connect", "epoll_ctl", "listen", "setsockopt", "sync"} ->
         {Returns(0, Nothing)}
    [] OTHER -> {Returns(IntMax, Nothing)}

----------------------------------------------------------------------------
(* The gdb client and the Enarx services behind the host.                  *)

GdbReplies ==
  CASE kcall.num \in {"gdb_on_session_start", "gdb_flush", "gdb_write"} -> {Returns(0, Nothing)}
    [] kcall.num = "gdb_read" -> {Returns(b, Nothing) : b \in {0, ByteMax}}
    [] kcall.num = "gdb_peek" ->   \* no byte waiting is shown as u8::MAX + 1
         {Returns(b, Nothing) : b \in {0, ByteMax}} \cup {Replied(ByteMax + 1, Ok(None), Nothing)}
    [] kcall.num = "gdb_write_all" -> {Returns(Counted("buf"), Nothing)}

(* Target info and quote fill their buffers whole, a VCEK may be shorter   *)
(* than its buffer.                                                        *)
EnarxReplies ==
  CASE kcall.num = "cpuid" -> {Returns(0, Wrote(1, 0, 0, -1))}
    [] kcall.num = "get_sgx_target_info" ->
         {Replied(TargetInfoSize, Ok(0), Wrote(TargetInfoSize, 0, 0, -1))}
    [] kcall.num = "get_sgx_quote" -> {Returns(Counted("buf"), Wrote(Counted("buf"), 0, 0, -1))}
    [] kcall.num = "get_snp_vcek" -> {Returns(k, Wrote(k, 0, 0, -1)) : k \in 1..Counted("buf")}
    [] kcall.num \in {"balloon_memory", "get_sgx_quote_size", "mem_info"} ->
         {Returns(IntMax, Nothing)}
    [] OTHER -> {Returns(0, Nothing)}

(* Services whose failure is not an answer: the thread gives up.           *)
EndsKeep == {"get_sgx_target_info", "get_sgx_quote", "get_sgx_quote_size", "get_snp_vcek"}

ServiceReplies ==
  CASE kcall.num \in DOMAIN SyscallArms -> KernelReplies \cup {Fails(EPERM)}
    [] kcall.num \in DOMAIN GdbArms -> GdbReplies \cup {Fails(EPERM)}
    [] kcall.num \in EndsKeep \cup {"cpuid"} -> EnarxReplies
    [] OTHER -> EnarxReplies \cup {Fails(EPERM)}

(* The cells of the item after a reply.                                    *)
Answered(answer) ==
  [i \in DOMAIN data |->
     LET hits == {r \in Roles : At(r) >= 0 /\ i > At(r) /\ i <= At(r) + WrittenBy(answer, r)}
     IN  IF hits = {} THEN data[i]
         ELSE LET r == CHOOSE r \in hits : TRUE IN WrittenCell(answer, r, i - At(r))]

----------------------------------------------------------------------------
(* Collecting.                                                             *)

Decode(num, type, w) ==
  CASE num \in DOMAIN GdbArms -> DecodeGdbcall(type, w)
    [] num \in DOMAIN SyscallArms -> DecodeSyscall(type, w)
    [] OTHER -> DecodeEnarxcall(type, w)

(* Collecting as an Option: None when the host claims more than was staged.*)
Claims(call, place, res) ==
  /\ call.collect \in {"prefix", "scatter", "prefix_sockaddr", "count"}
  /\ res.t = "ok"
  /\ res.v > place["buf"].n

(* The first `cells` cells of the argument, from where it was staged.      *)
CopyBack(m, place, role, cells) ==
  [m EXCEPT ![role] = [i \in DOMAIN @ |-> IF i <= cells THEN data[place[role].off + i] ELSE @[i]]]

(* The length, then as much of the address as fits both.                   *)
CopySockaddr(m, place) ==
  IF "addr" \notin DOMAIN place THEN m
  ELSE LET length == data[place["len"].off + 1][3]
       IN  CopyBack(CopyBack(m, place, "len", 1), place, "addr", AtMost(place["addr"].n, length))

(* Over the parts of an iovec, in order.                                   *)
Scatter(place, cells) ==
  LET at(i) == data[place["buf"].off + i]
      first == Len(mem.buf)
  IN  [mem EXCEPT
         !.buf = [i \in DOMAIN @ |-> IF i <= cells THEN at(i) ELSE @[i]],
         !.buf2 = [i \in DOMAIN @ |-> IF first + i <= cells THEN at(first + i) ELSE @[i]]]

Collected(call, place, res) ==
  LET whole(role) == IF role \in DOMAIN place THEN CopyBack(mem, place, role, Cells(place[role]))
                     ELSE mem
      prefix == res.v * place["buf"].region.layout.size
  IN
  CASE call.collect = "always" -> whole("buf")
    [] call.collect = "ok" -> IF res.t = "ok" THEN whole("buf") ELSE mem
    [] call.collect = "interrupted" -> IF res = Err(EINTR) THEN whole("buf2") ELSE mem
    [] call.collect = "sockaddr" -> CopySockaddr(mem, place)
    [] call.collect = "prefix" /\ res.t = "ok" -> CopyBack(mem, place, "buf", prefix)
    [] call.collect = "scatter" /\ res.t = "ok" -> Scatter(place, prefix)
    [] call.collect = "prefix_sockaddr" /\ res.t = "ok" ->
         CopySockaddr(CopyBack(mem, place, "buf", prefix), place)
    [] OTHER -> mem

----------------------------------------------------------------------------
NoRequest == [call |-> "none", n |-> 0, n2 |-> 0, a |-> 0, null |-> Roles, sel |-> <<>>]
NoCall == [num |-> "none", args |-> <<>>]

Init ==
  /\ backend \in Backends
  /\ cap \in Caps
  /\ pc = "idle"
  /\ req = NoRequest
  /\ mem = UserMem(NoRequest)
  /\ data = <<>>
  /\ ret = 0
  /\ kcall = NoCall
  /\ reply = NoReply
  /\ result = Ok(0)
  /\ actions = FALSE
  /\ session = FALSE

NeedsSession == DOMAIN GdbArms \ {"gdb_on_session_start"}

(* The workload (or, for gdb and Enarx calls, the shim itself) asks.  The  *)
(* gdb stub starts its session before anything else.                       *)
Submit(q) ==
  /\ pc = "idle"
  /\ q.call \in NeedsSession => session
  /\ pc' = "syscall"
  /\ req' = q
  /\ mem' = UserMem(q)
  /\ UNCHANGED <<backend, cap, data, ret, kcall, reply, result, actions, session>>

(* The workload goes on, and the block is free for the next call.          *)
Return ==
  /\ pc = "done"
  /\ pc' = "idle"
  /\ req' = NoRequest
  /\ mem' = UserMem(NoRequest)
  /\ data' = <<>>
  /\ ret' = 0
  /\ kcall' = NoCall
  /\ reply' = NoReply
  /\ result' = Ok(0)
  /\ UNCHANGED <<backend, cap, actions, session>>

Finish(res) ==
  /\ pc' = "done"
  /\ result' = res

RefuseRequest ==
  /\ pc = "syscall"
  /\ Handle(req).k = "refuse"
  /\ Finish(Handle(req).res)
  /\ UNCHANGED <<backend, cap, req, mem, data, ret, kcall, reply, actions, session>>

AnswerStub ==
  /\ pc = "syscall"
  /\ Handle(req).k = "stub"
  /\ \E outcome \in Handle(req).outcomes :
       /\ Finish(outcome.res)
       /\ mem' = [mem EXCEPT !.buf = [i \in DOMAIN @ |->
                                        IF i <= outcome.wrote THEN <<"shim", "buf", i>> ELSE @[i]]]
  /\ UNCHANGED <<backend, cap, req, data, ret, kcall, reply, actions, session>>

(* mmap and the like: SgxHeap and KvmMemory say what happens.              *)
LeaveToPlatform ==
  /\ pc = "syscall"
  /\ Handle(req).k = "memory"
  /\ \E res \in {Ok(0), Err(ENOMEM)} : Finish(res)
  /\ UNCHANGED <<backend, cap, req, mem, data, ret, kcall, reply, actions, session>>

(* A negative signal number passes the check and is used as an index.  An  *)
(* action that was never set is not reported: the caller's stays as it is. *)
RtSigaction ==
  LET act == "buf" \notin req.null
      oldact == "buf2" \notin req.null
  IN
  /\ pc = "syscall"
  /\ Handle(req).k = "sigaction"
  /\ \/ /\ "too large" \in {req.sel[1], req.sel[2]}
        /\ Finish(Err(EINVAL))
        /\ UNCHANGED <<mem, actions>>
     \/ /\ "too large" \notin {req.sel[1], req.sel[2]}
        /\ req.sel[1] = "negative" /\ (act \/ oldact)
        /\ pc' = "panic"
        /\ UNCHANGED <<mem, actions, result>>
     \/ /\ "too large" \notin {req.sel[1], req.sel[2]}
        /\ req.sel[1] = "negative" => ~act /\ ~oldact
        /\ mem' = IF oldact /\ actions THEN [mem EXCEPT !.buf2[1] = <<"shim", "buf2", 1>>] ELSE mem
        /\ actions' = (actions \/ act)
        /\ Finish(Ok(0))
  /\ UNCHANGED <<backend, cap, req, data, ret, kcall, reply, session>>

(* Handler::execute up to sally: stage, commit, hand over.                 *)
Sally ==
  /\ pc = "syscall"
  /\ Handle(req).k = "stage"
  /\ LET staging == Staging(Handle(req).call, cap) IN
     \/ /\ ~Fits(staging, cap)
        /\ Finish(Err(ENOMEM))
        /\ UNCHANGED <<data, ret>>
     \/ /\ Fits(staging, cap)
        /\ data' = Committed(staging)
        /\ ret' = ErrnoWord(ENOSYS)
        /\ pc' = "host"
        /\ UNCHANGED result
  /\ UNCHANGED <<backend, cap, req, mem, kcall, reply, actions, session>>

Item == Handle(req).call
Place == Staging(Item, cap).place
ItemArgv == Padded(Argv(Item, Place), 6)

(* The number in the cell a pointer's count is read from.                  *)
LengthAt(spec) ==
  IF spec.k = "ptr" /\ spec.n.k = "cell" /\ ItemArgv[spec.n.v] # NULL
  THEN data[ItemArgv[spec.n.v].v + 1][3] ELSE 0

AcceptsAll(specs) ==
  \A p \in DOMAIN specs : Accepts(ItemArgv, specs[p], Len(data), LengthAt(specs[p]))

HostExits ==
  /\ pc = "host"
  /\ Item.num \in {"exit", "exit_group"}
  /\ pc' = "exited"
  /\ UNCHANGED <<backend, cap, req, mem, data, ret, kcall, reply, result, actions, session>>

(* An item no arm knows keeps the answer it came with.                     *)
HostSkips ==
  /\ pc = "host"
  /\ Item.num \notin DOMAIN Arms(backend)
  /\ reply' = Replied(ret, Err(ENOSYS), Nothing)
  /\ pc' = "guest"
  /\ UNCHANGED <<backend, cap, req, mem, data, ret, kcall, result, actions, session>>

(* An offset outside the item makes the thread's loop return an error.     *)
HostCalls ==
  /\ pc = "host"
  /\ Item.num \in DOMAIN Arms(backend) \ {"exit", "exit_group"}
  /\ LET specs == Arms(backend)[Item.num] IN
     IF AcceptsAll(specs)
     THEN /\ kcall' = [num |-> Item.num, args |-> [p \in DOMAIN specs |-> Value(ItemArgv, specs[p])]]
          /\ pc' = "kernel"
     ELSE pc' = "fault" /\ UNCHANGED kcall
  /\ UNCHANGED <<backend, cap, req, mem, data, ret, reply, result, actions, session>>

(* A gdb session that is there already is not started again.               *)
Replies ==
  IF kcall.num = "gdb_on_session_start" /\ session
  THEN {Returns(0, Nothing)} ELSE ServiceReplies

KernelReturns ==
  /\ pc = "kernel"
  /\ \E answer \in Replies :
       /\ data' = Answered(answer)
       /\ ret' = answer.ret
       /\ reply' = answer
       /\ session' = (session \/ (kcall.num = "gdb_on_session_start" /\ answer.ret = 0))
  /\ pc' = "guest"
  /\ UNCHANGED <<backend, cap, req, mem, kcall, result, actions>>

ServiceFails ==
  /\ pc = "kernel"
  /\ kcall.num \in EndsKeep
  /\ pc' = "ended"
  /\ UNCHANGED <<backend, cap, req, mem, data, ret, kcall, reply, result, actions, session>>

(* The host outside the enclave is not trusted: any word, any data.        *)
HostileReply(w, length) ==
  /\ pc = "host"
  /\ ret' = w
  /\ data' = [i \in DOMAIN data |->
                <<"host", "block", IF "len" \in DOMAIN Place /\ i = Place["len"].off + 1
                                   THEN length ELSE i>>]
  /\ reply' = Lied
  /\ pc' = "guest"
  /\ UNCHANGED <<backend, cap, req, mem, kcall, result, actions, session>>

(* A successful exit cannot have been one; a refused one is reported.      *)
Attacked(res) ==
  /\ Handle(req).option
  /\ \/ req.call \in {"exit", "exit_group"} /\ res.t = "ok"
     \/ Claims(Item, Place, res)

CollectReply ==
  LET res == Decode(Item.num, Item.ret, ret) IN
  /\ pc = "guest"
  /\ \/ /\ Attacked(res)
        /\ pc' = "attacked"
        /\ UNCHANGED <<mem, result>>
     \/ /\ ~Attacked(res)
        /\ mem' = Collected(Item, Place, res)
        /\ Finish(res)
  /\ UNCHANGED <<backend, cap, req, data, ret, kcall, reply, actions, session>>

(* The keep is over, or its shim only tries to exit.                       *)
Stopped ==
  /\ pc \in {"attacked", "exited", "fault", "ended", "panic"}
  /\ UNCHANGED vars

Next ==
  \/ \E q \in Requests : Submit(q)
  \/ Return
  \/ RefuseRequest
  \/ AnswerStub
  \/ LeaveToPlatform
  \/ RtSigaction
  \/ Sally
  \/ HostExits
  \/ HostSkips
  \/ HostCalls
  \/ KernelReturns
  \/ ServiceFails
  \/ \E w \in HostileWords, length \in 0..MaxAddr : HostileReply(w, length)
  \/ CollectReply
  \/ Stopped

Spec == Init /\ [][Next]_vars

----------------------------------------------------------------------------
(* Properties                                                              *)

(* The caller's arguments, the parts of an iovec as one.                   *)
Vectored == req.call \in {"readv", "writev"}
Arguments == IF Vectored THEN Roles \ {"buf2"} ELSE Roles
Whole(m, role) == IF role = "buf" /\ Vectored THEN m.buf \o m.buf2 ELSE m[role]

(* Without an address its length is not asked for either.                  *)
Absent(role) == role \in req.null \/ (role = "len" /\ "addr" \in req.null)

(* The arguments the kernel, the client or the service reads.              *)
Reads(num) ==
  CASE num \in {"bind", "connect"} -> {"addr"}
    [] num = "sendto" -> {"buf", "addr"}
    [] num \in {"epoll_ctl", "gdb_write_all", "ioctl", "nanosleep", "open", "poll",
                "setsockopt", "write"} -> {"buf"}
    [] num \in {"epoll_pwait", "get_sgx_quote"} -> {"buf2"}
    [] num \in {"accept", "accept4", "getsockname", "recvfrom"} -> {"len"}
    [] OTHER -> {}

(* How many cells the kernel may touch at an argument's pointer.           *)
Extent(role) ==
  IF At(role) = -1 THEN 0
  ELSE IF Position(kcall.num, CountOf[role]) # 0
  THEN Counted(role) * (IF role = "buf" /\ IsEpoll(req) THEN KernelEventSize ELSE 1)
  ELSE IF role = "addr" THEN data[At("len") + 1][3] ELSE Owned(req, role)

Touched(role) == {At(role) + i : i \in 1..Extent(role)}

(* Every call reaches the kernel as the workload made it: each register in *)
(* its place, null pointers null, every pointer at its own cells of the    *)
(* item (no two arguments share one), and everything the kernel reads      *)
(* there is what the caller had.  A count may only be cut to what the      *)
(* block can carry.  Two deviations: epoll_pwait passes five of its six    *)
(* arguments, and sendto without an address passes a length that is not 0. *)
KernelSeesWorkloadCall ==
  pc = "kernel" /\ kcall.num \in DOMAIN Abi =>
    LET abi == Abi[kcall.num] IN
    /\ DOMAIN kcall.args = DOMAIN abi \/ kcall.num = "epoll_pwait"
    /\ \A p \in DOMAIN kcall.args :
         CASE abi[p] = "reg" -> kcall.args[p] = Arg(p)
           [] abi[p] \in Roles -> Absent(abi[p]) <=> kcall.args[p] = NullArg
           [] abi[p] = "#buf" ->
                \/ kcall.args[p].v = Len(Whole(mem, "buf")) \div (IF IsEpoll(req) THEN EventSize ELSE 1)
                \/ kcall.args[p].v < Len(Whole(mem, "buf")) /\ Len(data) + 1 >= cap
           [] abi[p] = "#addr" -> "addr" \in req.null \/ kcall.args[p] = Num(req.a)
    /\ \A r \in Roles : Touched(r) \subseteq DOMAIN data
    /\ \A r1, r2 \in Roles : r1 # r2 => Touched(r1) \cap Touched(r2) = {}
    /\ \A r \in Reads(kcall.num) :
         \A i \in 1..Extent(r) : data[At(r) + i] = Whole(mem, r)[i]

FromKernel == pc = "done" /\ reply.from = "kernel"

KernelCell(role, i) == WrittenCell(reply, role, i)
Written(role) == WrittenBy(reply, role)

Reaches(role) ==
  \A i \in 1..Written(role) : Whole(mem, role)[i] = KernelCell(role, i)

(* Whatever the kernel wrote reaches the caller, cell for cell, however    *)
(* the call was cut, gathered or scattered.  poll is the exception: only   *)
(* as many entries come back as are ready (PollEntriesReachCaller).        *)
MutatedDataReachesCaller ==
  FromKernel /\ req.call # "poll" => \A r \in Arguments : Reaches(r)

(* crates/sallyport/README.md: the shim "propagates any mutated data back  *)
(* to the protected address space", poll's entries included.               *)
PollEntriesReachCaller == FromKernel /\ req.call = "poll" => Reaches("buf")

Untouched(role) ==
  \A i \in Written(role) + 1..Len(Whole(mem, role)) : Whole(mem, role)[i] = Whole(UserMem(req), role)[i]

(* Nothing else of the caller's storage changes: the rest of a buffer, the *)
(* arguments that only go in, what lies behind them.  Two deviations: a    *)
(* failed accept or getsockname fills the address from the block, and an   *)
(* epoll_event of the shim is larger than the kernel's.                    *)
NothingElseChanges ==
  FromKernel => \A r \in Arguments :
    \/ Untouched(r)
    \/ r = "addr" /\ result.t = "err" /\ req.call \in {"accept", "accept4", "getsockname"}
    \/ r = "buf" /\ req.call \in {"epoll_wait", "epoll_pwait"}

Faithful(answer, res) ==
  \/ res = answer.truth
  \/ req.call \in {"dup", "dup2", "dup3"} /\ answer.truth.t = "ok" /\ res = Ok(0)
  \/ req.call = "gdb_peek" /\ (answer.truth = Ok(None) \/ answer.ret = WordMax)

(* The workload is told what the kernel said: no error becomes a success   *)
(* or another error, no count or descriptor is changed on the way.  Two    *)
(* deviations: dup and its kin lose the new descriptor, and the gdb client's *)
(* "no byte yet" is read as an overflow while its EPERM is read as that.   *)
ResultFaithful == FromKernel => Faithful(reply, result)

(* The shim gives up only on a host that lied, the host faults on nothing  *)
(* the shim staged, and no request makes the shim panic.  Two deviations:  *)
(* MSG_TRUNC lets the kernel report more than it wrote, and a negative     *)
(* signal number indexes the table of actions.                             *)
ShimSurvives ==
  /\ pc = "attacked" => reply.from = "hostile" \/ req.sel = <<"MSG_TRUNC">>
  /\ pc # "fault"
  /\ pc = "panic" => req.sel[1] = "negative"

(* Whatever the host answers, a cell of the caller's changes only to one   *)
(* of the region staged for the same argument, its storage keeps its size, *)
(* and a count it is told never exceeds what it asked for.                 *)
CallerProtected ==
  pc = "done" =>
    /\ \A r \in Roles : DOMAIN mem[r] = 1..Spanned(req, r)
    /\ reply.from = "hostile" =>
         /\ \A r \in Roles \ {"len"} : \A i \in 1..Spanned(req, r) :
              LET start == IF r = "buf2" /\ req.call = "readv" THEN Place["buf"].off + req.n
                           ELSE IF r \in DOMAIN Place THEN Place[r].off ELSE 0
              IN  mem[r][i] \in {Mine(req, r, i), <<"host", "block", start + i>>}
         /\ result.t = "ok" /\ Item.collect \in {"prefix", "scatter", "prefix_sockaddr", "count"}
              => result.v <= Len(Whole(UserMem(req), "buf"))

(* Both together: the storage of the caller is safe from an honest kernel  *)
(* and from a lying host.                                                  *)
StorageProtected == NothingElseChanges /\ CallerProtected

----------------------------------------------------------------------------
(* The inductive invariant.                                                *)

Live == {"idle", "syscall", "host", "kernel", "guest", "done"}
Over == {"attacked", "exited", "ended", "panic"}
InBlock == pc \in {"host", "kernel", "guest"}

(* The steps of Handler::execute and of the host's loop, and the ways out. *)
TypeOK ==
  /\ pc \in Live \cup Over
  /\ backend \in Backends /\ cap \in Caps
  /\ actions \in BOOLEAN /\ session \in BOOLEAN
  /\ pc # "idle" => req \in Requests

(* From staging to collecting the caller's storage is as it was, and the   *)
(* block holds an item of the size staged.                                 *)
StagedInv ==
  /\ pc = "syscall" \/ InBlock => mem = UserMem(req)
  /\ pc \notin {"guest", "done"} \cup Over => reply = NoReply
  /\ InBlock => /\ Handle(req).k = "stage" /\ Fits(Staging(Item, cap), cap)
                /\ DOMAIN data = 1..ItemSize(Staging(Item, cap))
                /\ Len(data) = ItemSize(Staging(Item, cap))
  /\ pc = "host" => ret = ErrnoWord(ENOSYS)

KernelCall(specs) ==
  [num |-> Item.num, args |-> [p \in DOMAIN specs |-> Value(ItemArgv, specs[p])]]

(* What the kernel was called with is the item, as the host's arm reads it.*)
KernelInv ==
  pc = "kernel" =>
    /\ Item.num \in DOMAIN Arms(backend) \ {"exit", "exit_group"}
    /\ kcall = KernelCall(Arms(backend)[Item.num])

(* In every region: what the kernel wrote, then what the caller had.       *)
Cell(role, i) == data[Place[role].off + i]

CellsInv ==
  InBlock /\ reply.from # "hostile" =>
    \A r \in DOMAIN Place : \A i \in 1..Cells(Place[r]) :
      /\ i <= Written(r) => Cell(r, i) = KernelCell(r, i)
      /\ i > Written(r) /\ Place[r].region.dir # "out" => Cell(r, i) = Whole(mem, r)[i]

(* A lying host leaves its own cells, in the block's order.                *)
LiedInv ==
  InBlock /\ reply.from = "hostile" =>
    \A r \in DOMAIN Place : \A i \in 1..Cells(Place[r]) :
      IF r = "len" THEN Cell(r, i)[3] \in Nat ELSE Cell(r, i) = <<"host", "block", Place[r].off + i>>

(* How many cells of an argument are copied back, for a result and a       *)
(* length of the socket address.                                           *)
TakesAddress(res) ==
  Item.collect = "sockaddr" \/ (Item.collect = "prefix_sockaddr" /\ res.t = "ok")
Taken(role, res, length) ==
  IF role \notin DOMAIN Place THEN 0 ELSE
  CASE role = "buf" /\ Item.collect = "always" -> Cells(Place[role])
    [] role = "buf" /\ Item.collect = "ok" /\ res.t = "ok" -> Cells(Place[role])
    [] role = "buf2" /\ Item.collect = "interrupted" /\ res = Err(EINTR) -> Cells(Place[role])
    [] role = "buf" /\ Item.collect \in {"prefix", "scatter", "prefix_sockaddr"} /\ res.t = "ok" ->
         res.v * Place[role].region.layout.size
    [] role = "len" /\ TakesAddress(res) -> 1
    [] role = "addr" /\ TakesAddress(res) -> AtMost(Place[role].n, length)
    [] OTHER -> 0

AddressLength(answer) == IF answer.wrote.len >= 0 THEN answer.wrote.len ELSE req.a

(* What is copied back of an argument is what the kernel wrote, but for    *)
(* what has not changed.                                                   *)
TakesWritten(answer, res, role) ==
  LET written == WrittenBy(answer, role)
      taken == Taken(role, res, AddressLength(answer))
  IN  /\ written <= taken \/ req.call = "poll"
      /\ \/ taken <= written
         \/ Place[role].region.dir # "out"
         \/ role = "addr" /\ res.t = "err" /\ req.call \in {"accept", "accept4", "getsockname"}
         \/ role = "buf" /\ req.call \in {"epoll_wait", "epoll_pwait"}

(* An answer of the kernel: it wrote into the regions only, and its word   *)
(* reads back as what it meant.                                            *)
Answers(answer, res) ==
  /\ answer.from = "kernel" /\ answer.ret \in Nat
  /\ answer.wrote.len \in Nat \cup {-1}
  /\ \A r \in Roles : /\ WrittenBy(answer, r) \in Nat
                      /\ r \notin DOMAIN Place => WrittenBy(answer, r) = 0
                      /\ r \in DOMAIN Place => WrittenBy(answer, r) <= Cells(Place[r])
  /\ Faithful(answer, res)
  /\ Attacked(res) => req.sel = <<"MSG_TRUNC">>
  /\ ~Attacked(res) => \A r \in DOMAIN Place : TakesWritten(answer, res, r)

(* What the shim is about to collect is a lie, or an answer of the kernel. *)
ReplyInv ==
  pc = "guest" =>
    \/ reply = Lied /\ ret \in HostileWords
    \/ ret = reply.ret /\ Answers(reply, Decode(Item.num, Item.ret, ret))

(* All together, and the properties that speak of a call already collected.*)
ProxyInv ==
  /\ TypeOK /\ StagedInv /\ KernelInv /\ CellsInv /\ LiedInv /\ ReplyInv
  /\ MutatedDataReachesCaller /\ StorageProtected /\ ResultFaithful /\ ShimSurvives
=============================================================================
