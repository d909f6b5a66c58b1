------------------------------ MODULE KvmThread ------------------------------
(***************************************************************************)
(* One virtual CPU of a KVM keep: the shim's host calls, with the pool of  *)
(* sallyport blocks (HOST_CALL_ALLOC) and the spin locks they are made     *)
(* under, its ways out (shim_exit, the panic handler, a triple fault), and *)
(* the host's Thread::enter loop with its own table of the same blocks.    *)
(*                                                                         *)
(* There is one vCPU, so nobody ever releases a lock another context waits *)
(* for: locking a held lock spins for ever.  Host calls nest: a syscall    *)
(* holds THREAD_TLS and a block, and while it runs the shim makes calls of *)
(* its own (balloon, debug output, the VCEK) under SHIM_LOCAL_STORAGE with *)
(* another block; a fault or a panic adds the exit call on top.  A panic   *)
(* does not unwind: what was locked where it happened stays locked.        *)
(***************************************************************************)
EXTENDS Naturals, Sequences

CONSTANTS
    NumBlocks,  \* NUM_BLOCKS: sallyport blocks (2 in the code)
    Dbg,        \* whether the build has debug output (feature dbg)
    MaxCalls    \* bound: times one HostCall goes out to the host

ASSUME NumBlocksAssumption == NumBlocks \in Nat /\ NumBlocks >= 2
ASSUME BuildAssumption == Dbg \in BOOLEAN /\ MaxCalls \in Nat \ {0}

Blocks == 0 .. NumBlocks - 1

VARIABLES
    gpc,        \* guest: "boot", "user", "shim", "out" (on the host), "spin", "tripled"
    stack,      \* guest: the HostCalls that are alive, outermost first
    failing,    \* guest: on the way out: "no", "fault" or "panic"
    pool,       \* guest: the blocks in HOST_CALL_ALLOC
    threadTls,  \* guest: THREAD_TLS is locked
    shimTls,    \* guest: SHIM_LOCAL_STORAGE is locked
    content,    \* what every block holds: a request, or its result
    port,       \* the block number written to the trigger port
    hpc,        \* host: "run", "serve", or the way it stopped
    taken       \* host: the blocks missing from Keep.sallyports

lockVars == <<threadTls, shimTls>>
guestVars == <<gpc, stack, failing, pool, lockVars>>
hostVars == <<hpc, taken>>
vars == <<guestVars, content, port, hostVars>>

\* The shim's own calls: balloon, debug output and the VCEK; the others are the
\* first one (EnarxAllocator::new), a syscall's and the last one.
ShimKinds == {"balloon", "print", "vcek"}
Kinds == ShimKinds \cup {"meminfo", "syscall", "exit"}
Contexts == [kind : Kinds, block : Blocks, calls : 0 .. MaxCalls]

Ended == {"exited", "failed", "panicked"}

TypeOK ==
    /\ gpc \in {"boot", "user", "shim", "out", "spin", "tripled"}
    /\ stack \in Seq(Contexts)
    /\ failing \in {"no", "fault", "panic"}
    /\ pool \subseteq Blocks
    /\ threadTls \in BOOLEAN /\ shimTls \in BOOLEAN
    /\ content \in [Blocks -> {"none", "call", "exit", "ok", "err"}]
    /\ port \in Blocks
    /\ hpc \in {"run", "serve"} \cup Ended
    /\ taken \subseteq Blocks

-----------------------------------------------------------------------------
(* The block pool and the locks.                                           *)

Top == stack[Len(stack)]
Depth == Len(stack)

\* try_alloc: the first block that is there.
FirstBlock == CHOOSE b \in pool : \A c \in pool : b <= c

\* try_new: a HostCall with a block of its own.
Push(kind) ==
    /\ stack' = Append(stack, [kind |-> kind, block |-> FirstBlock, calls |-> 0])
    /\ pool' = pool \ {FirstBlock}

\* BlockGuard::drop puts the block back.
PoolWith(b) == pool \cup {b}

\* The guards are dropped in reverse order: the block, then the lock.
UnlockedNever(kind) == shimTls
Unlocked(kind) == IF kind = "syscall" THEN shimTls ELSE FALSE

\* The guest stops or hangs with everything held.
GuestStuck(how) ==
    gpc' = how /\ UNCHANGED <<stack, failing, pool, lockVars, content, port, hostVars>>

\* A HostCall of the shim's own, under SHIM_LOCAL_STORAGE.
PushLocked(kind) ==
    /\ Push(kind)
    /\ shimTls' = TRUE
    /\ gpc' = "shim"
    /\ UNCHANGED <<failing, threadTls, content, port, hostVars>>

-----------------------------------------------------------------------------
(* The guest.                                                              *)

\* EnarxAllocator::new: the first stack needs the allocator, whose first use
\* asks the host for mem_info, before anything else is called.  Without a block
\* it panics (unwrap) with SHIM_LOCAL_STORAGE locked.
MemInfo ==
    /\ gpc = "boot"
    /\ IF shimTls THEN GuestStuck("spin")
       ELSE IF pool # {} THEN PushLocked("meminfo")
       ELSE /\ gpc' = "shim" /\ failing' = "panic" /\ shimTls' = TRUE
            /\ UNCHANGED <<stack, pool, threadTls, content, port, hostVars>>

\* The host refused mem_info, and its unwrap panics where it stands: the block
\* and the lock are still those of EnarxAllocator::new.
MemInfoRefused ==
    stack # << >> /\ Top.kind = "meminfo" /\ Top.calls > 0 /\ content[Top.block] = "err"
MemInfoPanics ==
    /\ gpc = "shim" /\ failing = "no" /\ MemInfoRefused
    /\ failing' = "panic"
    /\ UNCHANGED <<gpc, stack, pool, lockVars, content, port, hostVars>>

\* usermode(), and every return to it: the workload runs.
EnterUser ==
    /\ gpc = "shim" /\ stack = << >> /\ failing = "no"
    /\ gpc' = "user"
    /\ UNCHANGED <<stack, failing, pool, lockVars, content, port, hostVars>>

\* syscall_rust: THREAD_TLS, then a block, without which it panics (unwrap).
Syscall ==
    /\ gpc = "user"
    /\ IF threadTls THEN GuestStuck("spin")
       ELSE /\ gpc' = "shim" /\ threadTls' = TRUE
            /\ IF pool = {} THEN failing' = "panic" /\ UNCHANGED <<stack, pool>>
               ELSE Push("syscall") /\ UNCHANGED failing
            /\ UNCHANGED <<shimTls, content, port, hostVars>>

\* Where the shim makes calls of its own: while it loads the workload, and in
\* a syscall; nothing under SHIM_LOCAL_STORAGE makes a further one.
MayNest == gpc = "shim" /\ (stack # << >> => Top.kind = "syscall")

\* Lock SHIM_LOCAL_STORAGE and get a block.  Without a block balloon panics with
\* the lock held (unwrap), the output after it was released (expect), and the
\* VCEK is EAGAIN.  The output of syscall_rust itself precedes its locks.
ShimCall(kind) ==
    /\ failing = "no"
    /\ MayNest \/ (gpc = "user" /\ kind = "print")
    /\ kind = "print" => Dbg
    /\ IF shimTls THEN GuestStuck("spin")
       ELSE IF pool # {} THEN PushLocked(kind)
       ELSE /\ failing' = IF kind = "vcek" THEN failing ELSE "panic"
            /\ shimTls' = (kind = "balloon")
            /\ UNCHANGED <<gpc, stack, pool, threadTls, content, port, hostVars>>

\* The last answer of the HostCall on top ended shim_write_all with an error.
PrintFailed == Top.kind = "print" /\ Top.calls > 0 /\ content[Top.block] = "err"

\* A syscall and the output may go out several times, all others once.
CallsOf(kind) == IF kind \in {"syscall", "print"} THEN MaxCalls ELSE 1

\* sally: the block number goes to the trigger port and the vCPU exits.
\* exit_group of shim_exit, or exit and exit_group of the workload, is "exit".
Sally(what) ==
    /\ gpc = "shim" /\ stack # << >> /\ Top.calls < CallsOf(Top.kind)
    /\ Top.kind = "exit" => what = "exit"
    /\ what = "exit" => Top.kind \in {"exit", "syscall"}
    /\ Top.kind = "syscall" => failing = "no"
    /\ ~PrintFailed
    /\ content' = [content EXCEPT ![Top.block] = what]
    /\ stack' = [stack EXCEPT ![Depth].calls = @ + 1]
    /\ port' = Top.block
    /\ gpc' = "out"
    /\ UNCHANGED <<failing, pool, lockVars, hostVars>>

\* A HostCall goes out of scope; the syscall's returns to the workload.  A
\* balloon call that was refused is dropped before its result is looked at.
\* Output that failed panics, which is a triple fault in the panic handler.
Drop ==
    /\ gpc = "shim" /\ stack # << >> /\ Top.kind # "exit"
    /\ Top.kind = "syscall" => failing = "no"
    /\ Top.kind # "syscall" => Top.calls > 0
    /\ ~MemInfoRefused
    /\ pool' = PoolWith(Top.block)
    /\ shimTls' = Unlocked(Top.kind)
    /\ threadTls' = IF Top.kind = "syscall" THEN FALSE ELSE threadTls
    /\ gpc' = IF PrintFailed /\ failing = "panic" THEN "tripled"
              ELSE IF Top.kind = "syscall" THEN "user" ELSE "shim"
    /\ failing' = IF PrintFailed THEN "panic" ELSE failing
    /\ stack' = SubSeq(stack, 1, Depth - 1)
    /\ UNCHANGED <<content, port, hostVars>>

\* An exception of the workload, or of the shim on the workload's memory.
Fault ==
    /\ failing = "no"
    /\ gpc = "user" \/ (gpc = "shim" /\ stack # << >> /\ Top.kind = "syscall")
    /\ failing' = "fault" /\ gpc' = "shim"
    /\ UNCHANGED <<stack, pool, lockVars, content, port, hostVars>>

\* unimplemented!(), an unwrap in a memory syscall, or one while loading: those
\* outside of the shim's own calls, whose panics are the steps above.
Panic ==
    /\ MayNest /\ failing = "no"
    /\ failing' = "panic"
    /\ UNCHANGED <<gpc, stack, pool, lockVars, content, port, hostVars>>

\* A handler runs on top of what was there, which a panic does not unwind.
Handling == failing # "no" /\ (MayNest \/ (gpc = "shim" /\ MemInfoRefused))

\* On a debug build both handlers report first; output that gets no block
\* panics too.
FailPrint ==
    /\ Handling /\ Dbg
    /\ IF shimTls THEN GuestStuck("spin")
       ELSE IF pool # {} THEN PushLocked("print")
       ELSE IF failing = "panic" THEN GuestStuck("tripled")
       ELSE /\ failing' = "panic"
            /\ UNCHANGED <<gpc, stack, pool, lockVars, content, port, hostVars>>

\* shim_exit: SHIM_LOCAL_STORAGE, then a block, or a triple fault.
ShimExit ==
    /\ Handling
    /\ IF shimTls THEN GuestStuck("spin")
       ELSE IF pool # {} THEN PushLocked("exit") ELSE GuestStuck("tripled")

-----------------------------------------------------------------------------
(* The host: Thread::enter, called in a loop by keep_exec.                 *)

\* The vCPU exited at the trigger port: the block is taken from
\* Keep.sallyports; if it is not there, unwrap panics.
Take ==
    /\ hpc = "run" /\ gpc = "out"
    /\ hpc' = IF port \in taken THEN "panicked" ELSE "serve"
    /\ taken' = taken \cup {port}
    /\ UNCHANGED <<guestVars, content, port>>

\* The item is executed and leaves its result, good or bad, in the block;
Serve(result) ==
    /\ hpc = "serve" /\ content[port] = "call"
    /\ content' = [content EXCEPT ![port] = result]
    /\ UNCHANGED <<guestVars, port, hostVars>>
\* ... exit and exit_group return Command::Exit at once,
ServeExitGoesOn ==
    /\ hpc = "serve" /\ content[port] = "exit"
    /\ content' = [content EXCEPT ![port] = "ok"]
    /\ UNCHANGED <<guestVars, port, hostVars>>
ServeExit ==
    /\ hpc = "serve" /\ content[port] = "exit"
    /\ hpc' = "exited"
    /\ UNCHANGED <<guestVars, content, port, taken>>
\* ... and an error of execute leaves enter with the block still taken.
ServeFail ==
    /\ hpc = "serve" /\ content[port] = "call"
    /\ hpc' = "failed"
    /\ UNCHANGED <<guestVars, content, port, taken>>

\* The block goes back, Command::Continue, and the vCPU runs on.
ReplacedNot == taken
Replaced == taken \ {port}
ReplaceUnserved ==
    /\ hpc = "serve" /\ content[port] # "exit"
    /\ taken' = Replaced
    /\ hpc' = "run" /\ gpc' = "shim"
    /\ UNCHANGED <<stack, failing, pool, lockVars, content, port>>
Replace ==
    /\ hpc = "serve" /\ content[port] \in {"ok", "err"}
    /\ taken' = Replaced
    /\ hpc' = "run" /\ gpc' = "shim"
    /\ UNCHANGED <<stack, failing, pool, lockVars, content, port>>

\* Any other return of KVM_RUN is an error: a shutdown after a triple fault,
\* or run() interrupted or failing while the guest runs.
VcpuFail ==
    /\ hpc = "run" /\ gpc # "out"
    /\ hpc' = "failed"
    /\ UNCHANGED <<guestVars, content, port, taken>>

\* The keep is gone.
Over == hpc \in Ended /\ UNCHANGED vars

-----------------------------------------------------------------------------
Init ==
    /\ gpc = "boot" /\ stack = << >> /\ failing = "no"
    /\ pool = Blocks /\ threadTls = FALSE /\ shimTls = FALSE
    /\ content = [b \in Blocks |-> "none"]
    /\ port = 0
    /\ hpc = "run" /\ taken = {}

Guest ==
    /\ hpc = "run"
    /\ \/ MemInfo \/ MemInfoPanics
       \/ EnterUser \/ Syscall \/ Drop \/ Fault \/ Panic
       \/ \E kind \in ShimKinds : ShimCall(kind)
       \/ \E what \in {"call", "exit"} : Sally(what)
       \/ FailPrint \/ ShimExit

Host ==
    \/ Take \/ ServeExit \/ ServeFail \/ Replace \/ VcpuFail
    \/ \E result \in {"ok", "err"} : Serve(result)

Next == Guest \/ Host \/ Over

Spec == Init /\ [][Next]_vars

\* The host answers what it was handed, and sees the shutdown after a triple
\* fault; a HostCall that was begun goes on; a handler's report is finite.
FairSpec ==
    /\ Spec
    /\ WF_vars(Take \/ ServeExit \/ ServeFail \/ Replace \/ \E r \in {"ok", "err"} : Serve(r))
    /\ WF_vars(gpc = "tripled" /\ VcpuFail)
    /\ WF_vars(hpc = "run" /\ (Drop \/ \E what \in {"call", "exit"} : Sally(what)))
    /\ SF_vars(hpc = "run" /\ ShimExit)

-----------------------------------------------------------------------------
(* Properties.                                                             *)

\* Every HostCall that can be made finds a block: with NUM_BLOCKS = 2 no unwrap
\* or expect on try_new fails and shim_exit need not triple-fault, whatever
\* calls are nested in whatever (hostcall.rs: HOST_CALL_ALLOC, BlockGuard).
BlockAvailable == gpc \in {"boot", "user"} \/ MayNest => pool # {}

\* The vCPU waits for a lock that it holds itself in one case only: the host
\* refused mem_info, and the handler of that panic wants SHIM_LOCAL_STORAGE,
\* which EnarxAllocator::new holds (allocator.rs: new; hostcall.rs: shim_exit).
\* From the first stack on nothing the shim or the host does makes it spin.
SpinsOnlyRefused == gpc = "spin" => MemInfoRefused

\* Every block is in the pool or belongs to exactly one live HostCall.
BlocksOwned ==
    /\ pool = Blocks \ {stack[i].block : i \in 1 .. Depth}
    /\ \A i, j \in 1 .. Depth : stack[i].block = stack[j].block => i = j

\* The host's table agrees with the guest's pool: while the vCPU runs every
\* block is there, while a call is served only the block of the guest's
\* innermost HostCall is gone, so take().unwrap() never panics (thread.rs: "If
\* some other thread tried to use the same block, the above unwrap would have
\* panicked").
TablesAgree ==
    /\ hpc = "run" => taken = {}
    /\ hpc = "serve" => taken = {port} /\ stack # << >> /\ port = Top.block
    /\ hpc # "panicked"

\* The three together: the pool, the live HostCalls and the host's table divide
\* the blocks among them, and one is free wherever it may be needed.
BlocksSound == BlocksOwned /\ BlockAvailable /\ TablesAgree

\* A fault or a panic ends the keep: both handlers reach the host through
\* exit_group or a triple fault, from wherever they were entered (main.rs,
\* hostcall.rs: "Reverts to a triple fault ... if it cannot talk to the host");
\* all but the panic over a refused mem_info, which spins for ever.
FailureEndsKeep == failing # "no" ~> hpc \in Ended \/ (gpc = "spin" /\ MemInfoRefused)

\* Every sally is one exactly-once host call, the nested ones included: the
\* results in a block are those of the last call of that HostCall.
Service == INSTANCE HostCall WITH
    phase <- IF hpc \in Ended THEN "stopped" ELSE IF gpc = "out" THEN "host" ELSE "guest",
    served <- hpc \notin Ended /\ gpc = "out" /\ content[port] \in {"ok", "err"}
ServiceSpec == Service!Spec

-----------------------------------------------------------------------------
(* The inductive invariant behind these properties.                        *)

\* At most a syscall and one call of the shim's own are alive, and the locks
\* are held for exactly those.
StackInv ==
    /\ Depth <= 2
    /\ threadTls <=> Depth > 0 /\ stack[1].kind = "syscall"
    /\ shimTls <=> Depth > 0 /\ Top.kind # "syscall"
    /\ Depth = 2 => stack[1].kind = "syscall" /\ stack[2].kind # "syscall"

GuestInv ==
    /\ SpinsOnlyRefused
    /\ gpc \in {"boot", "user"} => stack = << >>
    /\ gpc = "out" => stack # << >> /\ port = Top.block

\* What was handed over is a request, until it is served.
HostInv ==
    /\ hpc = "serve" => gpc = "out"
    /\ hpc = "run" /\ gpc = "out" => content[port] \in {"call", "exit"}

ThreadInv == TypeOK /\ StackInv /\ BlocksOwned /\ GuestInv /\ HostInv /\ TablesAgree
=============================================================================
