----------------------------- MODULE SgxThread ------------------------------
(***************************************************************************)
(* One SGX thread: the host's Thread::enter loop (src/backend/sgx), the    *)
(* shim's entry code (_start, main), its exception handlers (handle and    *)
(* finish), and the processor's CSSA/SSA bookkeeping between them.         *)
(*                                                                         *)
(* The workload runs at CSSA 0.  Its syscall and cpuid instructions raise  *)
(* #UD: the processor saves the context in SSA[0] and the host re-enters   *)
(* at CSSA 1, where `handle' interprets the instruction.  When the handler *)
(* needs the host it executes a syscall instruction itself (sally): the    *)
(* context goes to SSA[1], the host re-enters at CSSA 2 and `finish' skips *)
(* that instruction and exits, and only then the host looks at the block.  *)
(* The host never sees the hardware's CSSA: it counts.                     *)
(*                                                                         *)
(* The default build is modelled (features gdb and dbg off).               *)
(***************************************************************************)
EXTENDS Naturals

CONSTANTS
    NSSA,       \* SSA frames of a TCS (layout.ld: 3)
    MaxSally    \* bound: host calls one trapped syscall makes

ASSUME NSSAAssumption == NSSA = 3
ASSUME MaxSallyAssumption == MaxSally \in Nat \ {0}

VARIABLES
    hpc,        \* host: "enter", "inside", "decide", or a way it stopped
    how,        \* host: self.how, the ENCLU leaf of the next entry
    cssa,       \* host: self.cssa, its own count of the CSSA
    last,       \* host: the local `how', the leaf of the entry under way
    run,        \* how the vDSO call returned: "EEXIT", "UD" or "OTHER"
    hw,         \* processor: TCS.CSSA
    ssa,        \* processor: the instruction each saved context stands at
    extra,      \* shim: SSA[n].extra[0], exceptions enabled at level n
    gpc,        \* shim: the code running inside the enclave
    req,        \* what the handler's request asks for: "call" or "exit"
    block,      \* sallyport block: "clear", "staged", "served", "stale"
    sallies     \* host calls the current handler has made

hostVars == <<hpc, how, cssa, last, run>>
shimVars == <<extra, gpc, req, block, sallies>>
vars == <<hostVars, hw, ssa, shimVars>>

Levels == 0 .. NSSA - 1

\* The instructions that raise #UD inside an enclave and that the workload
\* or the shim executes; "illegal" is any other undefined opcode.
Ops == {"syscall", "cpuid", "illegal"}

Stopped == {"exited", "failed", "panicked"}

TypeOK ==
    /\ hpc \in {"enter", "inside", "decide"} \cup Stopped
    /\ how \in {"EENTER", "ERESUME"}
    /\ cssa \in 0 .. NSSA
    /\ last \in {"EENTER", "ERESUME"}
    /\ run \in {"EEXIT", "UD", "OTHER"}
    /\ hw \in 0 .. NSSA
    /\ ssa \in [Levels -> Ops \cup {"unused", "skipped"}]
    /\ extra \in [Levels -> {0, 1}]
    /\ gpc \in {"none", "exec", "handle", "finish", "hung"}
    /\ req \in {"call", "exit"}
    /\ block \in {"clear", "staged", "served", "stale", "again"}
    /\ sallies \in 0 .. MaxSally

-----------------------------------------------------------------------------
(* The host's entry and the shim's entry code.                             *)

\* Keep::spawn: a fresh thread on a TCS popped from the pool, with a zeroed
\* block (a zeroed header is an END item).
Init ==
    /\ hpc = "enter" /\ how = "EENTER" /\ cssa = 0 /\ last = "EENTER"
    /\ run = "EEXIT"
    /\ hw = 0
    /\ ssa = [n \in Levels |-> "unused"]
    /\ extra = [n \in Levels |-> 0]
    /\ gpc = "none" /\ req = "call" /\ block = "clear" /\ sallies = 0

\* main(): the code each CSSA level dispatches to.
Dispatch(n) == CASE n = 0 -> "exec" [] n = 1 -> "handle" [] OTHER -> "finish"

\* _start: above level 0 the entry spins unless the interrupted level had
\* enabled exceptions.
Entered(n) == IF n > 0 /\ extra[n - 1] = 0 THEN "hung" ELSE Dispatch(n)

\* main(): exceptions are enabled while level n runs its Rust code.
EnabledNever(n) == extra
Enabled(n) == [extra EXCEPT ![n] = 1]

\* EENTER: the processor refuses it (#GP) when every SSA frame is in use;
\* otherwise _start runs, main enables exceptions for its level and
\* dispatches.
EEnter ==
    /\ hpc = "enter" /\ how = "EENTER"
    /\ hpc' = IF hw < NSSA THEN "inside" ELSE "decide"
    /\ run' = IF hw < NSSA THEN run ELSE "OTHER"
    /\ last' = how
    /\ gpc' = IF hw < NSSA THEN Entered(hw) ELSE "none"
    /\ extra' = IF hw < NSSA /\ Entered(hw) # "hung"
                THEN Enabled(hw) ELSE extra
    /\ sallies' = IF hw = 1 THEN 0 ELSE sallies
    /\ UNCHANGED <<how, cssa, hw, ssa, req, block>>

\* ERESUME: the processor pops the newest SSA frame and continues there (and
\* refuses, #GP, when no frame is saved).  A context whose instruction was not
\* skipped raises #UD again.  The handler that continues after its sally
\* collects the results from the block, which stay there.
EResume ==
    /\ hpc = "enter" /\ how = "ERESUME"
    /\ LET n == hw - 1
           ok == hw > 0 /\ ssa[n] = "skipped"
       IN  /\ hpc' = IF ok THEN "inside" ELSE "decide"
           /\ run' = IF ok THEN run ELSE IF hw > 0 THEN "UD" ELSE "OTHER"
           /\ hw' = IF ok THEN n ELSE hw
           /\ gpc' = IF ok THEN (IF n = 0 THEN "exec" ELSE "handle") ELSE "none"
           /\ block' = IF ok /\ n = 1 THEN "stale" ELSE block
    /\ last' = how
    /\ UNCHANGED <<how, cssa, ssa, extra, req, sallies>>

-----------------------------------------------------------------------------
(* Inside the enclave.                                                     *)

\* The saved rip of frame n moves past the two-byte instruction.
NotSkipped(n) == ssa
Skipped(n) == [ssa EXCEPT ![n] = "skipped"]

\* An asynchronous exit with #UD at level n: save the context, raise CSSA,
\* return to the host through the vDSO.
AexUD(n, instr) ==
    /\ ssa' = [ssa EXCEPT ![n] = instr]
    /\ hw' = n + 1
    /\ gpc' = "none"
    /\ hpc' = "decide" /\ run' = "UD"

\* The workload executes a syscall, a cpuid or an undefined instruction.
ExecTrap(instr) ==
    /\ hpc = "inside" /\ gpc = "exec"
    /\ AexUD(0, instr)
    /\ UNCHANGED <<how, cssa, last, extra, req, block, sallies>>

\* The workload raises another exception (a page fault, a division error).
ExecFault ==
    /\ hpc = "inside" /\ gpc = "exec"
    /\ ssa' = [ssa EXCEPT ![0] = "illegal"]
    /\ hw' = 1
    /\ gpc' = "none"
    /\ hpc' = "decide" /\ run' = "OTHER"
    /\ UNCHANGED <<how, cssa, last, extra, req, block, sallies>>

\* Handler::handle needs the host: execute() stages a request in the block and
\* sally() runs a syscall instruction at CSSA 1.  An opcode it does not know
\* makes it exit_group(1); cpuid makes one call; a syscall makes any number,
\* the last of which may be exit, exit_group or attacked()'s exit.
HandleSally(r) ==
    /\ hpc = "inside" /\ gpc = "handle"
    /\ \/ ssa[0] = "syscall" /\ sallies < MaxSally
       \/ ssa[0] = "cpuid" /\ sallies = 0 /\ r = "call"
       \/ ssa[0] = "illegal" /\ sallies < MaxSally /\ r = "exit"
    /\ req' = r
    /\ block' = "staged"
    /\ sallies' = sallies + 1
    /\ AexUD(1, "syscall")
    /\ UNCHANGED <<how, cssa, last, extra>>

\* main() disables exceptions for its level again and _start leaves by EEXIT.
Leave(n) ==
    /\ extra' = [extra EXCEPT ![n] = 0]
    /\ gpc' = "none"
    /\ hpc' = "decide" /\ run' = "EEXIT"

\* handle_syscall and handle_cpuid: results go to the saved registers and rip
\* moves past the two-byte instruction.
HandleReturn ==
    /\ hpc = "inside" /\ gpc = "handle"
    /\ ssa[0] = "syscall" \/ (ssa[0] = "cpuid" /\ sallies = 1)
    /\ ssa' = Skipped(0)
    /\ Leave(1)
    /\ UNCHANGED <<how, cssa, last, hw, req, block, sallies>>

\* Handler::finish: skip the handler's syscall instruction (cpuid is accepted
\* too); anything else is answered with an undefined instruction of its own.
Finish ==
    /\ hpc = "inside" /\ gpc = "finish"
    /\ LET ok == ssa[1] \in {"syscall", "cpuid"}
       IN  /\ ssa' = IF ok THEN Skipped(1)
                           ELSE [ssa EXCEPT ![2] = "illegal"]
           /\ hw' = IF ok THEN hw ELSE 3
           /\ extra' = IF ok THEN [extra EXCEPT ![2] = 0] ELSE extra
           /\ run' = IF ok THEN "EEXIT" ELSE "UD"
    /\ gpc' = "none" /\ hpc' = "decide"
    /\ UNCHANGED <<how, cssa, last, req, block, sallies>>

-----------------------------------------------------------------------------
(* Back on the host.                                                       *)

\* The leaf of the next entry: #UD is delivered by EENTER, EEXIT is followed
\* by ERESUME, anything else panics.
NextHow == IF run = "UD" THEN "EENTER" ELSE "ERESUME"

\* The host's own count; `unreachable!()' when it would go below zero.
NextCssaSticky == IF NextHow = "EENTER" THEN cssa + 1 ELSE cssa
NextCssa == IF NextHow = "EENTER" THEN cssa + 1 ELSE cssa - 1

\* The test that decides whether the block holds a request: "the sallyport is
\* only valid when moving from CSSA 2 to CSSA 1".
MustServeAnyLevel == last = "EENTER" /\ NextHow = "ERESUME"
MustServe == NextCssa > 0 /\ last = "EENTER" /\ NextHow = "ERESUME"

\* Executing whatever request the block holds: a second execution of one that
\* was collected already is "again"; a block never used holds END.
Evaluated ==
    CASE block = "staged" -> "served"
      [] block = "clear"  -> "clear"
      [] OTHER            -> "again"

\* The rest of Thread::enter when the block is not evaluated.
DecideContinue ==
    /\ hpc = "decide" /\ run \in {"UD", "EEXIT"}
    /\ ~(NextHow = "ERESUME" /\ cssa = 0) /\ ~MustServe
    /\ how' = NextHow /\ cssa' = NextCssa
    /\ hpc' = "enter"
    /\ UNCHANGED <<last, run, hw, ssa, shimVars>>

\* ... and when it is: exit and exit_group return Command::Exit, other items
\* are executed and the loop continues,
DecideServe ==
    /\ hpc = "decide" /\ run = "EEXIT" /\ cssa > 0 /\ MustServe
    /\ how' = NextHow /\ cssa' = NextCssa
    /\ IF req = "exit" /\ block # "clear"
       THEN hpc' = "exited" /\ UNCHANGED block
       ELSE hpc' = "enter" /\ block' = Evaluated
    /\ UNCHANGED <<last, run, hw, ssa, extra, gpc, req, sallies>>

\* ... or an error of the executed call ends keep_exec.
DecideFail ==
    /\ hpc = "decide" /\ run = "EEXIT" /\ cssa > 0 /\ MustServe
    /\ req = "call"
    /\ how' = NextHow /\ cssa' = NextCssa
    /\ hpc' = "failed" /\ block' = Evaluated
    /\ UNCHANGED <<last, run, hw, ssa, extra, gpc, req, sallies>>

\* `panic!("Unexpected ...")' for any other vector, and the unreachable!().
DecidePanic ==
    /\ hpc = "decide"
    /\ run = "OTHER" \/ (NextHow = "ERESUME" /\ cssa = 0)
    /\ hpc' = "panicked"
    /\ UNCHANGED <<how, cssa, last, run, hw, ssa, shimVars>>

\* The thread has ended.
Done == hpc \in Stopped /\ UNCHANGED vars

-----------------------------------------------------------------------------
Enclave ==
    \/ \E instr \in Ops : ExecTrap(instr)
    \/ ExecFault
    \/ \E r \in {"call", "exit"} : HandleSally(r)
    \/ HandleReturn
    \/ Finish

Host == EEnter \/ EResume \/ DecideContinue \/ DecideServe \/ DecideFail \/ DecidePanic

Next == Enclave \/ Host \/ Done

Spec == Init /\ [][Next]_vars

\* The host loops in keep_exec until the thread stops, and the shim's handlers
\* run to their end; the workload need never trap.
Fairness == WF_vars(Host) /\ WF_vars(HandleReturn \/ Finish \/ \E r \in {"call", "exit"} : HandleSally(r))

FairSpec == Spec /\ Fairness

-----------------------------------------------------------------------------
(* Properties.                                                             *)

\* The host's count never drifts from the processor's CSSA: they are equal
\* whenever the host is about to EENTER or the enclave runs, and the host is
\* one below when it is about to ERESUME (which pops the frame), so the code
\* that infers from the count whether the block holds a request infers right
\* (thread.rs, "Keep track of the CSSA").
CssaTracked ==
    hpc \in {"enter", "inside"} =>
        cssa = IF hpc = "enter" /\ how = "ERESUME" THEN hw - 1 ELSE hw

\* _start's endless loop for exceptions raised while disabled is never
\* entered, a thread never runs out of SSA frames, and the host never meets
\* its unreachable!(): the only panic is the one for a foreign exception of
\* the workload.
NoDeadEnds ==
    /\ gpc # "hung"
    /\ hpc = "panicked" => run = "OTHER" /\ hw = 1
    /\ hpc = "enter" /\ how = "EENTER" => hw < NSSA

\* No interrupted instruction is executed a second time: ERESUME only ever
\* returns to a context whose instruction the shim skipped.
ResumesPastTrap ==
    hpc = "enter" /\ how = "ERESUME" => hw > 0 /\ ssa[hw - 1] = "skipped"

\* Every sally is one exactly-once host call: the block is evaluated once
\* between the handler's sally and its continuation, and at no other exit.
Service == INSTANCE HostCall WITH
    phase <- IF hpc \in Stopped THEN "stopped"
             ELSE IF block \in {"staged", "served", "again"} THEN "host" ELSE "guest",
    served <- hpc \notin Stopped /\ block \in {"served", "again"}

ServiceSpec == Service!Spec

\* A trapped instruction of the workload is eventually answered: the workload
\* resumes after it or the keep ends.
TrapAnswered == (hw > 0) ~> ((hw = 0 /\ gpc = "exec") \/ hpc \in Stopped)

-----------------------------------------------------------------------------
(* The inductive invariant behind the safety properties.                   *)

\* The newest frame is being left: its level ran EEXIT or ERESUME is next.
Leaving == (hpc = "decide" /\ run = "EEXIT") \/ (hpc = "enter" /\ how = "ERESUME")

\* How deep the thread is, by where the host stands.
DepthInv ==
    /\ hpc = "enter" =>
          /\ gpc = "none"
          /\ IF how = "ERESUME" THEN hw \in {1, 2} /\ cssa = hw - 1
                                ELSE hw \in {0, 1, 2} /\ cssa = hw
    /\ hpc = "inside" => hw \in {0, 1, 2} /\ cssa = hw /\ gpc = Dispatch(hw)
    /\ hpc = "decide" =>
          /\ gpc = "none"
          /\ run = "UD" => hw \in {1, 2} /\ cssa = hw - 1
          /\ run = "EEXIT" => hw \in {1, 2} /\ cssa = hw
          /\ run = "OTHER" => hw = 1
    /\ hpc = "panicked" => run = "OTHER" /\ hw = 1
    /\ gpc # "hung"

\* Which levels have exceptions enabled.
ExtraInv ==
    hpc \notin Stopped =>
        /\ extra[0] = IF hw > 0 \/ hpc = "inside" THEN 1 ELSE 0
        /\ extra[1] = IF hw > 1 \/ (hw = 1 /\ hpc = "inside") THEN 1 ELSE 0
        /\ extra[2] = IF hw = 2 /\ hpc = "inside" THEN 1 ELSE 0

\* Where the saved contexts stand.
SsaInv ==
    hpc \notin Stopped =>
        /\ hw = 1 => IF Leaving THEN ssa[0] = "skipped" ELSE ssa[0] \in Ops
        /\ hw = 2 => /\ ssa[0] \in Ops
                     /\ ssa[1] = IF Leaving THEN "skipped" ELSE "syscall"

\* Whose the block is, and that the entry that runs finish was an EENTER.
BlockInv ==
    hpc \notin Stopped =>
        /\ hw < 2 => block \in {"clear", "stale"}
        /\ hw = 2 => block = IF hpc = "enter" /\ how = "ERESUME" THEN "served" ELSE "staged"
        /\ hw = 2 /\ (hpc = "inside" \/ (hpc = "decide" /\ run = "EEXIT")) => last = "EENTER"

ThreadInv == TypeOK /\ DepthInv /\ ExtraInv /\ SsaInv /\ BlockInv
=============================================================================
