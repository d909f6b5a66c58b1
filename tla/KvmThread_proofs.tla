-------------------------- MODULE KvmThread_proofs --------------------------
(***************************************************************************)
(* TLAPS proofs about KvmThread, for any number of blocks from two, any    *)
(* number of calls per HostCall and both builds: the inductive invariant   *)
(* ThreadInv, the safety properties it implies, and that the vCPU          *)
(* implements the abstract HostCall service.                               *)
(***************************************************************************)
EXTENDS KvmThread, SequenceTheorems, TLAPS

USE NumBlocksAssumption, BuildAssumption DEF NumBlocksAssumption, BuildAssumption

\* With at most one HostCall alive at most one block is away.
LEMMA BlockLeft ==
  ASSUME TypeOK, BlocksOwned, Depth <= 1
  PROVE  0 \in pool \/ 1 \in pool
<1>1. 0 \in Blocks /\ 1 \in Blocks  BY DEF Blocks
<1>2. Depth \in {0, 1}
  <2>1. Depth \in Nat  BY LenProperties DEF TypeOK, Depth
  <2> QED  BY <2>1
<1>3. CASE Depth = 0
  BY <1>1, <1>3 DEF BlocksOwned
<1>4. CASE Depth = 1
  <2>1. {stack[i].block : i \in 1 .. Depth} = {stack[1].block}  BY <1>4
  <2> QED  BY <1>1, <2>1 DEF BlocksOwned
<1> QED  BY <1>2, <1>3, <1>4

\* try_alloc returns a block of the pool.
LEMMA FirstBlockInPool ==
  ASSUME TypeOK, BlocksOwned, Depth <= 1
  PROVE  FirstBlock \in pool
<1>1. 0 \in Blocks /\ 1 \in Blocks /\ pool \subseteq Nat
  BY DEF Blocks, TypeOK
<1>2. 0 \in pool \/ 1 \in pool
  BY <1>1, BlockLeft
<1>3. \E b \in pool : \A c \in pool : b <= c
  BY <1>1, <1>2
<1> QED  BY <1>3 DEF FirstBlock

\* Where a HostCall can be made, at most one is alive.
LEMMA ShallowWhereNested ==
  ASSUME TypeOK, StackInv, GuestInv, gpc \in {"boot", "user"} \/ MayNest
  PROVE  Depth <= 1
<1>1. Depth \in Nat  BY LenProperties DEF TypeOK, Depth
<1>2. CASE gpc \in {"boot", "user"}
  BY <1>2, EmptySeq DEF GuestInv, Depth
<1>3. CASE MayNest
  <2>1. CASE stack = << >>
    BY <2>1, EmptySeq DEF Depth
  <2>2. CASE Top.kind = "syscall"
    <3>1. Depth = 2 => Top = stack[2]  BY DEF Top, Depth
    <3> QED  BY <1>1, <2>2, <3>1 DEF StackInv
  <2> QED  BY <1>3, <2>1, <2>2 DEF MayNest
<1> QED  BY <1>2, <1>3

\* Every HostCall that can be made finds a block.
LEMMA BlockThere ==
  ASSUME ThreadInv, gpc \in {"boot", "user"} \/ MayNest
  PROVE  pool # {} /\ Depth <= 1 /\ FirstBlock \in pool
BY ShallowWhereNested, BlockLeft, FirstBlockInPool DEF ThreadInv

\* A stack with one more HostCall.
LEMMA PushFacts ==
  ASSUME TypeOK, BlocksOwned, FirstBlock \in pool, NEW kind \in Kinds, Push(kind)
  PROVE  /\ stack' \in Seq(Contexts)
         /\ Len(stack') = Depth + 1
         /\ \A i \in 1 .. Depth : stack'[i] = stack[i]
         /\ stack'[Depth + 1].kind = kind
         /\ pool' \subseteq Blocks
         /\ BlocksOwned'
<1> DEFINE new == [kind |-> kind, block |-> FirstBlock, calls |-> 0]
<1>1. new \in Contexts  BY DEF TypeOK, Contexts
<1>2. stack' = Append(stack, new) /\ pool' = pool \ {FirstBlock}  BY DEF Push
<1> HIDE DEF new
<1>3. stack \in Seq(Contexts) /\ Depth = Len(stack) /\ Depth \in Nat  BY DEF TypeOK, Depth
<1>4. stack' \in Seq(Contexts) /\ Len(stack') = Depth + 1
      /\ (\A i \in 1 .. Depth : stack'[i] = stack[i]) /\ stack'[Depth + 1] = new
  BY <1>1, <1>2, <1>3, AppendProperties
<1>5. new.kind = kind /\ new.block = FirstBlock  BY DEF new
<1>6. 1 .. Depth' = (1 .. Depth) \cup {Depth + 1}  BY <1>3, <1>4 DEF Depth
<1>7. \A i \in 1 .. Depth : stack[i].block # FirstBlock  BY DEF BlocksOwned
<1>8. {stack'[i].block : i \in 1 .. Depth'} = {stack[i].block : i \in 1 .. Depth} \cup {FirstBlock}
  BY <1>3, <1>4, <1>5, <1>6
<1>9. BlocksOwned'
  <2>1. pool' = Blocks \ {stack'[i].block : i \in 1 .. Depth'}
    BY <1>2, <1>8 DEF BlocksOwned
  <2>2. \A i, j \in 1 .. Depth' : stack'[i].block = stack'[j].block => i = j
    BY <1>3, <1>4, <1>5, <1>6, <1>7 DEF BlocksOwned
  <2> QED  BY <2>1, <2>2 DEF BlocksOwned
<1> QED  BY <1>2, <1>4, <1>5, <1>9 DEF TypeOK

\* A stack with one HostCall fewer.
LEMMA PopFacts ==
  ASSUME TypeOK, BlocksOwned, stack # << >>,
         stack' = SubSeq(stack, 1, Depth - 1), pool' = PoolWith(Top.block)
  PROVE  /\ stack' \in Seq(Contexts)
         /\ Len(stack') = Depth - 1
         /\ \A i \in 1 .. Depth - 1 : stack'[i] = stack[i]
         /\ pool' \subseteq Blocks
         /\ BlocksOwned'
<1>1. stack \in Seq(Contexts) /\ Depth = Len(stack) /\ Depth \in Nat /\ Depth >= 1
  BY EmptySeq DEF TypeOK, Depth
<1>2. stack' \in Seq(Contexts) /\ Len(stack') = Depth - 1
      /\ \A i \in 1 .. Depth - 1 : stack'[i] = stack[i]
  BY <1>1
<1>3. 1 .. Depth = (1 .. Depth') \cup {Depth} /\ Depth \notin 1 .. Depth' /\ Depth' = Depth - 1
  BY <1>1, <1>2 DEF Depth
<1>4. Top = stack[Depth]  BY DEF Top, Depth
<1>5. Top.block \in Blocks
  <2>1. Top \in Contexts  BY <1>1, <1>4, ElementOfSeq
  <2> QED  BY <2>1 DEF Contexts
<1>6. \A i \in 1 .. Depth' : stack'[i] = stack[i] /\ stack[i].block # Top.block
  BY <1>2, <1>3, <1>4 DEF BlocksOwned
<1>7. {stack[i].block : i \in 1 .. Depth} = {stack'[i].block : i \in 1 .. Depth'} \cup {Top.block}
  BY <1>3, <1>4, <1>6
<1>8. Top.block \notin {stack'[i].block : i \in 1 .. Depth'}  BY <1>6
<1>9. pool' = pool \cup {Top.block}  BY DEF PoolWith
<1>10. pool' = Blocks \ {stack'[i].block : i \in 1 .. Depth'}
  BY <1>5, <1>7, <1>8, <1>9 DEF BlocksOwned
<1>11. \A i, j \in 1 .. Depth' : stack'[i].block = stack'[j].block => i = j
  BY <1>3, <1>6 DEF BlocksOwned
<1> QED  BY <1>2, <1>5, <1>9, <1>10, <1>11 DEF BlocksOwned, TypeOK

\* A stack whose top goes out to the host once more.
LEMMA CountFacts ==
  ASSUME TypeOK, BlocksOwned, stack # << >>, Top.calls < MaxCalls,
         stack' = [stack EXCEPT ![Depth].calls = @ + 1], pool' = pool
  PROVE  /\ stack' \in Seq(Contexts)
         /\ Len(stack') = Depth
         /\ \A i \in 1 .. Depth : stack'[i].kind = stack[i].kind /\ stack'[i].block = stack[i].block
         /\ BlocksOwned'
<1>1. stack \in Seq(Contexts) /\ Depth = Len(stack) /\ Depth \in Nat /\ Depth >= 1
  BY EmptySeq DEF TypeOK, Depth
<1> DEFINE top == [stack[Depth] EXCEPT !.calls = @ + 1]
<1>2. stack[Depth] \in Contexts /\ stack[Depth].calls < MaxCalls  BY <1>1 DEF Top, Depth
<1>3. top \in Contexts /\ top.kind = stack[Depth].kind /\ top.block = stack[Depth].block
  BY <1>2 DEF Contexts
<1>4. stack' = [stack EXCEPT ![Depth] = top]  OBVIOUS
<1> HIDE DEF top
<1>5. stack' \in Seq(Contexts) /\ Len(stack') = Depth
      /\ \A i \in 1 .. Depth : stack'[i] = IF i = Depth THEN top ELSE stack[i]
  BY <1>1, <1>3, <1>4
<1>6. \A i \in 1 .. Depth : stack'[i].kind = stack[i].kind /\ stack'[i].block = stack[i].block
  BY <1>3, <1>5
<1>7. Depth' = Depth  BY <1>5 DEF Depth
<1>8. {stack'[i].block : i \in 1 .. Depth'} = {stack[i].block : i \in 1 .. Depth}
  BY <1>6, <1>7
<1> QED  BY <1>5, <1>6, <1>7, <1>8 DEF BlocksOwned

-----------------------------------------------------------------------------
(* The inductive invariant.                                                *)

LEMMA InitEstablishesInv == Init => ThreadInv
<1> SUFFICES ASSUME Init PROVE ThreadInv  OBVIOUS
<1>1. stack = << >> /\ Depth = 0 /\ stack \in Seq(Contexts)
  BY EmptySeq DEF Init, Depth
<1>2. TypeOK
  <2>1. 0 \in Blocks  BY DEF Blocks
  <2> QED  BY <1>1, <2>1 DEF Init, TypeOK
<1>3. StackInv  BY <1>1 DEF Init, StackInv
<1>4. BlocksOwned  BY <1>1 DEF Init, BlocksOwned
<1>5. GuestInv /\ HostInv /\ TablesAgree
  BY <1>1 DEF Init, GuestInv, SpinsOnlyRefused, HostInv, TablesAgree
<1> QED  BY <1>2, <1>3, <1>4, <1>5 DEF ThreadInv

\* What a step preserves that leaves the stack, the pool and the locks alone.
LEMMA SameStack ==
  ASSUME ThreadInv, UNCHANGED <<stack, pool, lockVars>>
  PROVE  StackInv' /\ BlocksOwned' /\ Depth' = Depth /\ Top' = Top
<1>1. UNCHANGED <<stack, pool, threadTls, shimTls>>  BY DEF lockVars
<1> QED  BY <1>1 DEF ThreadInv, StackInv, BlocksOwned, Depth, Top

\* Where a HostCall of the shim's own is made, its lock is free.
LEMMA LockFree ==
  ASSUME ThreadInv, gpc \in {"boot", "user"} \/ MayNest
  PROVE  ~shimTls
<1>1. CASE stack = << >>
  BY <1>1, EmptySeq DEF ThreadInv, StackInv, Depth
<1>2. CASE Top.kind = "syscall"
  BY <1>2 DEF ThreadInv, StackInv
<1> QED  BY <1>1, <1>2 DEF ThreadInv, GuestInv, MayNest

\* A HostCall of the shim's own.
LEMMA PushLockedPreserves ==
  ASSUME ThreadInv, hpc = "run", gpc \in {"boot", "user"} \/ MayNest,
         NEW kind \in Kinds \ {"syscall"}, PushLocked(kind)
  PROVE  ThreadInv'
<1>1. Depth <= 1 /\ FirstBlock \in pool  BY BlockThere
<1>2. Push(kind) /\ shimTls' = TRUE /\ gpc' = "shim"
      /\ UNCHANGED <<failing, threadTls, content, port, hpc, taken>>
  BY DEF PushLocked, hostVars
<1>3. /\ stack' \in Seq(Contexts) /\ Len(stack') = Depth + 1
      /\ \A i \in 1 .. Depth : stack'[i] = stack[i]
      /\ stack'[Depth + 1].kind = kind
      /\ pool' \subseteq Blocks /\ BlocksOwned'
  BY <1>1, <1>2, PushFacts DEF ThreadInv
<1>4. Depth \in Nat /\ Depth' = Depth + 1 /\ Top' = stack'[Depth + 1]
  BY <1>3, LenProperties DEF ThreadInv, TypeOK, Depth, Top
<1>5. stack # << >> => Top.kind = "syscall"  BY DEF MayNest, ThreadInv, GuestInv
<1>6. TypeOK'  BY <1>2, <1>3 DEF ThreadInv, TypeOK
<1>7. StackInv'
  <2>1. CASE Depth = 0
    BY <1>2, <1>3, <1>4, <2>1 DEF ThreadInv, StackInv
  <2>2. CASE Depth = 1
    <3>1. Top = stack[1] /\ stack'[1] = stack[1] /\ stack # << >>
      <4>1. Top = stack[1]  BY <2>2 DEF Top, Depth
      <4>2. stack'[1] = stack[1]  BY <1>3, <2>2
      <4>3. stack # << >>  BY <2>2, EmptySeq DEF Depth
      <4> QED  BY <4>1, <4>2, <4>3
    <3>2. threadTls /\ stack[1].kind = "syscall"
      BY <1>5, <2>2, <3>1 DEF ThreadInv, StackInv
    <3> QED  BY <1>2, <1>3, <1>4, <2>2, <3>1, <3>2 DEF StackInv
  <2> QED  BY <1>1, <1>4, <2>1, <2>2
<1>8. GuestInv' /\ HostInv' /\ TablesAgree'
  BY <1>2 DEF ThreadInv, GuestInv, SpinsOnlyRefused, HostInv, TablesAgree
<1> QED  BY <1>3, <1>6, <1>7, <1>8 DEF ThreadInv

LEMMA SyscallPreserves ==
  ASSUME ThreadInv, hpc = "run", Syscall
  PROVE  ThreadInv'
<1>1. Depth <= 1 /\ FirstBlock \in pool /\ pool # {}  BY BlockThere DEF Syscall
<1>2. stack = << >> /\ Depth = 0  BY EmptySeq DEF Syscall, ThreadInv, GuestInv, Depth
<1>3. ~threadTls /\ ~shimTls  BY <1>2 DEF ThreadInv, StackInv
<1>4. Push("syscall") /\ threadTls' = TRUE /\ gpc' = "shim"
      /\ UNCHANGED <<failing, shimTls, content, port, hpc, taken>>
  BY <1>1, <1>3 DEF Syscall, hostVars
<1>5. "syscall" \in Kinds  BY DEF Kinds
<1>6. /\ stack' \in Seq(Contexts) /\ Len(stack') = 1
      /\ stack'[1].kind = "syscall"
      /\ pool' \subseteq Blocks /\ BlocksOwned'
  BY <1>1, <1>2, <1>4, <1>5, PushFacts DEF ThreadInv
<1>7. Depth' = 1 /\ Top' = stack'[1]  BY <1>6 DEF Depth, Top
<1>8. TypeOK'  BY <1>4, <1>6 DEF ThreadInv, TypeOK
<1>9. StackInv'  BY <1>3, <1>4, <1>6, <1>7 DEF StackInv
<1>10. GuestInv' /\ HostInv' /\ TablesAgree'
  BY <1>4 DEF ThreadInv, GuestInv, SpinsOnlyRefused, HostInv, TablesAgree
<1> QED  BY <1>6, <1>8, <1>9, <1>10 DEF ThreadInv

LEMMA ShimCallPreserves ==
  ASSUME ThreadInv, hpc = "run", NEW kind \in ShimKinds, ShimCall(kind)
  PROVE  ThreadInv'
<1>1. gpc = "user" \/ MayNest  BY DEF ShimCall
<1>2. PushLocked(kind)  BY <1>1, BlockThere, LockFree DEF ShimCall
<1>3. kind \in Kinds \ {"syscall"}  BY DEF ShimKinds, Kinds
<1> QED  BY <1>1, <1>2, <1>3, PushLockedPreserves

LEMMA MemInfoPreserves ==
  ASSUME ThreadInv, hpc = "run", MemInfo
  PROVE  ThreadInv'
<1>1. gpc = "boot"  BY DEF MemInfo
<1>2. PushLocked("meminfo")  BY <1>1, BlockThere, LockFree DEF MemInfo
<1>3. "meminfo" \in Kinds \ {"syscall"}  BY DEF ShimKinds, Kinds
<1> QED  BY <1>1, <1>2, <1>3, PushLockedPreserves

\* The handler of a refused mem_info finds SHIM_LOCAL_STORAGE locked.
LEMMA LockHeld ==
  ASSUME ThreadInv, MemInfoRefused
  PROVE  shimTls
<1>1. Depth \in Nat /\ Depth > 0  BY EmptySeq DEF ThreadInv, TypeOK, MemInfoRefused, Depth
<1>2. Top.kind # "syscall"  BY DEF MemInfoRefused
<1> QED  BY <1>1, <1>2 DEF ThreadInv, StackInv

LEMMA SpinPreserves ==
  ASSUME ThreadInv, hpc = "run", MemInfoRefused, GuestStuck("spin")
  PROVE  ThreadInv'
<1>1. gpc' = "spin" /\ UNCHANGED <<stack, failing, pool, lockVars, content, port, hpc, taken>>
  BY DEF GuestStuck, hostVars
<1>2. StackInv' /\ BlocksOwned' /\ Top' = Top  BY <1>1, SameStack
<1>3. TypeOK'  BY <1>1 DEF ThreadInv, TypeOK, lockVars
<1>4. MemInfoRefused'  BY <1>1, <1>2 DEF MemInfoRefused
<1>5. GuestInv' /\ HostInv' /\ TablesAgree'
  BY <1>1, <1>4 DEF ThreadInv, GuestInv, SpinsOnlyRefused, HostInv, TablesAgree
<1> QED  BY <1>2, <1>3, <1>5 DEF ThreadInv

LEMMA FailPrintPreserves ==
  ASSUME ThreadInv, hpc = "run", FailPrint
  PROVE  ThreadInv'
<1>1. CASE MayNest
  <2>1. PushLocked("print")  BY <1>1, BlockThere, LockFree DEF FailPrint
  <2>2. "print" \in Kinds \ {"syscall"}  BY DEF ShimKinds, Kinds
  <2> QED  BY <1>1, <2>1, <2>2, PushLockedPreserves
<1>2. CASE MemInfoRefused
  BY <1>2, LockHeld, SpinPreserves DEF FailPrint
<1> QED  BY <1>1, <1>2 DEF FailPrint, Handling

LEMMA ShimExitPreserves ==
  ASSUME ThreadInv, hpc = "run", ShimExit
  PROVE  ThreadInv'
<1>1. CASE MayNest
  <2>1. PushLocked("exit")  BY <1>1, BlockThere, LockFree DEF ShimExit
  <2>2. "exit" \in Kinds \ {"syscall"}  BY DEF ShimKinds, Kinds
  <2> QED  BY <1>1, <2>1, <2>2, PushLockedPreserves
<1>2. CASE MemInfoRefused
  BY <1>2, LockHeld, SpinPreserves DEF ShimExit
<1> QED  BY <1>1, <1>2 DEF ShimExit, Handling

LEMMA SallyPreserves ==
  ASSUME ThreadInv, hpc = "run", NEW what \in {"call", "exit"}, Sally(what)
  PROVE  ThreadInv'
<1>0. Top.calls < MaxCalls
  <2>1. Top \in Contexts
    <3>1. Len(stack) \in 1 .. Len(stack)  BY EmptySeq DEF Sally, ThreadInv, TypeOK
    <3> QED  BY <3>1, ElementOfSeq DEF ThreadInv, TypeOK, Top
  <2>2. Top.calls \in Nat  BY <2>1 DEF Contexts
  <2>3. Top.calls < CallsOf(Top.kind)  BY DEF Sally
  <2> QED  BY <2>2, <2>3 DEF CallsOf
<1>1. /\ gpc = "shim" /\ stack # << >> /\ Top.calls < MaxCalls
      /\ content' = [content EXCEPT ![Top.block] = what]
      /\ stack' = [stack EXCEPT ![Depth].calls = @ + 1]
      /\ port' = Top.block /\ gpc' = "out"
      /\ UNCHANGED <<failing, pool, threadTls, shimTls, hpc, taken>>
  BY <1>0 DEF Sally, lockVars, hostVars
<1>2. /\ stack' \in Seq(Contexts) /\ Len(stack') = Depth
      /\ \A i \in 1 .. Depth : stack'[i].kind = stack[i].kind /\ stack'[i].block = stack[i].block
      /\ BlocksOwned'
  BY <1>1, CountFacts DEF ThreadInv
<1>3. Depth \in Nat /\ Depth >= 1 /\ Depth' = Depth /\ Top = stack[Depth] /\ Top' = stack'[Depth]
  BY <1>1, <1>2, EmptySeq DEF ThreadInv, TypeOK, Depth, Top
<1>4. Top' .block = Top.block /\ Top' .kind = Top.kind /\ stack'[1].kind = stack[1].kind
  BY <1>2, <1>3
<1>5. Top.block \in Blocks
  <2>1. Top \in Contexts  BY <1>3, ElementOfSeq DEF ThreadInv, TypeOK, Depth
  <2> QED  BY <2>1 DEF Contexts
<1>6. content'[Top.block] = what  BY <1>1, <1>5 DEF ThreadInv, TypeOK
<1>7. TypeOK'  BY <1>1, <1>2, <1>5 DEF ThreadInv, TypeOK
<1>8. StackInv'
  <2>1. Depth = 2 => stack'[2].kind = stack[2].kind  BY <1>2, <1>3
  <2> QED  BY <1>1, <1>3, <1>4, <2>1 DEF ThreadInv, StackInv
<1>9. stack' # << >>  BY <1>2, <1>3, EmptySeq
<1>10. GuestInv' /\ HostInv' /\ TablesAgree'
  BY <1>1, <1>4, <1>6, <1>9 DEF ThreadInv, GuestInv, SpinsOnlyRefused, HostInv, TablesAgree
<1> QED  BY <1>2, <1>7, <1>8, <1>10 DEF ThreadInv

LEMMA DropPreserves ==
  ASSUME ThreadInv, hpc = "run", Drop
  PROVE  ThreadInv'
<1>1. /\ gpc = "shim" /\ stack # << >>
      /\ pool' = PoolWith(Top.block)
      /\ shimTls' = Unlocked(Top.kind)
      /\ threadTls' = IF Top.kind = "syscall" THEN FALSE ELSE threadTls
      /\ gpc' \in {"tripled", "user", "shim"}
      /\ gpc' = "user" => Top.kind = "syscall"
      /\ failing' \in {failing, "panic"}
      /\ stack' = SubSeq(stack, 1, Depth - 1)
      /\ UNCHANGED <<content, port, hpc, taken>>
  BY DEF Drop, hostVars
<1>2. /\ stack' \in Seq(Contexts) /\ Len(stack') = Depth - 1
      /\ \A i \in 1 .. Depth - 1 : stack'[i] = stack[i]
      /\ pool' \subseteq Blocks /\ BlocksOwned'
  BY <1>1, PopFacts DEF ThreadInv
<1>3. Depth \in Nat /\ Depth >= 1 /\ Depth' = Depth - 1 /\ Top = stack[Depth] /\ Top' = stack'[Depth']
  BY <1>1, <1>2, EmptySeq DEF ThreadInv, TypeOK, Depth, Top
<1>4. Depth \in {1, 2}  BY <1>3 DEF ThreadInv, StackInv
<1>5. CASE Depth = 1
  <2>1. Depth' = 0 /\ stack' = << >>  BY <1>2, <1>3, <1>5, EmptySeq
  <2>2. threadTls' = FALSE /\ shimTls' = FALSE
    BY <1>1, <1>3, <1>5 DEF ThreadInv, TypeOK, StackInv, Unlocked
  <2>3. TypeOK'  BY <1>1, <1>2, <2>2 DEF ThreadInv, TypeOK
  <2>4. StackInv'  BY <2>1, <2>2 DEF StackInv
  <2>5. GuestInv' /\ HostInv' /\ TablesAgree'
    BY <1>1, <2>1 DEF ThreadInv, GuestInv, SpinsOnlyRefused, HostInv, TablesAgree
  <2> QED  BY <1>2, <2>3, <2>4, <2>5 DEF ThreadInv
<1>6. CASE Depth = 2
  <2>1. Top.kind # "syscall" /\ stack[1].kind = "syscall" /\ threadTls
    BY <1>3, <1>6 DEF ThreadInv, StackInv
  <2>2. Depth' = 1 /\ stack'[1] = stack[1] /\ Top' = stack[1]  BY <1>2, <1>3, <1>6
  <2>3. threadTls' = threadTls /\ ~shimTls' /\ shimTls' \in BOOLEAN
    BY <1>1, <2>1 DEF Unlocked
  <2>4. TypeOK'  BY <1>1, <1>2, <2>3 DEF ThreadInv, TypeOK
  <2>5. StackInv'  BY <2>1, <2>2, <2>3 DEF StackInv
  <2>6. GuestInv' /\ HostInv' /\ TablesAgree'
    BY <1>1, <2>1 DEF ThreadInv, GuestInv, SpinsOnlyRefused, HostInv, TablesAgree
  <2> QED  BY <1>2, <2>4, <2>5, <2>6 DEF ThreadInv
<1> QED  BY <1>4, <1>5, <1>6

\* EnterUser, Fault and the panics: only where the guest is changes.
LEMMA MovePreserves ==
  ASSUME ThreadInv, hpc = "run", EnterUser \/ Fault \/ Panic \/ MemInfoPanics
  PROVE  ThreadInv'
<1>1. /\ gpc' \in {"shim", "user"}
      /\ gpc' = "user" => stack = << >>
      /\ failing' \in {"no", "fault", "panic"}
      /\ UNCHANGED <<stack, pool, lockVars, content, port, hpc, taken>>
  BY DEF EnterUser, Fault, Panic, MemInfoPanics, MayNest, hostVars, ThreadInv, TypeOK
<1>2. StackInv' /\ BlocksOwned'  BY <1>1, SameStack
<1>3. TypeOK'  BY <1>1 DEF ThreadInv, TypeOK, lockVars
<1>4. GuestInv' /\ HostInv' /\ TablesAgree'
  BY <1>1 DEF ThreadInv, GuestInv, SpinsOnlyRefused, HostInv, TablesAgree
<1> QED  BY <1>2, <1>3, <1>4 DEF ThreadInv

LEMMA HostPreserves ==
  ASSUME ThreadInv, Host
  PROVE  ThreadInv'
<1>0. UNCHANGED <<stack, pool, lockVars, failing, port>>
  BY DEF Host, Take, ServeExit, ServeFail, Replace, VcpuFail, Serve, guestVars
<1>1. StackInv' /\ BlocksOwned' /\ Top' = Top  BY <1>0, SameStack
<1>2. CASE Take
  <2>1. hpc = "run" /\ gpc = "out" /\ hpc' = "serve" /\ taken' = {port} /\ UNCHANGED <<gpc, content>>
    BY <1>2 DEF Take, ThreadInv, TablesAgree, guestVars
  <2>2. TypeOK'  BY <1>0, <2>1 DEF ThreadInv, TypeOK, lockVars
  <2>3. GuestInv' /\ HostInv' /\ TablesAgree'
    BY <1>0, <1>1, <2>1 DEF ThreadInv, GuestInv, SpinsOnlyRefused, MemInfoRefused, HostInv, TablesAgree
  <2> QED  BY <1>1, <2>2, <2>3 DEF ThreadInv
<1>3. CASE ServeExit \/ ServeFail \/ VcpuFail
  <2>1. hpc' \in {"exited", "failed"} /\ UNCHANGED <<gpc, content, taken>>
    BY <1>3 DEF ServeExit, ServeFail, VcpuFail, guestVars
  <2>2. TypeOK'  BY <1>0, <2>1 DEF ThreadInv, TypeOK, lockVars, Ended
  <2>3. GuestInv' /\ HostInv' /\ TablesAgree'
    BY <1>0, <1>1, <2>1 DEF ThreadInv, GuestInv, SpinsOnlyRefused, MemInfoRefused, HostInv, TablesAgree
  <2> QED  BY <1>1, <2>2, <2>3 DEF ThreadInv
<1>4. CASE Replace
  <2>1. hpc' = "run" /\ gpc' = "shim" /\ taken' = {} /\ UNCHANGED content
    BY <1>4 DEF Replace, Replaced, ThreadInv, TablesAgree
  <2>2. TypeOK'  BY <1>0, <2>1 DEF ThreadInv, TypeOK, lockVars
  <2>3. GuestInv' /\ HostInv' /\ TablesAgree'
    BY <1>0, <1>1, <2>1 DEF ThreadInv, GuestInv, SpinsOnlyRefused, MemInfoRefused, HostInv, TablesAgree
  <2> QED  BY <1>1, <2>2, <2>3 DEF ThreadInv
<1>5. ASSUME NEW result \in {"ok", "err"}, Serve(result) PROVE ThreadInv'
  <2>1. hpc = "serve" /\ content' = [content EXCEPT ![port] = result] /\ UNCHANGED <<gpc, hpc, taken>>
    BY <1>5 DEF Serve, guestVars, hostVars
  <2>2. TypeOK'  BY <1>0, <2>1 DEF ThreadInv, TypeOK, lockVars
  <2>3. GuestInv' /\ HostInv' /\ TablesAgree'
    BY <1>0, <1>1, <2>1 DEF ThreadInv, GuestInv, SpinsOnlyRefused, MemInfoRefused, HostInv, TablesAgree
  <2> QED  BY <1>1, <2>2, <2>3 DEF ThreadInv
<1> QED  BY <1>2, <1>3, <1>4, <1>5 DEF Host

LEMMA NextPreservesInv == ThreadInv /\ [Next]_vars => ThreadInv'
<1> SUFFICES ASSUME ThreadInv, [Next]_vars PROVE ThreadInv'  OBVIOUS
<1>1. CASE Guest
  <2>0. CASE MemInfo  BY <1>1, <2>0, MemInfoPreserves DEF Guest
  <2>1. CASE EnterUser \/ Fault \/ Panic \/ MemInfoPanics  BY <1>1, <2>1, MovePreserves DEF Guest
  <2>2. CASE Syscall  BY <1>1, <2>2, SyscallPreserves DEF Guest
  <2>3. CASE Drop  BY <1>1, <2>3, DropPreserves DEF Guest
  <2>4. ASSUME NEW kind \in ShimKinds, ShimCall(kind) PROVE ThreadInv'
    BY <1>1, <2>4, ShimCallPreserves DEF Guest
  <2>5. ASSUME NEW what \in {"call", "exit"}, Sally(what) PROVE ThreadInv'
    BY <1>1, <2>5, SallyPreserves DEF Guest
  <2>6. CASE FailPrint  BY <1>1, <2>6, FailPrintPreserves DEF Guest
  <2>7. CASE ShimExit  BY <1>1, <2>7, ShimExitPreserves DEF Guest
  <2> QED  BY <1>1, <2>0, <2>1, <2>2, <2>3, <2>4, <2>5, <2>6, <2>7 DEF Guest
<1>2. CASE Host  BY <1>2, HostPreserves
<1>3. CASE UNCHANGED vars
  <2>1. UNCHANGED <<gpc, stack, failing, pool, lockVars, content, port, hpc, taken>>
    BY <1>3 DEF vars, guestVars, hostVars
  <2>2. StackInv' /\ BlocksOwned' /\ Top' = Top  BY <2>1, SameStack
  <2> QED
    BY <2>1, <2>2 DEF ThreadInv, TypeOK, GuestInv, SpinsOnlyRefused, MemInfoRefused, HostInv, TablesAgree, lockVars
<1> QED  BY <1>1, <1>2, <1>3 DEF Next, Over

\* ThreadInv is an invariant: it is what each property of the vCPU rests on.
THEOREM InvariantHolds == Spec => []ThreadInv
BY InitEstablishesInv, NextPreservesInv, PTL DEF Spec

\* Type correctness.
THEOREM TypeCorrect == Spec => []TypeOK
<1>1. ThreadInv => TypeOK  BY DEF ThreadInv
<1> QED  BY <1>1, InvariantHolds, PTL

\* Two blocks are enough: wherever the shim may make a HostCall, from the
\* workload, in a syscall or in a handler, try_alloc finds a block.
THEOREM BlockAlwaysAvailable == Spec => []BlockAvailable
<1>1. ThreadInv => BlockAvailable  BY BlockThere DEF BlockAvailable
<1> QED  BY <1>1, InvariantHolds, PTL

\* The only vCPU spins on a lock in no case but the panic over a refused
\* mem_info, which holds SHIM_LOCAL_STORAGE: no nesting of system calls, calls of
\* the shim's own, faults and panics from the first stack on makes it wait for
\* itself, and neither does anything else the host answers.
THEOREM WaitsForItselfOnlyRefused == Spec => []SpinsOnlyRefused
<1>1. ThreadInv => SpinsOnlyRefused  BY DEF ThreadInv, GuestInv
<1> QED  BY <1>1, InvariantHolds, PTL

\* No block is lost, and none is in two HostCalls at once.
THEOREM BlocksAlwaysOwned == Spec => []BlocksOwned
<1>1. ThreadInv => BlocksOwned  BY DEF ThreadInv
<1> QED  BY <1>1, InvariantHolds, PTL

\* Thread::enter always finds the block it was told of in Keep.sallyports.
THEOREM TablesAlwaysAgree == Spec => []TablesAgree
<1>1. ThreadInv => TablesAgree  BY DEF ThreadInv
<1> QED  BY <1>1, InvariantHolds, PTL

\* Pool, live HostCalls and the host's table together.
THEOREM BlocksAlwaysSound == Spec => []BlocksSound
<1>1. BlocksOwned /\ BlockAvailable /\ TablesAgree => BlocksSound  BY DEF BlocksSound
<1> QED  BY <1>1, BlocksAlwaysOwned, BlockAlwaysAvailable, TablesAlwaysAgree, PTL

-----------------------------------------------------------------------------
(* Refinement.                                                             *)

\* A step of the vCPU or of its host is a step of HostCall or leaves it unchanged.
LEMMA StepSimulates == ThreadInv /\ [Next]_vars => [Service!Next]_(Service!callVars)
<1> SUFFICES ASSUME ThreadInv, [Next]_vars PROVE [Service!Next]_(Service!callVars)
  OBVIOUS
<1> USE DEF Service!Next, Service!Call, Service!Serve, Service!Return, Service!Stop, Service!callVars, Ended
<1>1. ASSUME hpc = "run", gpc # "out", gpc' # "out", UNCHANGED hpc
      PROVE  [Service!Next]_(Service!callVars)
  BY <1>1
<1>2. CASE Guest
  <2>1. hpc = "run"  BY <1>2 DEF Guest
  <2>2. ASSUME NEW what \in {"call", "exit"}, Sally(what) PROVE [Service!Next]_(Service!callVars)
    <3>1. hpc' = "run" /\ gpc = "shim" /\ gpc' = "out" /\ port' = Top.block
          /\ content' = [content EXCEPT ![Top.block] = what]
      BY <2>1, <2>2 DEF Sally, hostVars
    <3>2. ThreadInv'  BY <2>1, <2>2, SallyPreserves
    <3>3. content'[port'] \in {"call", "exit"}  BY <3>1, <3>2 DEF ThreadInv, HostInv
    <3> QED  BY <2>1, <3>1, <3>3
  <2>3. CASE EnterUser \/ Syscall \/ Drop \/ Fault \/ Panic \/ MemInfo \/ MemInfoPanics
    <3>1. gpc # "out" /\ gpc' # "out" /\ UNCHANGED hpc
      BY <2>3 DEF EnterUser, Syscall, Drop, Fault, Panic, MemInfo, MemInfoPanics, MayNest, PushLocked,
                      GuestStuck, hostVars
    <3> QED  BY <1>1, <2>1, <3>1
  <2>4. ASSUME NEW kind \in ShimKinds, ShimCall(kind) PROVE [Service!Next]_(Service!callVars)
    <3>1. gpc # "out" /\ gpc' # "out" /\ UNCHANGED hpc
      BY <2>4 DEF ShimCall, MayNest, PushLocked, GuestStuck, hostVars
    <3> QED  BY <1>1, <2>1, <3>1
  <2>5. CASE FailPrint \/ ShimExit
    <3>1. gpc # "out" /\ gpc' # "out" /\ UNCHANGED hpc
      BY <2>5 DEF FailPrint, ShimExit, Handling, MayNest, PushLocked, GuestStuck, hostVars
    <3> QED  BY <1>1, <2>1, <3>1
  <2> QED  BY <1>2, <2>2, <2>3, <2>4, <2>5 DEF Guest
<1>3. CASE Take
  BY <1>3 DEF Take, guestVars, ThreadInv, TablesAgree
<1>4. ASSUME NEW result \in {"ok", "err"}, Serve(result) PROVE [Service!Next]_(Service!callVars)
  <2>1. hpc = "serve" /\ gpc = "out" /\ content[port] = "call" /\ content'[port'] = result
        /\ UNCHANGED <<gpc, hpc>>
    BY <1>4 DEF Serve, guestVars, hostVars, ThreadInv, TypeOK, HostInv
  <2> QED  BY <2>1
<1>5. CASE ServeExit \/ ServeFail \/ VcpuFail
  BY <1>5 DEF ServeExit, ServeFail, VcpuFail
<1>6. CASE Replace
  BY <1>6 DEF Replace, ThreadInv, HostInv
<1>7. CASE UNCHANGED vars
  BY <1>7 DEF vars, guestVars, hostVars
<1> QED  BY <1>2, <1>3, <1>4, <1>5, <1>6, <1>7 DEF Next, Host, Over

\* Every sally, nested ones included, is one exactly-once host call.
THEOREM ImplementsHostCall == Spec => ServiceSpec
<1>1. Init => Service!Init  BY DEF Init, Service!Init, Ended
<1> QED  BY <1>1, InvariantHolds, StepSimulates, PTL DEF Spec, ServiceSpec, Service!Spec
=============================================================================
