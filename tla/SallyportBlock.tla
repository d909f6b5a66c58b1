--------------------------- MODULE SallyportBlock ---------------------------
(***************************************************************************)
(* The sallyport block as a bump-allocated message buffer: a guest stages  *)
(* one call in it (Handler::execute over the phase allocator), exits, the  *)
(* host decodes and executes the items it finds (Block, host::execute),    *)
(* and the guest collects.  The same block serves call after call, so it   *)
(* is full of stale headers.                                               *)
(*                                                                         *)
(* Addresses are byte offsets from the start of the block, which is an     *)
(* array of 8-byte words.  Of the memory only item headers are kept: every *)
(* other byte is opaque (NoHeader).                                        *)
(***************************************************************************)
EXTENDS Integers, Sequences

CONSTANTS
    BlockLen,   \* bytes of the block
    Calls       \* the calls the guest may execute

\* A piece of call data staged after the payload: a value or slice of `size'
\* bytes aligned to `align'; `max' marks the byte slices staged with
\* stage_slice_max, which shrink to the space that is left.
Layouts == [size : Nat, align : {1, 2, 4, 8}, max : BOOLEAN]

Kinds == {"syscall", "enarxcall", "gdbcall", "stub"}

\* The block is a slice of usize that holds at least one header (the shims' and
\* loaders' blocks are 69632 bytes); only byte slices are staged with `max'.
ASSUME BlockAssumption == BlockLen \in Nat /\ BlockLen % 8 = 0 /\ BlockLen >= 16
ASSUME CallsAssumption ==
    Calls \subseteq {c \in [kind : Kinds, data : Seq(Layouts)] :
                        \A k \in DOMAIN c.data : c.data[k].max => c.data[k].align = 1}

VARIABLES
    pc,         \* where Handler::execute stands, or "host"
    call,       \* the call under way
    ptr,        \* Alloc.ptr: address of the next allocation
    free,       \* Alloc.ptr.len(): bytes left to the allocator
    resv,       \* reserve_layout: padding set aside with the END header
    off,        \* Alloc.offset of the nested sections
    size,       \* item size, as the header will state it
    hdr,        \* address of the staged item header
    end,        \* address of the reserved END header
    data,       \* the staged data references, in staging order
    mem,        \* the headers in the block
    cursor,     \* host: where the iterator stands
    ran,        \* host: how often it executed an item of this call
    res         \* the outcome of the last execute()

allocVars == <<ptr, free, resv, off, size, hdr, end, data>>
hostVars == <<cursor, ran>>
vars == <<pc, call, allocVars, mem, hostVars, res>>

HeaderSize == 16

\* Bytes of the number, the arguments and the return registers.
PayloadSize(kind) == IF kind = "syscall" THEN 72 ELSE 48

Addr == 0 .. BlockLen - 1

\* The open sections, outermost first: the block, the item in it, the item's
\* payload, the payload's data.
Sections == {"block", "item", "payload", "data"}

\* A header written for the call under way is of age "now".
NoHeader == [kind |-> "none", size |-> 0, age |-> "old"]
EndHeader == [kind |-> "end", size |-> 0, age |-> "now"]

\* What a header of an earlier call is to the next one.
Aged(h) == [kind |-> h.kind, size |-> h.size, age |-> "old"]

Headers == [kind : Kinds \cup {"end", "none"}, size : Nat, age : {"now", "old"}]

Refs == [lo : Nat, size : Nat, align : {1, 2, 4, 8}, offset : Nat]

TypeOK ==
    /\ pc \in {"idle", "header", "payload", "data", "pad", "end", "commit",
               "host", "collect", "failed", "lost"}
    /\ call \in Calls
    /\ ptr \in Nat /\ free \in Nat /\ resv \in Nat /\ size \in Nat
    /\ off \in [Sections -> Nat]
    /\ hdr \in Nat /\ end \in Nat
    /\ data \in Seq(Refs)
    /\ mem \in [Addr -> Headers]
    /\ cursor \in Nat /\ ran \in Nat
    /\ res \in {"none", "ok", "ENOMEM", "EFAULT"}

-----------------------------------------------------------------------------
(* The allocator.                                                          *)

\* ptr.align_offset(align): the block itself is 8-aligned.
Pad(p, align) == (align - (p % align)) % align

\* free::<u8>() and *_slice_max: as much of the slice as there is room for.
Fit(l) == IF l.max /\ free < l.size THEN free ELSE l.size

\* allocate_layout's bound check.
HasRoom(bytes, align) == free >= Pad(ptr, align) + bytes

\* allocate_layout on success: the new region starts at ptr + Pad and the
\* allocator of section s moves past it.
Allocate(s, bytes, align) ==
    LET skip == Pad(ptr, align) + bytes
    IN  /\ ptr' = ptr + skip
        /\ free' = free - skip
        /\ off' = [off EXCEPT ![s] = @ + skip]

\* Any `?' in the stage phase: execute() returns the error and the block is as
\* it was.
Fail(error) ==
    /\ pc' = "idle" /\ res' = error
    /\ UNCHANGED <<call, allocVars, mem, hostVars>>

-----------------------------------------------------------------------------
(* Handler::execute, stage phase.                                          *)

\* Alloc::new(block).stage() and the first half of reserve_layout: room for
\* the END header is taken off the end, down to an aligned address, before
\* anything else is staged.  A stub call stages nothing.
Execute(c) ==
    /\ pc = "idle"
    /\ resv' = Pad(BlockLen - HeaderSize, 8) % 8
    /\ free' = BlockLen - HeaderSize - resv'
    /\ ptr' = 0
    /\ off' = [s \in Sections |-> 0]
    /\ call' = c /\ data' = << >> /\ size' = 0
    /\ pc' = IF c.kind = "stub" THEN "end" ELSE "header"
    /\ ran' = 0 /\ res' = "none"
    /\ mem' = [a \in Addr |-> Aged(mem[a])]
    /\ UNCHANGED <<hdr, end, cursor>>

\* Call::stage: the item header, then a section for the payload.
StageHeader ==
    /\ pc = "header" /\ HasRoom(HeaderSize, 8)
    /\ Allocate("item", HeaderSize, 8)
    /\ hdr' = ptr + Pad(ptr, 8)
    /\ pc' = "payload"
    /\ UNCHANGED <<call, resv, size, end, data, mem, hostVars, res>>

\* The number, argument and return slots (three words-aligned allocations in a
\* row, taken together), then a section for the data.
StagePayload ==
    /\ pc = "payload" /\ HasRoom(PayloadSize(call.kind), 8)
    /\ Allocate("payload", PayloadSize(call.kind), 8)
    /\ pc' = "data"
    /\ UNCHANGED <<call, resv, size, hdr, end, data, mem, hostVars, res>>

\* The layout staged next.
NextLayout == call.data[Len(data) + 1]

\* The offset of an allocation in the data section.
OffsetBeforePad(align) == off["data"]
OffsetOf(align) == off["data"] + Pad(ptr, align)

\* The call's own stage(): its next value or slice.  The argument register
\* gets the offset of the region in the data section.
StageData ==
    /\ pc = "data" /\ Len(data) < Len(call.data)
    /\ HasRoom(Fit(NextLayout), NextLayout.align)
    /\ Allocate("data", Fit(NextLayout), NextLayout.align)
    /\ data' = Append(data, [lo     |-> ptr + Pad(ptr, NextLayout.align),
                             size   |-> Fit(NextLayout),
                             align  |-> NextLayout.align,
                             offset |-> OffsetOf(NextLayout.align)])
    /\ UNCHANGED <<pc, call, resv, size, hdr, end, mem, hostVars, res>>

\* The sections of the data and of the payload close: each adds its extent to
\* the section around it, and the payload's extent is the item's size.
CloseSections ==
    [off EXCEPT !["payload"] = @ + off["data"],
                !["item"] = @ + off["payload"] + off["data"]]

StageDone ==
    /\ pc = "data" /\ Len(data) = Len(call.data)
    /\ off' = CloseSections
    /\ size' = off'["payload"]
    /\ pc' = "pad"
    /\ UNCHANGED <<call, ptr, free, resv, hdr, end, data, mem, hostVars, res>>

\* The bytes that bring an item's size to a whole number of words.
PadNone == 0
PadAlways == 8 - (size % 8)
PadBytes == IF size % 8 > 0 THEN 8 - (size % 8) ELSE 0

\* Call::stage pads the item (a bytewise allocation in the item section), and
\* the section of the item closes into the block's.
StagePad ==
    /\ pc = "pad" /\ HasRoom(PadBytes, 1)
    /\ size' = size + PadBytes
    /\ ptr' = ptr + PadBytes
    /\ free' = free - PadBytes
    /\ off' = [off EXCEPT !["item"] = @ + PadBytes,
                          !["block"] = @ + off["item"] + PadBytes]
    /\ pc' = "end"
    /\ UNCHANGED <<call, resv, hdr, end, data, mem, hostVars, res>>

\* The second half of reserve_layout: what was set aside is handed back and
\* the END header is allocated from it.
EndFits == free + resv + HeaderSize >= Pad(ptr, 8) + HeaderSize

StageEnd ==
    /\ pc = "end" /\ EndFits
    /\ end' = ptr + Pad(ptr, 8)
    /\ ptr' = ptr + Pad(ptr, 8) + HeaderSize
    /\ free' = free + resv - Pad(ptr, 8)
    /\ off' = [off EXCEPT !["block"] = @ + Pad(ptr, 8) + HeaderSize]
    /\ pc' = "commit"
    /\ UNCHANGED <<call, resv, size, hdr, data, mem, hostVars, res>>

\* The bytes and the alignment the step at hand allocates.
Wanted ==
    CASE pc = "header"  -> <<HeaderSize, 8>>
      [] pc = "payload" -> <<PayloadSize(call.kind), 8>>
      [] pc = "data"    -> <<Fit(NextLayout), NextLayout.align>>
      [] OTHER          -> <<PadBytes, 1>>

\* ENOMEM from any of the allocations.
StageFails ==
    /\ pc \in {"header", "payload", "data", "pad", "end"}
    /\ pc = "data" => Len(data) < Len(call.data)
    /\ IF pc = "end" THEN ~EndFits ELSE ~HasRoom(Wanted[1], Wanted[2])
    /\ Fail("ENOMEM")

-----------------------------------------------------------------------------
(* Commit, exit and collect.                                               *)

\* commit() writes the item header, the payload and the inputs; if the item is
\* not empty the END header follows.  Bytes past END keep what they held.
NoEndCommitted ==
    [a \in Addr |->
        IF a = hdr THEN [kind |-> call.kind, size |-> size, age |-> "now"]
        ELSE IF a < end THEN NoHeader ELSE mem[a]]
Committed ==
    [a \in Addr |->
        IF a = end THEN EndHeader
        ELSE IF a = hdr THEN [kind |-> call.kind, size |-> size, age |-> "now"]
        ELSE IF a < end + HeaderSize THEN NoHeader ELSE mem[a]]

\* ... and sally() hands the block to the host,
Commit ==
    /\ pc = "commit" /\ off["block"] > HeaderSize
    /\ mem' = Committed
    /\ pc' = "host" /\ cursor' = 0
    /\ UNCHANGED <<call, allocVars, ran, res>>

\* ... unless the staged length is zero: a stub call never leaves the guest.
CommitStub ==
    /\ pc = "commit" /\ off["block"] <= HeaderSize
    /\ pc' = "idle" /\ res' = "ok"
    /\ UNCHANGED <<call, allocVars, mem, hostVars>>

\* The closure sally() returned checks that the block is the one that was
\* staged (its start, computed back from the allocator, and its length) and
\* the call collects its results.
Collect ==
    /\ pc = "collect"
    /\ pc' = "idle"
    /\ res' = IF ptr - off["block"] = 0 /\ BlockLen >= off["block"] THEN "ok" ELSE "EFAULT"
    /\ UNCHANGED <<call, allocVars, mem, hostVars>>

-----------------------------------------------------------------------------
(* The host: Block's iterator and host::execute.                           *)

\* The iterator ends: fewer than two words are left, END, a size that is not
\* a whole number of words, or one too small for the payload.
Exhausted ==
    \/ cursor + HeaderSize > BlockLen
    \/ mem[cursor].kind = "end"
    \/ mem[cursor].size % 8 # 0
    \/ mem[cursor].kind \in Kinds /\ mem[cursor].size < PayloadSize(mem[cursor].kind)

\* Bytes of the item's data area.
DataLen == mem[cursor].size - PayloadSize(mem[cursor].kind)

\* deref and deref_aligned accept a reference of the item.
DerefOk(r) ==
    /\ r.size <= DataLen
    /\ DataLen - r.size >= r.offset
    /\ Pad(cursor + HeaderSize + PayloadSize(mem[cursor].kind) + r.offset, r.align) = 0

\* Iteration is over: control returns to the guest.
HostDone ==
    /\ pc = "host" /\ Exhausted
    /\ pc' = "collect"
    /\ UNCHANGED <<call, allocVars, mem, hostVars, res>>

\* The next item is executed, and every reference its arguments make is
\* checked first; a failed check aborts the keep.  Bytes that were never
\* written as a header, and items that overrun the block, leave the host lost
\* (it would interpret arbitrary data, or panic in split_at_mut).
HostItem ==
    /\ pc = "host" /\ ~Exhausted
    /\ LET known == mem[cursor].kind \in Kinds
                    /\ cursor + HeaderSize + mem[cursor].size <= BlockLen
           good  == \A k \in DOMAIN data : DerefOk(data[k])
       IN  /\ pc' = IF ~known THEN "lost" ELSE IF good THEN "host" ELSE "failed"
           /\ cursor' = IF known THEN cursor + HeaderSize + mem[cursor].size ELSE cursor
           /\ ran' = IF known THEN ran + 1 ELSE ran
    /\ UNCHANGED <<call, allocVars, mem, res>>

-----------------------------------------------------------------------------
Init ==
    /\ pc = "idle" /\ call \in Calls
    /\ ptr = 0 /\ free = 0 /\ resv = 0 /\ size = 0 /\ hdr = 0 /\ end = 0
    /\ off = [s \in Sections |-> 0]
    /\ data = << >>
    /\ mem = [a \in Addr |-> NoHeader]
    /\ cursor = 0 /\ ran = 0 /\ res = "none"

Stage ==
    \/ \E c \in Calls : Execute(c)
    \/ StageHeader \/ StagePayload \/ StageData \/ StageDone \/ StagePad
    \/ StageEnd \/ StageFails

Next == Stage \/ Commit \/ CommitStub \/ HostDone \/ HostItem \/ Collect

Spec == Init /\ [][Next]_vars

-----------------------------------------------------------------------------
(* Properties.                                                             *)

\* What a call may touch: the staged regions are in order and disjoint, each
\* aligned as asked, after the payload and before the END header, which is
\* itself inside the block.
RefsSound ==
    pc \in {"commit", "host", "collect"} /\ call.kind # "stub" =>
        /\ hdr + HeaderSize + PayloadSize(call.kind) <= end
        /\ end + HeaderSize <= BlockLen /\ end % 8 = 0
        /\ \A k \in DOMAIN data :
              /\ data[k].lo % data[k].align = 0
              /\ data[k].lo >= hdr + HeaderSize + PayloadSize(call.kind)
              /\ data[k].lo + data[k].size <= end
              /\ \A m \in DOMAIN data : m < k => data[m].lo + data[m].size <= data[k].lo

\* The host finds exactly the item staged for this call, then the END header
\* written for it: it never walks into a stale header of an earlier call or
\* into data, and never refuses a reference the guest staged.
HostReadsThisCall ==
    /\ pc \notin {"lost", "failed"}
    /\ pc = "host" => /\ cursor \in Addr
                      /\ mem[cursor].age = "now"
                      /\ mem[cursor].kind = IF ran = 0 THEN call.kind ELSE "end"
    /\ pc = "collect" => ran = 1

\* The offset a data reference carries to the host, relative to the item's
\* data area, denotes the region the guest staged.
OffsetsDenoteRefs ==
    pc \in {"commit", "host", "collect"} /\ call.kind # "stub" =>
        \A k \in DOMAIN data :
            data[k].lo = hdr + HeaderSize + PayloadSize(call.kind) + data[k].offset

\* Running out of memory is only ever reported for a fixed-size piece: neither
\* the padding of an item, nor END, nor a slice staged with _max can fail once
\* the payload fits.
NoLateEnomem ==
    [][ (res' = "ENOMEM" /\ res # "ENOMEM") =>
          \/ pc \in {"idle", "header", "payload"}
          \/ pc = "data" /\ Len(data) < Len(call.data) /\ ~NextLayout.max ]_vars

\* The guest's check that it got its own block back never misfires: offsets
\* kept by nested sections add up to the allocator's position.
NeverEfault == res # "EFAULT"

\* The staged regions are sound and the offsets that leave the guest are theirs.
StagingSound == RefsSound /\ OffsetsDenoteRefs

\* A block makes its round trip: the host reads this call and nothing else, and
\* the guest accepts the block it gets back.
RoundTripSound == HostReadsThisCall /\ NeverEfault

\* One execute() is one exactly-once host call, or none if staging fails or
\* the call is a stub.
Service == INSTANCE HostCall WITH
    phase <- IF pc \in {"failed", "lost"} THEN "stopped"
             ELSE IF pc \in {"host", "collect"} THEN "host" ELSE "guest",
    served <- pc \in {"host", "collect"} /\ ran = 1

ServiceSpec == Service!Spec

-----------------------------------------------------------------------------
(* The inductive invariant behind the safety properties.                   *)

\* Address of the item's data area.
DataBase == HeaderSize + PayloadSize(call.kind)

\* While staging: the allocator's position, its limit (the reserved END header
\* keeps it word-aligned) and the offsets of the sections move together.
StageInv ==
    /\ pc \in {"header", "payload", "data", "pad", "end"} =>
          resv = 0 /\ ptr + free = BlockLen - HeaderSize /\ ran = 0
    /\ pc \in {"header", "payload", "data", "pad"} => call.kind # "stub" /\ off["block"] = 0
    /\ pc = "header" => ptr = 0 /\ off["item"] = 0 /\ off["payload"] = 0 /\ off["data"] = 0
    /\ pc = "payload" => ptr = HeaderSize /\ hdr = 0 /\ off["item"] = ptr
                         /\ off["payload"] = 0 /\ off["data"] = 0
    /\ pc = "data" => hdr = 0 /\ off["item"] = HeaderSize
                      /\ off["payload"] = PayloadSize(call.kind)
                      /\ ptr = DataBase + off["data"]
    /\ pc = "pad" => hdr = 0 /\ size >= PayloadSize(call.kind)
                     /\ off["item"] = ptr /\ ptr = HeaderSize + size
    /\ pc = "end" => ptr % 8 = 0 /\ off["block"] = ptr
                     /\ IF call.kind = "stub" THEN ptr = 0
                        ELSE hdr = 0 /\ size >= PayloadSize(call.kind)
                             /\ ptr = HeaderSize + size

\* Once staged: END follows the item.
StagedInv ==
    /\ pc \in {"commit", "host", "collect"} =>
          /\ end % 8 = 0 /\ end + HeaderSize <= BlockLen
          /\ ptr = end + HeaderSize /\ off["block"] = ptr
          /\ IF call.kind = "stub" THEN end = 0
             ELSE hdr = 0 /\ size >= PayloadSize(call.kind) /\ end = HeaderSize + size
    /\ pc = "commit" => ran = 0
    /\ pc \in {"host", "collect"} => call.kind # "stub"

\* The data references lie in order between the payload and the allocator.
DataInv ==
    /\ pc \in {"header", "payload"} => data = << >>
    /\ pc \in {"data", "pad", "end", "commit", "host", "collect"} /\ call.kind # "stub" =>
          \A k \in DOMAIN data :
              /\ data[k].lo = DataBase + data[k].offset
              /\ data[k].lo % data[k].align = 0
              /\ data[k].lo + data[k].size <= IF pc \in {"data", "pad", "end"} THEN ptr ELSE end
              /\ \A m \in DOMAIN data : m < k => data[m].lo + data[m].size <= data[k].lo

\* The host stands at the item or at END.
HostInv ==
    /\ pc \notin {"lost", "failed"}
    /\ pc = "host" =>
          /\ mem[0] = [kind |-> call.kind, size |-> size, age |-> "now"]
          /\ mem[end] = EndHeader
          /\ \/ ran = 0 /\ cursor = 0
             \/ ran = 1 /\ cursor = end
    /\ pc = "collect" => ran = 1
    /\ res # "EFAULT"

BlockInv == TypeOK /\ StageInv /\ StagedInv /\ DataInv /\ HostInv
=============================================================================
