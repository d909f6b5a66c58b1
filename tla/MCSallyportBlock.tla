-------------------------- MODULE MCSallyportBlock --------------------------
(* TLC instance of SallyportBlock: a block with 24 bytes for the data of a  *)
(* syscall, and calls whose data fits, fits exactly, shrinks or overflows.  *)
EXTENDS SallyportBlock

Fixed(n, a) == [size |-> n, align |-> a, max |-> FALSE]
Slice(n) == [size |-> n, align |-> 1, max |-> TRUE]

\* Shaped after calls of guest/call: sync, read (shorter, equal and longer
\* than the room), recvfrom (address, length, buffer), poll, cpuid,
\* a gdb write and a stubbed call.
MCCalls ==
    { [kind |-> "syscall",   data |-> << >>],
      [kind |-> "syscall",   data |-> <<Slice(3)>>],
      [kind |-> "syscall",   data |-> <<Slice(24)>>],
      [kind |-> "syscall",   data |-> <<Slice(99)>>],
      [kind |-> "syscall",   data |-> <<Fixed(5, 8), Fixed(4, 4), Slice(99)>>],
      [kind |-> "syscall",   data |-> <<Fixed(3, 1), Fixed(16, 8)>>],
      [kind |-> "syscall",   data |-> <<Fixed(16, 4), Fixed(16, 4)>>],
      [kind |-> "syscall",   data |-> <<Fixed(1, 1), Fixed(20, 8)>>],
      [kind |-> "enarxcall", data |-> <<Fixed(16, 4)>>],
      [kind |-> "gdbcall",   data |-> <<Slice(30), Slice(99)>>],
      [kind |-> "stub",      data |-> << >>] }
=============================================================================
