---------------------------- MODULE SallyportItem ----------------------------
(***************************************************************************)
(* The words of a sallyport item: argument words, the word that stands for *)
(* a null pointer, and how a return word is read back.  Words are scaled   *)
(* down; what matters is which of them are errors, which fit a c_int and   *)
(* which fit a byte.                                                       *)
(***************************************************************************)
EXTENDS Integers, Sequences

CONSTANTS
  WordMax,    \* usize::MAX
  MaxErrno,   \* MAX_ERRNO
  IntMax,     \* c_int::MAX
  ByteMax     \* u8::MAX

(* Error numbers; the first three are the ones the kernel answers with.    *)
EPERM == 1
EINTR == 2
EINVAL == 3
ENOSYS == 4
EOVERFLOW == 5
ENOMEM == 6
EACCES == 7
EBADFD == 8
ENOTTY == 9
ENOTSUP == 10
EAGAIN == 11
ENOENT == 12
EFAULT == 13

\* The widths are ordered as on x86_64, with room between them and
\* room for the errors the host answers with.
ASSUME WidthsAssumption ==
  /\ {WordMax, MaxErrno, IntMax, ByteMax} \subseteq Nat
  /\ MaxErrno >= ENOSYS
  /\ ByteMax + 1 < IntMax
  /\ IntMax < WordMax - MaxErrno

Ok(v) == [t |-> "ok", v |-> v]
Err(e) == [t |-> "err", v |-> e]

(* Argument words: the value in the caller's i-th register, which nobody   *)
(* on the way looks at, or a number the protocol itself computed.          *)
Arg(i) == [k |-> "arg", v |-> i]
Num(n) == [k |-> "num", v |-> n]

(* NULL is usize::MAX: no offset and no length is ever that large.         *)
NULL == Num(-1)

(* Argv<N> is padded with NULL to the payload's six (or four) words.       *)
Padded(argv, width) ==
  [i \in 1..width |-> IF i <= Len(argv) THEN argv[i] ELSE NULL]

ErrnoStart == WordMax - MaxErrno

(* -errno as usize *)
ErrnoWord(e) == WordMax + 1 - e

IsErrno(w) == w >= ErrnoStart

Errno(w) == Err(WordMax + 1 - w)

(* The value an Ok(None) of Option<u8> is shown as.                        *)
None == -1

(* Result<T>: how the return word is read, by the type T.                  *)
DecodeSyscall(type, w) ==
  IF IsErrno(w) THEN Errno(w)
  ELSE CASE type = "unit" -> Ok(0)
         [] type = "c_int" /\ w > IntMax -> Err(EOVERFLOW)
         [] OTHER -> Ok(w)

DecodeGdbcall(type, w) ==
  IF IsErrno(w) THEN IF type = "option_u8" /\ w = WordMax THEN Ok(None) ELSE Errno(w)
  ELSE CASE type = "unit" -> Ok(0)
         [] type \in {"u8", "option_u8"} /\ w > ByteMax -> Err(EOVERFLOW)
         [] OTHER -> Ok(w)

DecodeEnarxcall(type, w) ==
  IF IsErrno(w) THEN Errno(w) ELSE Ok(IF type = "unit" THEN 0 ELSE w)
=============================================================================
