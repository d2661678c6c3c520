----------------------------- MODULE Signatures -----------------------------
(***************************************************************************)
(* How src/scan.c compares a file with a signature: the window it copies   *)
(* out of the file with strncpy, and sig_compare.                          *)
(*                                                                         *)
(* A file and a signature are sequences of bytes.  C offset i of the file  *)
(* is index i + 1 of the sequence.                                         *)
(***************************************************************************)
EXTENDS Integers, Sequences

CONSTANTS
  Byte,     \* the values of a byte; 0 is the terminator of C strings
  SigSize   \* SIG_SIZE, the length of every signature

ASSUME SignaturesAssumption ==
  /\ 0 \in Byte
  /\ SigSize \in Nat \ {0}

Signature == [1 .. SigSize -> Byte]
File == Seq(Byte)

\* Faulty variant: the terminator is not counted, the last window is skipped.
LimitShort(file) == Len(file) - SigSize

\* ssize_t limit = load_size - SIG_SIZE, where load_size counts the
\* terminator that load_file appends; offsets 0 .. limit - 1 are compared.
Limit(file) == (Len(file) + 1) - SigSize
Offsets(file) == 0 .. (Limit(file) - 1)

\* strncpy(file_temp, file + i, SIG_SIZE): it stops at the first zero byte
\* and fills the rest of file_temp with zeros.
Window(file, i) ==
  [k \in 1 .. SigSize |->
     IF \E j \in 1 .. k : file[i + j] = 0 THEN 0 ELSE file[i + k]]

\* sig_compare returns 0 when all SIG_SIZE positions agree.
SigCompare(window, sig) == \A k \in 1 .. SigSize : window[k] = sig[k]

MatchAt(file, i, sig) == SigCompare(Window(file, i), sig)

\* What the scan of one database line looks for.
Matches(file, sig) == \E i \in Offsets(file) : MatchAt(file, i, sig)

-----------------------------------------------------------------------------
\* The reference: the signature's bytes stand in the file.
Occurs(file, sig) ==
  \E i \in 0 .. (Len(file) - SigSize) :
    \A k \in 1 .. SigSize : file[i + k] = sig[k]

ZeroFree(sig) == \A k \in 1 .. SigSize : sig[k] # 0
=============================================================================
