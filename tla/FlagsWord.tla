----------------------------- MODULE FlagsWord -----------------------------
(***************************************************************************)
(* The word `flags' of src/src/host_variable.c as the code computes it:    *)
(* sixteen fields of CountBits bits, a lock count for each of up to fifteen *)
(* buffers and the target in the highest field.  A word is the set of its  *)
(* bits, so that |, & and ~ are union, intersection and complement.        *)
(*                                                                         *)
(* Each action is what one successful exchange does to the word.  Who may  *)
(* do it, and with which copy, is HostVariable, which implements this.     *)
(***************************************************************************)
EXTENDS Integers, FiniteSetsExt

CONSTANTS
  SHM_BUFFER_CNT,  \* 4 in config.h, at most 15
  CountBits        \* 4: bits of a field

VARIABLE flags

-----------------------------------------------------------------------------
Bits == 0 .. 16 * CountBits - 1
Ones == 0 .. CountBits - 1             \* 0xF
Top  == 15 * CountBits                 \* 60

Shl(w, n) == {i + n : i \in w} \cap Bits
Shr(w, n) == {i - n : i \in {j \in w : j >= n}}
Complement(w) == Bits \ w

\* A number as a word, and back.  One bit more than a field has, so that a
\* count that leaves its field is noticed in the next one.
Binary(n) == {i \in 0 .. CountBits : (n \div 2^i) % 2 = 1}
Number(w) == CHOOSE n \in 0 .. 2^CountBits - 1 : Binary(n) = w

FieldMask(b) == Shl(Ones, b * CountBits)
Target(w) == Number(Shr(w, Top))
Count(w, b) == Number(Shr(w, b * CountBits) \cap Ones)
WithField(w, b, n) == (w \cap Complement(FieldMask(b))) \cup Shl(Binary(n), b * CountBits)

\* Slip: the lowest bit of each count is not looked at.
FreeMaskHigh(w) ==
  Complement((UNION {Shr(w, n) : n \in Ones \ {0}}) \cup FieldMask(Target(w)))
    \cap {CountBits * b : b \in 0 .. 14}

\* The lowest bit of each field that is free and is not the target's.
FreeMask(w) ==
  Complement((UNION {Shr(w, n) : n \in Ones}) \cup FieldMask(Target(w)))
    \cap {CountBits * b : b \in 0 .. 14}

-----------------------------------------------------------------------------
\* link_host_variable: buffers that do not exist are locked for ever.
Init == flags = Shl(0 .. (15 - SHM_BUFFER_CNT) * CountBits - 1, SHM_BUFFER_CNT * CountBits)

\* __acquire_read_lock; a count of all ones would mean a write lock.
AcquireRead ==
  LET tmp == Count(flags, Target(flags)) + 1
  IN  /\ tmp # 2^CountBits - 1
      /\ flags' = WithField(flags, Target(flags), tmp)

\* __release_read_lock
ReleaseRead(b) == flags' = WithField(flags, b, Count(flags, b) - 1)

\* write_host_variable: takes the first free buffer (__builtin_ctzll) ...
AcquireWrite ==
  /\ FreeMask(flags) # {}
  /\ flags' = flags \cup Shl(Ones, Min(FreeMask(flags)))

\* ... and publishes it as the target, or gives it back.
Publish(b) ==
  flags' = Shl(Binary(b), Top) \cup (flags \cap (0 .. Top - 1) \cap Complement(FieldMask(b)))
Discard(b) == flags' = flags \cap Complement(FieldMask(b))

Next ==
  \/ AcquireRead \/ AcquireWrite
  \/ \E b \in 0 .. SHM_BUFFER_CNT - 1 : ReleaseRead(b) \/ Publish(b) \/ Discard(b)

Spec == Init /\ [][Next]_flags
=============================================================================
