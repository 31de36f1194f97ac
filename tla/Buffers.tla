------------------------------ MODULE Buffers -------------------------------
(***************************************************************************)
(* What AlignedBuffer promises (column.hpp): a buffer is a value.  Copying *)
(* one makes another of the same contents, moving one empties it, and no   *)
(* operation on one buffer is seen through another.  Module AlignedBuffer  *)
(* implements this with blocks of memory.                                  *)
(***************************************************************************)
EXTENDS Integers, Sequences

CONSTANTS
  Buffer,      \* the AlignedBuffer objects
  Byte,        \* what a client stores
  Garbage,     \* what nobody has stored
  Alignment,   \* 64
  MaxBytes     \* bound on the argument of resize

VARIABLE value   \* the contents of each buffer

Rounded(bytes) == ((bytes + Alignment - 1) \div Alignment) * Alignment

Fresh(n) == [k \in 1 .. n |-> Garbage]

Init == value = [b \in Buffer |-> << >>]

\* Contents survive only if the rounded size stays; a failed allocation
\* leaves the buffer empty.
Resize(b, bytes) ==
  \E contents \in {Fresh(Rounded(bytes)), << >>, value[b]} :
    /\ Len(contents) \in {0, Rounded(bytes)}
    /\ value' = [value EXCEPT ![b] = contents]

Copy(to, from) == value' = [value EXCEPT ![to] = value[from]]

Move(to, from) ==
  value' = IF to = from THEN value
           ELSE [value EXCEPT ![to] = value[from], ![from] = << >>]

Destroy(b) == value' = [value EXCEPT ![b] = << >>]

Store(b) ==
  \E k \in DOMAIN value[b], v \in Byte : value' = [value EXCEPT ![b][k] = v]

Next ==
  \E b \in Buffer :
    \/ \E bytes \in 0 .. MaxBytes : Resize(b, bytes)
    \/ \E from \in Buffer : Copy(b, from) \/ Move(b, from)
    \/ Destroy(b) \/ Store(b)

Spec == Init /\ [][Next]_value
=============================================================================
