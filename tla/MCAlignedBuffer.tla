--------------------------- MODULE MCAlignedBuffer ---------------------------
(***************************************************************************)
(* Instance of AlignedBuffer for TLC: three buffers, blocks enough for     *)
(* each to allocate before it frees, sizes of zero, one and two units.     *)
(***************************************************************************)
EXTENDS AlignedBuffer, TLC

CONSTANTS b1, b2, b3, m1, m2, m3, m4

MCBuffer == {b1, b2, b3}
MCBlock  == {m1, m2, m3, m4}

BuffersAndBlocks == Permutations(MCBuffer) \cup Permutations(MCBlock)
=============================================================================
