---------------------------- MODULE MCChunkStats ----------------------------
(***************************************************************************)
(* Instance of ChunkStats for TLC: half steps, so that every interval      *)
(* between two whole numbers holds a value truncation moves.               *)
(***************************************************************************)
EXTENDS ChunkStats

MCMinValue == -3

MCTypes == {"INT32", "FLOAT64", "STRING"}
=============================================================================
