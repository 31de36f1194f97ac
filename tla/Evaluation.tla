----------------------------- MODULE Evaluation -----------------------------
(***************************************************************************)
(* The two levels of predicate evaluation side by side: module Filter      *)
(* takes the rows one predicate selects as one step, module Kernels goes   *)
(* over the rows of one chunk.  A behaviour is a call of                   *)
(* evaluate_predicates or one of a kernel, while the other is at rest.     *)
(***************************************************************************)
EXTENDS Filter

CONSTANTS ChunkSize, BatchSize, MaxRows    \* as in Kernels

ASSUME KernelAssumption ==
  ChunkSize \in Nat \ {0} /\ BatchSize \in Nat \ {0} /\ MaxRows \in Nat

VARIABLES kernel, data, row, rows, phase, k, s    \* as in Kernels

kernelVars == <<kernel, data, row, rows, phase, k, s>>

Kernel == INSTANCE Kernels WITH i <- row, sel <- rows, pc <- phase

\* No kernel is running.
NoKernel ==
  /\ kernel = "none" /\ data = << >> /\ row = 0 /\ rows = << >>
  /\ phase = "rest" /\ k = 0 /\ s = << >>

\* No predicates are being evaluated.
NoBatch ==
  /\ chunks = << >> /\ names = << >> /\ preds = << >> /\ ordered = << >>
  /\ p = 1 /\ sel = {} /\ pc = "rest"

EvaluationInit == (Init /\ NoKernel) \/ (Kernel!Init /\ NoBatch)

EvaluationNext ==
  \/ NoKernel /\ Next /\ UNCHANGED kernelVars
  \/ NoBatch /\ Kernel!Next /\ UNCHANGED vars

EvaluationSpec == EvaluationInit /\ [][EvaluationNext]_<<vars, kernelVars>>

-----------------------------------------------------------------------------

\* Of a kernel: see Kernels.
RowsExact == Kernel!RowsExact

\* Of the sum over a selection: see Kernels.
SumExact == Kernel!SumExact
=============================================================================
