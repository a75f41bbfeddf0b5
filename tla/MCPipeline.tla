------------------------------ MODULE MCPipeline ------------------------------
(***************************************************************************)
(* Instances of Pipeline, and with it of BufferedWriteSyncer: entries that *)
(* fit the buffer, fill it exactly, and exceed it.                         *)
(***************************************************************************)
EXTENDS Pipeline, TLC

CONSTANTS p1, p2, m1, m2, m3

MCMsgLen == [m \in Msgs |-> CASE m = m1 -> 1 [] m = m2 -> 2 [] m = m3 -> 3]
\* All at InfoLevel, where any goroutine may do anything; and one that panics and
\* one that exits.
MCLevels == {[m \in Msgs |-> 0], [m \in Msgs |-> CASE m = m1 -> 0 [] m = m2 -> 4 [] m = m3 -> 5]}
ProcSymmetry == Permutations(Procs)
=============================================================================
