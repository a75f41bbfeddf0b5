------------------------ MODULE MCBufferedWriteSyncer ------------------------
(***************************************************************************)
(* Instances of BufferedWriteSyncer: entries that fit the buffer, fill it  *)
(* exactly, and exceed it.                                                 *)
(***************************************************************************)
EXTENDS BufferedWriteSyncer, TLC

CONSTANTS p1, p2, m1, m2, m3

MCMsgLen == [m \in Msgs |-> CASE m = m1 -> 1 [] m = m2 -> 2 [] m = m3 -> 3]
ProcSymmetry == Permutations(Procs)
=============================================================================
