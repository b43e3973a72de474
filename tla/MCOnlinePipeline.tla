-------------------------- MODULE MCOnlinePipeline --------------------------
(* Instances of OnlinePipeline for TLC. *)
EXTENDS OnlinePipeline, TLC

CONSTANTS v1, v2, o1, o2

MCViBufs  == {v1, v2}
MCCppBufs == {o1, o2}
MCSymmetry == Permutations(MCViBufs) \cup Permutations(MCCppBufs)

OneCppBuf == {o1}
ViSymmetry == Permutations(MCViBufs)
=============================================================================
