--------------------------- MODULE MCSliceCapture ---------------------------
(* The instance of SliceCapture that SliceCapture.cfg checks: two raw buffers, so
   that one is written while the other is read, two records, so that one is recycled
   while the other is in use. *)
EXTENDS SliceCapture, TLC

CONSTANTS raw1, raw2, out1, out2, cpp1, info1, info2

Symmetry == Permutations({raw1, raw2}) \cup Permutations({out1, out2})
                \cup Permutations({info1, info2})
=============================================================================
