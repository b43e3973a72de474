------------------------------ MODULE MCRawDump ------------------------------
(* Instances of RawDump for TLC. *)
EXTENDS RawDump
=============================================================================
