----------------------------- MODULE MCCamList -----------------------------
(* An instance of CamList for TLC: as many nodes as there are items. *)
EXTENDS CamList

CONSTANTS n1, n2, n3, a, b, c

MCNodes == {n1, n2, n3}
MCItems == {a, b, c}
=============================================================================
