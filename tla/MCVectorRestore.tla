-------------------------- MODULE MCVectorRestore --------------------------
(* The instance of VectorRestore that TLC checks.                          *)
EXTENDS VectorRestore

CONSTANTS a1, v1

OneAgent  == {a1}
OneVector == {v1}
OneTime   == {1}
None      == {}
=============================================================================
