----------------------------- MODULE MCKvMirror -----------------------------
(* A small instance of KvMirror for TLC: two selected keys and one of another *)
(* prefix; a value that passes the filter, one that does not, one corrupt.    *)
EXTENDS KvMirror, TLC

CONSTANTS k1, k2, k3, good, other, filtered, corrupt
=============================================================================
