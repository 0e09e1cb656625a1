------------------------- MODULE MCProjectorHealth -------------------------
(* Two threads that may each run a watch() of one projector, over two streams. *)
EXTENDS ProjectorHealth

CONSTANTS t1, t2, users, groups

MCTask == {t1, t2}
MCStream == {users, groups}
=============================================================================
