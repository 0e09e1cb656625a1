--------------------------- MODULE MCOutboxRelay ---------------------------
(* Small instances of OutboxRelay for TLC. *)
EXTENDS OutboxRelay, TLC

CONSTANTS r1, r2, e1

MCRow == 1..2
MCRelay == {r1, r2}

\* Row 1 carries an envelope id; row 2 falls back to its row id.
DistinctEventIds == (1 :> e1) @@ (2 :> NoEventId)
=============================================================================
