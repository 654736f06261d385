----------------------------- MODULE MCRollups -----------------------------
(* Small instances of Rollups and RollupReads. *)
EXTENDS RollupReads

Src(i, k, p) == [id |-> i, key |-> k, party |-> p]

\* Two days and two gateways; a batch of two cuts the first day.
Tickets ==
    {Src(1, "monday", "gw1"), Src(2, "monday", "gw1"),
     Src(3, "monday", "gw2"), Src(4, "tuesday", "gw1")}

\* A batch of two also cuts the second block.
TicketBlock == [r \in Tickets |-> IF r.id = 1 THEN 1 ELSE IF r.id = 4 THEN 3 ELSE 2]
BlockDay    == [b \in 1..3 |-> IF b = 3 THEN 2 ELSE 1]
=============================================================================
