----------------------------- MODULE MCLogRead -----------------------------
(* A small instance of LogRead: two levels of tiles. *)
EXTENDS LogRead

Powers == [l \in 0 .. 1 |-> Width ^ l]
=============================================================================
