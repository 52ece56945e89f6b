------------------------------ MODULE MCAnchor ------------------------------
(* Small instances of Anchor. *)
EXTENDS Anchor

CONSTANTS ticker, f1, f2
=============================================================================
