---------------------------- MODULE MCDetailsPage ----------------------------
(* A small instance of DetailsPage. *)
EXTENDS MCNotaryServer, DetailsPage
=============================================================================
