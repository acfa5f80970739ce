------------------------------ MODULE MCCovers ------------------------------
(* The cover queue on small instances. *)
EXTENDS Covers

CONSTANTS g1, g2, old, new
=============================================================================
