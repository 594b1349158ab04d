---------------------------- MODULE MCRetailEtl ----------------------------
(***************************************************************************)
(* A small instance of RetailEtl: two sales of two products.               *)
(***************************************************************************)
EXTENDS RetailEtl

CONSTANTS tea, rice

MCSold == <<tea, rice>>

=============================================================================
