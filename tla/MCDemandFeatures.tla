-------------------------- MODULE MCDemandFeatures --------------------------
(***************************************************************************)
(* A small instance of DemandFeatures: two products over four days, one of *)
(* them with inventory, lags and windows short enough to see gaps, and     *)
(* thresholds that separate the classes of small numbers.                  *)
(***************************************************************************)
EXTENDS DemandFeatures

MCPrice == [p \in Products |-> p]

Stock(day, product, opening, received, sold, closing) ==
  [day |-> day, product |-> product, opening |-> opening,
   received |-> received, sold |-> sold, closing |-> closing]

\* A day that sells some of its stock or sells out, then an empty shelf.
MCStockRows ==
  {Stock(2, 1, 4, 0, 3, 1), Stock(2, 1, 3, 2, 3, 0), Stock(4, 1, 0, 0, 0, 0)}

=============================================================================
