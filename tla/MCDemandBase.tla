---------------------------- MODULE MCDemandBase ----------------------------
(***************************************************************************)
(* A small instance of DemandBase: promotions of one name that overlap,    *)
(* nest and start together, some of which are moved or renamed later, and  *)
(* sales of two products.  Some of the rows are such that the quality      *)
(* rules refuse them.                                                      *)
(***************************************************************************)
EXTENDS DemandBase

Offer(id, name, start, end) ==
  [id |-> id, name |-> name, start |-> start, end |-> end, pct |-> 10]

\* 1 may be moved to the third day, 2 may become another promotion.
MCPromotionRows ==
  {Offer(1, "Diwali", 1, 2), Offer(2, "Diwali", 2, 2),
   Offer(3, "Diwali", 2, 3), Offer(1, "Diwali", 3, 3),
   Offer(2, "Sale", 2, 3), Offer(4, "Sale", 3, 2),
   Offer(5, "none", 1, 3)}

Sold(day, product, label, discount) ==
  [day |-> day, product |-> product, label |-> label, discount |-> discount]

MCSaleRows ==
  {Sold(2, "p1", "Diwali", 10), Sold(2, "p1", "none", 0), Sold(2, "p2", "Diwali", 0),
   Sold(3, "p2", "Sale", 5), Sold(3, "p2", "Diwali", 20), Sold(3, "p2", "none", 10),
   Sold(3, "p1", "Diwali", 120)}

=============================================================================
