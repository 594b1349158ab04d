----------------------------- MODULE DemandBase -----------------------------
(***************************************************************************)
(* RetailTransformer's calendar and demand base (transformation/           *)
(* transform.py) and the holiday and promotion features built on them      *)
(* (feature_engineering.py), for one store.                                *)
(*                                                                         *)
(* Dim_Date, Holiday, Promotion and Fact_Sales are ingested independently, *)
(* each along its own watermark, under the quality rules of its table.     *)
(* Every ETL run builds the demand base from what is there, so that rows   *)
(* of earlier days are built again when any of the tables has grown.       *)
(*                                                                         *)
(* A promotion may arrive again, under its identifier, when its End_Date   *)
(* has moved; each Spark job then keeps any one of its rows.               *)
(*                                                                         *)
(* A null is the empty set, a value that is there a singleton.             *)
(***************************************************************************)
EXTENDS Integers, FiniteSets

CONSTANTS LastDay,        \* bound on the dates
          NoLabel,        \* a blank promotion label
          PromotionRows,  \* the rows Promotion.csv may offer
          SaleRows,       \* the rows Fact_Sales.csv may offer
          Proximity       \* HOLIDAY_PROXIMITY_WINDOW_DAYS

Days == 1 .. LastDay

\* Dates, discounts and identifiers are numbers; a discount is in hundredths.
ASSUME TablesAssumption ==
  /\ LastDay \in Nat
  /\ Proximity \in Nat
  /\ \A p \in PromotionRows :
       p.id \in Nat /\ p.start \in Days /\ p.end \in Days /\ p.pct \in Nat
  /\ \A s \in SaleRows : s.day \in Days /\ s.discount \in Nat

VARIABLES dates,       \* the dates of Dim_Date
          holidays,    \* the dates of Holiday
          promotions,  \* the raw rows of Promotion, of every increment
          sales        \* the rows of Fact_Sales

vars == <<dates, holidays, promotions, sales>>

SaleKey(s) == <<s.day, s.product>>

(***************************************************************************)
(* The quality rules a published row has passed.                           *)
(***************************************************************************)
\* Mutant: a label without a discount is let through.
AcceptedSaleAnyLabel(s) ==
  /\ s.discount <= 100
  /\ s.discount > 0 => s.label # NoLabel

\* Discount is a share; sales.discount_requires_promotion and
\* sales.promotion_requires_discount.
AcceptedSale(s) ==
  /\ s.discount <= 100
  /\ s.discount > 0 => s.label # NoLabel
  /\ s.discount = 0 => s.label = NoLabel

\* Required name, Discount_Pct is a share, promotion.date_sequence.
AcceptedPromotion(p) ==
  /\ p.name # NoLabel
  /\ p.pct <= 100
  /\ p.start <= p.end

PublishedPromotions == {p \in PromotionRows : AcceptedPromotion(p)}
PublishedSales == {s \in SaleRows : AcceptedSale(s)}

TypeOK ==
  /\ dates \subseteq Days
  /\ holidays \subseteq Days
  /\ promotions \subseteq PublishedPromotions
  /\ \A p, q \in promotions : p.id = q.id /\ p.end = q.end => p = q
  /\ sales \subseteq PublishedSales
  /\ \A s, t \in sales : SaleKey(s) = SaleKey(t) => s = t

(***************************************************************************)
(* The calendar: the date dimension, left-joined with the holidays.        *)
(***************************************************************************)
\* The calendar rows with a holiday name.
Marked == dates \intersect holidays

\* Mutant: the last holiday of the window of following rows.
NextHolidayLast(d) ==
  {h \in Marked : h >= d /\ \A g \in Marked : g >= d => h >= g}

\* first(ignorenulls) over the current and the following rows.
NextHoliday(d) ==
  {h \in Marked : h >= d /\ \A g \in Marked : g >= d => h <= g}

\* last(ignorenulls) over the preceding rows and the current one.
PreviousHoliday(d) ==
  {h \in Marked : h <= d /\ \A g \in Marked : g <= d => h >= g}

\* The calendar part of a demand row: all null when the date dimension does
\* not have the day.
Calendar(d) ==
  IF d \in dates
  THEN [isHoliday |-> {d \in holidays},
        since |-> {d - h : h \in PreviousHoliday(d)},
        next |-> {h - d : h \in NextHoliday(d)}]
  ELSE [isHoliday |-> {}, since |-> {}, next |-> {}]

\* Mutant: the window of the flag begins with the day itself.
WithinFromToday(distance) == {n >= 0 /\ n <= Proximity : n \in distance}

\* between(1, 7): null when the distance is.
Within(distance) == {n >= 1 /\ n <= Proximity : n \in distance}

\* is_pre_holiday_7d, is_post_holiday_7d, and least, which ignores nulls.
HolidayFeatures(d) ==
  LET c == Calendar(d)
  IN  [pre |-> Within(c.next),
       post |-> Within(c.since),
       proximity |-> {n \in c.next \union c.since :
                        \A m \in c.next \union c.since : n <= m}]

(***************************************************************************)
(* The promotion of a sale: a left join on label and period, of which the  *)
(* row that is first in its window is kept.                                *)
(***************************************************************************)
\* dropDuplicates(promotion_id): what a job may keep of the raw promotions,
\* some row of each identifier.
Cleanings ==
  {c \in SUBSET promotions :
     /\ \A p \in promotions : \E q \in c : q.id = p.id
     /\ \A p, q \in c : p.id = q.id => p = q}

\* The identifier came once, so every job keeps this row.
Unrevised(p) == p \in promotions /\ \A q \in promotions : q.id = p.id => q = p

Matches(c, s) ==
  {p \in c : p.name = s.label /\ p.start <= s.day /\ s.day <= p.end}

\* What the join puts beside a sale: each match, or one null.
Joins(c, s) == IF Matches(c, s) = {} THEN {{}} ELSE {{p} : p \in Matches(c, s)}

Joined(c) ==
  UNION {{[sale |-> s, promotion |-> m] : m \in Joins(c, s)} : s \in sales}

\* Mutants: no order among promotions of one start, or the earliest first.
BeforeByStart(p, q) == p.start > q.start
BeforeOldest(p, q) == p.start < q.start \/ (p.start = q.start /\ p.id < q.id)

\* orderBy(start_date.desc_nulls_last(), promotion_id)
Before(p, q) == p.start > q.start \/ (p.start = q.start /\ p.id < q.id)

\* row_number = 1: a row of its partition that no other is before.  When
\* several are left, Spark takes any of them.
Demand(c) ==
  {e \in Joined(c) :
     \A f \in Joined(c) :
       SaleKey(f.sale) = SaleKey(e.sale)
         => \A p \in f.promotion, q \in e.promotion : ~Before(p, q)}

Promotion(c, s) == UNION {e.promotion : e \in {f \in Demand(c) : f.sale = s}}

\* is_promotion
IsPromotion(c, s) == Promotion(c, s) # {} \/ s.discount > 0

(***************************************************************************)
(* The increments.  Each is newer than the watermark of its table.         *)
(***************************************************************************)
\* A table without rows has no raw files yet: until each has some, extraction
\* refuses to run and what is said below is said of no demand base.
Init == dates = {} /\ holidays = {} /\ promotions = {} /\ sales = {}

Newer(old) == {d \in Days : \A e \in old : e < d}

DeliverDates ==
  /\ \E new \in SUBSET Newer(dates) \ {{}} : dates' = dates \union new
  /\ UNCHANGED <<holidays, promotions, sales>>

DeliverHolidays ==
  /\ \E new \in SUBSET Newer(holidays) \ {{}} : holidays' = holidays \union new
  /\ UNCHANGED <<dates, promotions, sales>>

\* Promotion is watermarked by End_Date.  The key index is reset for each run,
\* so an identifier that is there already comes again with a later end.
DeliverPromotions ==
  /\ \E new \in SUBSET {p \in PublishedPromotions :
                          p.end \in Newer({q.end : q \in promotions})} \ {{}} :
       /\ \A p, q \in new : p.id = q.id => p = q
       /\ promotions' = promotions \union new
  /\ UNCHANGED <<dates, holidays, sales>>

\* Mutant: rows of the same primary key stay.
DeliverSalesKeepDuplicates ==
  /\ \E new \in SUBSET {s \in PublishedSales :
                          s.day \in Newer({t.day : t \in sales})} \ {{}} :
       sales' = sales \union new
  /\ UNCHANGED <<dates, holidays, promotions>>

\* One row per primary key, as the duplicate handler leaves them.
DeliverSales ==
  /\ \E new \in SUBSET {s \in PublishedSales :
                          s.day \in Newer({t.day : t \in sales})} \ {{}} :
       /\ \A s, t \in new : SaleKey(s) = SaleKey(t) => s = t
       /\ sales' = sales \union new
  /\ UNCHANGED <<dates, holidays, promotions>>

\* Nothing is left to ingest.
Complete ==
  /\ Newer(dates) = {} /\ Newer(holidays) = {}
  /\ UNCHANGED vars

Next ==
  \/ DeliverDates \/ DeliverHolidays \/ DeliverPromotions \/ DeliverSales
  \/ Complete

Spec == Init /\ [][Next]_vars

(***************************************************************************)
(* Properties.                                                             *)
(***************************************************************************)
\* A calendar row whose next holiday is known is final: whichever of the two
\* tables grows, in whatever order, its holiday, its distances and its flags
\* are never computed otherwise by a later run.  (windows over two tables
\* with a watermark each)
ScheduleSettles ==
  [][\A d \in dates :
       Calendar(d).next # {} =>
         Calendar(d)' = Calendar(d) /\ HolidayFeatures(d)' = HolidayFeatures(d)]_vars

\* The flags of a day tell the truth once both tables reach past its window:
\* pre-holiday is true when a holiday is at most Proximity days ahead and the
\* day is none itself, and else false or null, post-holiday likewise, and
\* proximity counts calendar days.
FlagsAreTrue ==
  \A d \in Days :
    LET window == {e \in Days : d - Proximity <= e /\ e <= d + Proximity}
        near == holidays \intersect window
        f == HolidayFeatures(d)
    IN  window \subseteq dates /\ (\E h \in holidays : h >= d + Proximity)
          => /\ TRUE \in f.pre <=> d \notin near /\ \E h \in near : h > d
             /\ TRUE \in f.post <=> d \notin near /\ \E h \in near : h < d
             /\ near # {} => \E h \in near : f.proximity = {IF h > d THEN h - d ELSE d - h}

\* The joins neither multiply nor lose a sale, and whichever row of a revised
\* promotion a job keeps, the demand row does not depend on the order in which
\* Spark then meets the promotions: one row is first.
\* (join, window and filter of _build_demand_base)
OneRowPerSale ==
  \A s \in sales, c \in Cleanings :
    Cardinality({e \in Demand(c) : SaleKey(e.sale) = SaleKey(s)}) = 1

\* How far promotions that arrive or are revised later may change the match of
\* a sale.  While the promotion it has is not revised itself, the sale is never
\* left without one, whatever is revised around it and whatever each job keeps
\* of that; its match does not start earlier, and when the new one is not
\* revised either, it ends later.
MatchMovesForward ==
  [][\A s \in sales, c \in Cleanings : \A p \in Promotion(c, s) :
       Unrevised(p)' =>
         \A d \in Cleanings' : \E q \in Promotion(d, s)' :
           /\ q.start >= p.start
           /\ Unrevised(q)' => q = p \/ q.end > p.end]_vars

\* Unlike the promotion it is matched with, the flag is_promotion of a sale is
\* the same in every job of every run, whatever was revised: the quality rules
\* tie the label, which the join follows, to the discount.
\* (data_quality.py, transform.py and feature_engineering.py)
FlagIsFinal ==
  [][\A s \in sales, c \in Cleanings :
       \A d \in Cleanings' : IsPromotion(d, s)' = IsPromotion(c, s)]_vars

=============================================================================
