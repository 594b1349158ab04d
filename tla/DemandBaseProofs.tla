-------------------------- MODULE DemandBaseProofs --------------------------
(***************************************************************************)
(* What a later run may compute otherwise than an earlier one, for any     *)
(* calendar, promotions and sales.                                         *)
(***************************************************************************)
EXTENDS DemandBase, FiniteSetTheorems, WellFoundedInduction, TLAPS

USE TablesAssumption DEF Days

(***************************************************************************)
(* Types and quality rules.                                                *)
(***************************************************************************)
LEMMA NewerThanAll ==
  ASSUME NEW old, NEW d \in Newer(old), NEW e \in old
  PROVE  d \in Days /\ e < d
BY DEF Newer

LEMMA TypeStep ==
  ASSUME TypeOK, [Next]_vars
  PROVE  TypeOK'
<1>1. CASE DeliverDates
  BY <1>1 DEF DeliverDates, TypeOK, Newer
<1>2. CASE DeliverHolidays
  BY <1>2 DEF DeliverHolidays, TypeOK, Newer
<1>3. CASE DeliverPromotions
  <2>1. PICK new \in SUBSET PublishedPromotions :
          /\ \A q \in new : q.end \in Newer({r.end : r \in promotions})
          /\ \A p, q \in new : p.id = q.id => p = q
          /\ promotions' = promotions \union new
    BY <1>3 DEF DeliverPromotions
  <2>2. ASSUME NEW p \in promotions, NEW q \in new
        PROVE  p.end # q.end
    <3>1. q.end \in Newer({r.end : r \in promotions}) /\ p.end \in {r.end : r \in promotions}
      BY <2>1
    <3>2. p.end \in Days /\ q.end \in Days /\ p.end < q.end
      BY <3>1, NewerThanAll DEF TypeOK, PublishedPromotions
    <3> QED
      BY <3>2
  <2> QED
    BY <1>3, <2>1, <2>2 DEF DeliverPromotions, TypeOK
<1>4. CASE DeliverSales
  <2>1. PICK new \in SUBSET PublishedSales :
          /\ \A s \in new : s.day \in Newer({t.day : t \in sales})
          /\ \A s, t \in new : SaleKey(s) = SaleKey(t) => s = t
          /\ sales' = sales \union new
    BY <1>4 DEF DeliverSales
  <2>2. \A s \in new, t \in sales : t.day < s.day
    <3> SUFFICES ASSUME NEW s \in new, NEW t \in sales PROVE t.day < s.day
      OBVIOUS
    <3>1. s.day \in Newer({u.day : u \in sales}) /\ t.day \in {u.day : u \in sales}
      BY <2>1
    <3> QED
      BY <3>1, NewerThanAll
  <2>3. \A s \in new, t \in sales : s.day # t.day
    BY <2>2 DEF TypeOK, PublishedSales
  <2>4. \A s \in new, t \in sales : SaleKey(s) # SaleKey(t)
    BY <2>3 DEF SaleKey
  <2> QED
    BY <1>4, <2>1, <2>4 DEF DeliverSales, TypeOK
<1>5. CASE Complete \/ UNCHANGED vars
  BY <1>5 DEF Complete, vars, TypeOK
<1> QED
  BY <1>1, <1>2, <1>3, <1>4, <1>5 DEF Next

\* Every table holds rows its quality rules accept, and the sales one row per
\* primary key, after any increments.  (data_quality.py, duplicate_handler.py)
THEOREM TypeCorrect == Spec => []TypeOK
<1>1. Init => TypeOK
  BY DEF Init, TypeOK
<1> QED
  BY <1>1, TypeStep, PTL DEF Spec

(***************************************************************************)
(* The calendar.                                                           *)
(***************************************************************************)
\* Whichever table grows, the rows that become marked come after all marked
\* ones, and only days after them become holidays.
LEMMA MarkedGrowsForward ==
  ASSUME TypeOK, [Next]_vars
  PROVE  /\ dates \subseteq dates' /\ holidays \subseteq holidays'
         /\ \A h \in Marked, x \in Marked' : x \in Marked \/ h < x
         /\ \A h \in Marked, x \in holidays' : x \in holidays \/ h < x
<1>1. CASE DeliverDates
  BY <1>1, NewerThanAll DEF DeliverDates, Marked
<1>2. CASE DeliverHolidays
  BY <1>2, NewerThanAll DEF DeliverHolidays, Marked
<1>3. CASE DeliverPromotions \/ DeliverSales \/ Complete \/ UNCHANGED vars
  BY <1>3 DEF DeliverPromotions, DeliverSales, Complete, vars, Marked
<1> QED
  BY <1>1, <1>2, <1>3 DEF Next

\* A calendar row whose next holiday is known is final, with its features,
\* whichever of Dim_Date and Holiday grows.  (windows of transform.py)
LEMMA SettledRow ==
  ASSUME TypeOK, [Next]_vars, NEW d \in dates, Calendar(d).next # {}
  PROVE  Calendar(d)' = Calendar(d) /\ HolidayFeatures(d)' = HolidayFeatures(d)
<1>1. PICK h \in Marked : h >= d
  BY DEF Calendar, NextHoliday
<1>2. /\ d \in dates'
      /\ Marked \subseteq Marked' /\ Marked' \subseteq Days
      /\ \A x \in Marked' : x \in Marked \/ h < x
      /\ d \in holidays' <=> d \in holidays
  <2>1. TypeOK'
    BY TypeStep
  <2>2. d \in Days /\ h \in Days /\ Marked' \subseteq Days
    BY <2>1 DEF TypeOK, Marked
  <2>3. ~(h < d)
    BY <1>1, <2>2
  <2> QED
    BY <2>2, <2>3, MarkedGrowsForward DEF Marked
<1>3. \A x \in Marked' : x \in Nat /\ (x \in Marked \/ x > h)
  BY <1>2
<1>4. h \in Nat /\ d \in Nat /\ h \in Marked'
  BY <1>1, <1>2 DEF TypeOK, Marked
<1>5. NextHoliday(d)' = NextHoliday(d)
  <2>1. \A x \in Marked : x \in Marked' /\ x \in Nat
    BY <1>2, <1>3
  <2>2. ASSUME NEW x
        PROVE  x \in NextHoliday(d) => x \in NextHoliday(d)'
    BY <1>1, <1>3, <1>4, <2>1 DEF NextHoliday
  <2>3. ASSUME NEW x, x \in NextHoliday(d)'
        PROVE  x \in NextHoliday(d)
    <3>1. x \in Marked' /\ x >= d /\ \A g \in Marked' : g >= d => x <= g
      BY <2>3 DEF NextHoliday
    <3>2. x <= h
      BY <1>1, <1>4, <3>1
    <3>3. x \in Marked
      BY <1>3, <1>4, <3>1, <3>2
    <3> QED
      BY <2>1, <3>1, <3>3 DEF NextHoliday
  <2> QED
    BY <2>2, <2>3 DEF NextHoliday
<1>6. PreviousHoliday(d)' = PreviousHoliday(d)
  <2>1. \A x \in Marked' : x <= d => x \in Marked
    BY <1>1, <1>3, <1>4
  <2>2. \A x \in Marked : x \in Marked'
    BY <1>2
  <2> QED
    BY <2>1, <2>2 DEF PreviousHoliday
<1>7. Calendar(d)' = Calendar(d)
  BY <1>2, <1>5, <1>6 DEF Calendar
<1> QED
  BY <1>7 DEF HolidayFeatures

\* As lemma SettledRow says, of every step.
THEOREM SchedulesSettle == Spec => ScheduleSettles
<1>1. TypeOK /\ [Next]_vars =>
        \A d \in dates :
          Calendar(d).next # {} =>
            Calendar(d)' = Calendar(d) /\ HolidayFeatures(d)' = HolidayFeatures(d)
  BY SettledRow
<1> QED
  BY <1>1, TypeCorrect, PTL DEF Spec, ScheduleSettles

(***************************************************************************)
(* The promotion of a sale.                                                *)
(***************************************************************************)
LEMMA Smallest ==
  ASSUME NEW T \in SUBSET Nat, T # {}
  PROVE  \E m \in T : \A n \in T : m <= n
<1> DEFINE R == {ss \in Nat \X Nat : ss[1] < ss[2]}
<1>1. IsWellFoundedOn(R, Nat)
  BY NatLessThanWellFounded DEF OpToRel
<1>2. \A x, y \in Nat : y < x => <<y, x>> \in R
  OBVIOUS
<1>3. PICK x \in T : \A y \in T : ~(<<y, x>> \in R)
  <2> HIDE DEF R
  <2> QED
    BY <1>1, WFMin
<1>4. \A y \in T : ~(y < x)
  BY <1>2, <1>3
<1> QED
  BY <1>4

\* Among the promotions a sale matches one comes first: the latest to start,
\* and of those the one with the smallest identifier.
LEMMA FirstExists ==
  ASSUME TypeOK, NEW c \in Cleanings, NEW s, Matches(c, s) # {}
  PROVE  \E p \in Matches(c, s) : \A q \in Matches(c, s) : ~Before(q, p)
<1> DEFINE Age == {LastDay - p.start : p \in Matches(c, s)}
<1>1. Matches(c, s) \subseteq PromotionRows
  BY DEF TypeOK, Cleanings, Matches, PublishedPromotions
<1>2. \A p \in Matches(c, s) : p.id \in Nat /\ p.start \in Nat /\ p.start <= LastDay
  BY <1>1
<1>3. Age \in SUBSET Nat /\ Age # {}
  BY <1>2
<1>4. PICK m \in Age : \A n \in Age : m <= n
  <2> HIDE DEF Age
  <2> QED
    BY <1>3, Smallest
<1> DEFINE Ids == {p.id : p \in {q \in Matches(c, s) : LastDay - q.start = m}}
<1>5. Ids \in SUBSET Nat /\ Ids # {}
  BY <1>2
<1>6. PICK i \in Ids : \A n \in Ids : i <= n
  <2> HIDE DEF Ids
  <2> QED
    BY <1>5, Smallest
<1>7. PICK p \in Matches(c, s) : LastDay - p.start = m /\ p.id = i
  OBVIOUS
<1>8. ASSUME NEW q \in Matches(c, s)
      PROVE  ~Before(q, p)
  <2>1. m <= LastDay - q.start
    BY <1>4
  <2>2. q.start <= p.start
    BY <1>2, <1>7, <2>1
  <2>3. q.start = p.start => i <= q.id
    BY <1>6, <1>7
  <2> QED
    BY <1>2, <1>7, <2>2, <2>3 DEF Before
<1> QED
  BY <1>7, <1>8

\* The demand rows of the sale s.
RowsOf(c, s) == {e \in Demand(c) : SaleKey(e.sale) = SaleKey(s)}

\* What the join has for a sale.
LEMMA JoinedRows ==
  ASSUME TypeOK, NEW c \in Cleanings, NEW s \in sales, NEW e
  PROVE  e \in Joined(c) /\ SaleKey(e.sale) = SaleKey(s)
           <=> \E m \in Joins(c, s) : e = [sale |-> s, promotion |-> m]
<1>1. ASSUME e \in Joined(c), SaleKey(e.sale) = SaleKey(s)
      PROVE  \E m \in Joins(c, s) : e = [sale |-> s, promotion |-> m]
  <2>1. PICK t \in sales : \E m \in Joins(c, t) : e = [sale |-> t, promotion |-> m]
    BY <1>1 DEF Joined
  <2>2. t = s
    BY <1>1, <2>1 DEF TypeOK
  <2> QED
    BY <2>1, <2>2
<1>2. ASSUME NEW m \in Joins(c, s), e = [sale |-> s, promotion |-> m]
      PROVE  e \in Joined(c) /\ SaleKey(e.sale) = SaleKey(s)
  BY <1>2 DEF Joined
<1> QED
  BY <1>1, <1>2

\* The ranking keeps the first match, alone.
LEMMA FirstIsKept ==
  ASSUME TypeOK, NEW c \in Cleanings, NEW s \in sales, NEW p \in Matches(c, s),
         \A q \in Matches(c, s) : ~Before(q, p)
  PROVE  RowsOf(c, s) = {[sale |-> s, promotion |-> {p}]} /\ Promotion(c, s) = {p}
<1>1. Joins(c, s) = {{q} : q \in Matches(c, s)}
  BY DEF Joins
<1>2. Matches(c, s) \subseteq PromotionRows
  BY DEF TypeOK, Cleanings, Matches, PublishedPromotions
<1>3. \A q \in Matches(c, s) : ~Before(p, q) => q = p
  BY <1>2 DEF Before, Cleanings, Matches
<1>4. [sale |-> s, promotion |-> {p}] \in RowsOf(c, s)
  <2> DEFINE e == [sale |-> s, promotion |-> {p}]
  <2>1. e \in Joined(c)
    BY <1>1, JoinedRows
  <2>2. ASSUME NEW f \in Joined(c), SaleKey(f.sale) = SaleKey(e.sale)
        PROVE  \A q \in f.promotion, r \in e.promotion : ~Before(q, r)
    <3>1. \E m \in Joins(c, s) : f = [sale |-> s, promotion |-> m]
      BY <2>2, JoinedRows
    <3> QED
      BY <1>1, <3>1
  <2> QED
    BY <2>1, <2>2 DEF RowsOf, Demand
<1>5. ASSUME NEW e \in RowsOf(c, s)
      PROVE  e = [sale |-> s, promotion |-> {p}]
  <2>1. e \in Demand(c) /\ e \in Joined(c) /\ SaleKey(e.sale) = SaleKey(s)
    BY DEF RowsOf, Demand
  <2>2. PICK q \in Matches(c, s) : e = [sale |-> s, promotion |-> {q}]
    BY <1>1, <2>1, JoinedRows
  <2>3. [sale |-> s, promotion |-> {p}] \in Joined(c)
    BY <1>1, JoinedRows
  <2>4. ~Before(p, q)
    BY <2>1, <2>2, <2>3 DEF Demand
  <2> QED
    BY <1>3, <2>2, <2>4
<1>6. RowsOf(c, s) = {[sale |-> s, promotion |-> {p}]}
  BY <1>4, <1>5
<1>7. {f \in Demand(c) : f.sale = s} = {[sale |-> s, promotion |-> {p}]}
  BY <1>6 DEF RowsOf
<1>8. {e.promotion : e \in {[sale |-> s, promotion |-> {p}]}} = {{p}}
  <2> DEFINE kept == [sale |-> s, promotion |-> {p}]
  <2>1. kept.promotion = {p}
    OBVIOUS
  <2> HIDE DEF kept
  <2>2. {e.promotion : e \in {kept}} = {{p}}
    BY <2>1, Zenon
  <2> QED
    BY <2>2 DEF kept
<1> QED
  BY <1>6, <1>7, <1>8 DEF Promotion

\* A sale without a match stays, without a promotion.
LEMMA UnmatchedIsKept ==
  ASSUME TypeOK, NEW c \in Cleanings, NEW s \in sales, Matches(c, s) = {}
  PROVE  RowsOf(c, s) = {[sale |-> s, promotion |-> {}]} /\ Promotion(c, s) = {}
<1>1. \A f : f \in Joined(c) /\ SaleKey(f.sale) = SaleKey(s)
               <=> f = [sale |-> s, promotion |-> {}]
  BY JoinedRows DEF Joins
<1>2. [sale |-> s, promotion |-> {}] \in Demand(c)
  BY <1>1 DEF Demand
<1>3. RowsOf(c, s) = {[sale |-> s, promotion |-> {}]}
  BY <1>1, <1>2 DEF RowsOf, Demand
<1>4. {f \in Demand(c) : f.sale = s} = {[sale |-> s, promotion |-> {}]}
  BY <1>3 DEF RowsOf
<1> QED
  BY <1>3, <1>4 DEF Promotion

\* The joins neither multiply nor lose a sale, and leave Spark no choice.
\* (join, window and filter of _build_demand_base)
THEOREM SalesKept == Spec => []OneRowPerSale
<1>1. TypeOK => OneRowPerSale
  <2> SUFFICES ASSUME TypeOK, NEW c \in Cleanings, NEW s \in sales
               PROVE  Cardinality(RowsOf(c, s)) = 1
    BY DEF OneRowPerSale, RowsOf
  <2>1. \E e : RowsOf(c, s) = {e}
    <3>1. CASE Matches(c, s) = {}
      BY <3>1, UnmatchedIsKept
    <3>2. CASE Matches(c, s) # {}
      <4>1. PICK p \in Matches(c, s) : \A q \in Matches(c, s) : ~Before(q, p)
        BY <3>2, FirstExists
      <4> QED
        BY <4>1, FirstIsKept
    <3> QED
      BY <3>1, <3>2
  <2> QED
    BY <2>1, FS_Singleton
<1> QED
  BY <1>1, TypeCorrect, PTL

\* The first match of a sale is its promotion, in the form a later state needs.
FirstMatches ==
  \A c \in Cleanings, s \in sales :
    /\ Matches(c, s) = {} => Promotion(c, s) = {}
    /\ Matches(c, s) # {} =>
         \E p \in Matches(c, s) :
           Promotion(c, s) = {p} /\ \A q \in Matches(c, s) : ~Before(q, p)

LEMMA FirstMatch == TypeOK => FirstMatches
<1> SUFFICES ASSUME TypeOK, NEW c \in Cleanings, NEW s \in sales
             PROVE  /\ Matches(c, s) = {} => Promotion(c, s) = {}
                    /\ Matches(c, s) # {} =>
                         \E p \in Matches(c, s) :
                           Promotion(c, s) = {p} /\ \A q \in Matches(c, s) : ~Before(q, p)
  BY DEF FirstMatches
<1> QED
  BY FirstExists, FirstIsKept, UnmatchedIsKept

LEMMA FirstMatchNext == TypeOK' => FirstMatches'
BY FirstMatch, PTL

\* No step takes a sale or a promotion away, and what it adds to the
\* promotions ends after all that were there.
LEMMA PromotionsGrowForward ==
  ASSUME TypeOK, [Next]_vars
  PROVE  /\ sales \subseteq sales' /\ promotions \subseteq promotions'
         /\ \A p \in promotions, q \in promotions' :
              q \in promotions \/ q.end > p.end
<1>1. CASE DeliverPromotions
  <2>1. PICK new \in SUBSET PublishedPromotions :
          /\ \A q \in new : q.end \in Newer({r.end : r \in promotions})
          /\ promotions' = promotions \union new
    BY <1>1 DEF DeliverPromotions
  <2>2. ASSUME NEW p \in promotions, NEW q \in new
        PROVE  q.end > p.end
    <3>1. q.end \in Newer({r.end : r \in promotions})
            /\ p.end \in {r.end : r \in promotions}
      BY <2>1
    <3>2. q.end \in Days /\ p.end \in Days /\ p.end < q.end
      BY <3>1, NewerThanAll DEF TypeOK, PublishedPromotions
    <3> QED
      BY <3>2
  <2> QED
    BY <1>1, <2>1, <2>2 DEF DeliverPromotions
<1>2. CASE ~DeliverPromotions
  BY <1>2 DEF Next, DeliverDates, DeliverHolidays, DeliverSales, Complete, vars
<1> QED
  BY <1>1, <1>2

\* A promotion whose identifier came once is kept by every job.
LEMMA UnrevisedIsKept ==
  ASSUME NEW p, Unrevised(p), NEW c \in Cleanings
  PROVE  p \in c
<1>1. PICK q \in c : q.id = p.id
  BY DEF Unrevised, Cleanings
<1>2. q \in promotions
  BY <1>1 DEF Cleanings
<1> QED
  BY <1>1, <1>2 DEF Unrevised

\* It was so in every job before, if it was there.
LEMMA UnrevisedBefore ==
  ASSUME promotions \subseteq promotions', NEW p \in promotions, Unrevised(p)'
  PROVE  Unrevised(p)
BY DEF Unrevised

\* A match that is not revised may be replaced by a later one, never be lost.
LEMMA MatchAfterStep ==
  ASSUME TypeOK, [Next]_vars, NEW s \in sales, NEW c \in Cleanings,
         NEW p \in Promotion(c, s), Unrevised(p)', NEW d \in Cleanings'
  PROVE  \E q \in Promotion(d, s)' :
           /\ q.start >= p.start
           /\ Unrevised(q)' => q = p \/ q.end > p.end
<1>1. p \in Matches(c, s) /\ \A q \in Matches(c, s) : ~Before(q, p)
  BY FirstMatch DEF FirstMatches
<1>2. TypeOK' /\ FirstMatches' /\ s \in sales' /\ promotions \subseteq promotions'
  BY TypeStep, FirstMatchNext, PromotionsGrowForward
<1>3. p \in d
  <2>1. PICK q \in d : q.id = p.id
    BY DEF Unrevised, Cleanings
  <2>2. q \in promotions'
    BY <2>1 DEF Cleanings
  <2> QED
    BY <2>1, <2>2 DEF Unrevised
<1>4. p \in Matches(d, s)' /\ p \in promotions
  BY <1>1, <1>3 DEF Matches, Cleanings
<1>5. PICK q \in Matches(d, s)' : Promotion(d, s)' = {q} /\ ~Before(p, q)
  BY <1>2, <1>4 DEF FirstMatches, Before
<1>6. q \in promotions' /\ q \in Matches(d, s)
  BY <1>5 DEF Matches, Cleanings
<1>7. /\ p.start \in Nat /\ p.id \in Nat
      /\ q.start \in Nat /\ q.id \in Nat
  BY <1>2, <1>4, <1>6 DEF TypeOK, PublishedPromotions
<1>8. q.start >= p.start /\ (q.start = p.start => p.id >= q.id)
  BY <1>5, <1>7 DEF Before
<1>9. ASSUME Unrevised(q)'
      PROVE  q = p \/ q.end > p.end
  <2>1. CASE q \notin promotions
    BY <1>4, <1>6, <2>1, PromotionsGrowForward
  <2>2. CASE q \in promotions
    <3>1. q \in c
      BY <1>2, <1>9, <2>2, UnrevisedBefore, UnrevisedIsKept
    <3>2. ~Before(q, p)
      BY <1>1, <1>6, <3>1 DEF Matches
    <3>3. q.id = p.id
      BY <1>7, <1>8, <3>2 DEF Before
    <3> QED
      BY <1>2, <1>4, <1>9, <3>3 DEF Unrevised
  <2> QED
    BY <2>1, <2>2
<1> QED
  BY <1>5, <1>8, <1>9

\* No increment and no choice a job makes among revised promotions takes a sale's
\* promotion away while that one is not revised itself: in every job of the next
\* state the sale is matched with one that starts no earlier and, unless it was
\* revised, is the same or ends later.  (promotion increments, the reduction by
\* dropDuplicates and the window order of _build_demand_base)
THEOREM MatchesMoveForward == Spec => MatchMovesForward
<1>1. TypeOK /\ [Next]_vars =>
        \A s \in sales, c \in Cleanings : \A p \in Promotion(c, s) :
          Unrevised(p)' =>
            \A d \in Cleanings' : \E q \in Promotion(d, s)' :
              /\ q.start >= p.start
              /\ Unrevised(q)' => q = p \/ q.end > p.end
  BY MatchAfterStep
<1> QED
  BY <1>1, TypeCorrect, PTL DEF Spec, MatchMovesForward

(***************************************************************************)
(* The promotion flag.                                                     *)
(***************************************************************************)
\* The flag of a sale is a matter of its discount alone.
DiscountFlags ==
  \A c \in Cleanings, s \in sales : IsPromotion(c, s) <=> s.discount > 0

LEMMA FlagIsDiscount == TypeOK => DiscountFlags
<1> SUFFICES ASSUME TypeOK, NEW c \in Cleanings, NEW s \in sales,
                    Promotion(c, s) # {}
             PROVE  s.discount > 0
  BY DEF DiscountFlags, IsPromotion
<1>1. PICK p \in Matches(c, s) : TRUE
  BY FirstMatch DEF FirstMatches
<1>2. s.label # NoLabel
  BY <1>1 DEF Matches, Cleanings, TypeOK, PublishedPromotions, AcceptedPromotion
<1>3. s.discount \in Nat /\ s.discount # 0
  BY <1>2 DEF TypeOK, PublishedSales, AcceptedSale
<1> QED
  BY <1>3

LEMMA FlagIsDiscountNext == TypeOK' => DiscountFlags'
BY FlagIsDiscount, PTL

\* No increment of promotions, new or revised, and no choice a job makes among
\* their rows turns the flag of a sale: the quality rules of both tables tie the
\* label, which the join follows, to the discount.
\* (data_quality.py and is_promotion)
THEOREM FlagsAreFinal == Spec => FlagIsFinal
<1>1. TypeOK /\ [Next]_vars =>
        \A s \in sales, c \in Cleanings :
          \A d \in Cleanings' : IsPromotion(d, s)' = IsPromotion(c, s)
  <2> SUFFICES ASSUME TypeOK, [Next]_vars, NEW s \in sales, NEW c \in Cleanings,
                      NEW d \in Cleanings'
               PROVE  IsPromotion(d, s)' = IsPromotion(c, s)
    OBVIOUS
  <2>1. s \in sales' /\ DiscountFlags /\ DiscountFlags'
    BY TypeStep, FlagIsDiscount, FlagIsDiscountNext, PromotionsGrowForward
  <2>2. IsPromotion(c, s) \in BOOLEAN /\ IsPromotion(d, s)' \in BOOLEAN
    BY DEF IsPromotion
  <2> QED
    BY <2>1, <2>2 DEF DiscountFlags
<1> QED
  BY <1>1, TypeCorrect, PTL DEF Spec, FlagIsFinal

(***************************************************************************)
(* The flags of a day.                                                     *)
(***************************************************************************)
\* A flag is true when the distance is within the window.
LEMMA TrueFlag ==
  ASSUME NEW distance, distance \subseteq Nat
  PROVE  TRUE \in Within(distance) <=> (1 .. Proximity) \intersect distance # {}
<1>1. TRUE \in Within(distance)
        <=> \E n \in distance : n >= 1 /\ n <= Proximity
  BY Zenon DEF Within
<1>2. \A n \in distance : n >= 1 /\ n <= Proximity <=> n \in 1 .. Proximity
  BY TablesAssumption
<1> QED
  BY <1>1, <1>2

\* A marked day on either side has a nearest one on that side.
LEMMA Nearest ==
  ASSUME TypeOK, NEW d \in Days, NEW n \in Marked
  PROVE  /\ n >= d => \E g \in Marked : NextHoliday(d) = {g} /\ d <= g /\ g <= n
         /\ n <= d => \E g \in Marked : PreviousHoliday(d) = {g} /\ n <= g /\ g <= d
<1>1. d \in Nat /\ \A g \in Marked : g \in Nat
  BY DEF TypeOK, Marked
<1>2. ASSUME n >= d
      PROVE  \E g \in Marked : NextHoliday(d) = {g} /\ d <= g /\ g <= n
  <2>1. PICK g \in {x \in Marked : x >= d} : \A y \in {x \in Marked : x >= d} : g <= y
    BY <1>1, <1>2, Smallest
  <2>2. \A x \in NextHoliday(d) : x = g
    BY <1>1, <2>1 DEF NextHoliday
  <2>3. g \in NextHoliday(d) /\ g <= n
    BY <1>1, <1>2, <2>1 DEF NextHoliday
  <2> QED
    BY <2>1, <2>2, <2>3
<1>3. ASSUME n <= d
      PROVE  \E g \in Marked : PreviousHoliday(d) = {g} /\ n <= g /\ g <= d
  <2> DEFINE back == {d - x : x \in {y \in Marked : y <= d}}
  <2>1. back \subseteq Nat /\ d - n \in back
    BY <1>1, <1>3
  <2>2. PICK m \in back : \A k \in back : m <= k
    BY <2>1, Smallest
  <2>3. PICK g \in Marked : g <= d /\ m = d - g
    BY <2>2
  <2>4. \A x \in Marked : x <= d => g >= x
    <3> SUFFICES ASSUME NEW x \in Marked, x <= d PROVE g >= x
      OBVIOUS
    <3>1. d - g <= d - x
      BY <2>2, <2>3
    <3> QED
      BY <1>1, <3>1
  <2>5. \A x \in PreviousHoliday(d) : x = g
    BY <1>1, <2>3, <2>4 DEF PreviousHoliday
  <2>6. g \in PreviousHoliday(d)
    BY <2>3, <2>4 DEF PreviousHoliday
  <2> QED
    BY <1>3, <2>3, <2>4, <2>5, <2>6
<1> QED
  BY <1>2, <1>3

LEMMA OneLeast ==
  ASSUME NEW S, S \subseteq Nat, NEW m \in S, \A k \in S : m <= k
  PROVE  {k \in S : \A l \in S : k <= l} = {m}
<1>1. \A k \in S : (\A l \in S : k <= l) => k = m
  OBVIOUS
<1> QED
  BY <1>1

\* The distances of a day are those of marked days around it.
LEMMA Distances ==
  ASSUME TypeOK, NEW d \in dates
  PROVE  /\ \A m \in Calendar(d).next :
              \E h \in Marked : h >= d /\ m = h - d /\ \A g \in Marked : g >= d => h <= g
         /\ \A m \in Calendar(d).since :
              \E h \in Marked : h <= d /\ m = d - h /\ \A g \in Marked : g <= d => h >= g
  BY DEF Calendar, NextHoliday, PreviousHoliday

\* The flags and the proximity of a day are true of the holidays around it as
\* soon as the date dimension has its window.  (windows over rows, flags over
\* days)
THEOREM FlagsAreTrueCorrect == Spec => []FlagsAreTrue
<1>1. TypeOK => FlagsAreTrue
  <2> DEFINE window(d) == {e \in Days : d - Proximity <= e /\ e <= d + Proximity}
             near(d) == holidays \intersect window(d)
  <2>1. ASSUME TypeOK, NEW d \in Days, window(d) \subseteq dates
        PROVE  LET f == HolidayFeatures(d)
               IN  /\ TRUE \in f.pre <=> d \notin near(d) /\ \E h \in near(d) : h > d
                   /\ TRUE \in f.post <=> d \notin near(d) /\ \E h \in near(d) : h < d
                   /\ near(d) # {} =>
                        \E h \in near(d) : f.proximity = {IF h > d THEN h - d ELSE d - h}
    <3>1. /\ d \in Nat /\ d \in window(d) /\ d \in dates
          /\ \A h \in Marked : h \in Nat /\ h \in Days /\ h \in holidays
          /\ \A h \in near(d) : h \in Marked /\ h \in Nat
          /\ \A h \in near(d) : d - Proximity <= h /\ h <= d + Proximity
      BY <2>1 DEF TypeOK, Marked
    <3>2. \A h \in Marked : d - Proximity <= h /\ h <= d + Proximity => h \in near(d)
      BY <3>1
    <3>3. d \in near(d) <=> d \in Marked
      BY <3>1, <3>2
    <3>0. Calendar(d).next \subseteq Nat /\ Calendar(d).since \subseteq Nat
      BY <2>1, <3>1, Distances
    <3>4. TRUE \in HolidayFeatures(d).pre <=> d \notin near(d) /\ \E h \in near(d) : h > d
      <4>1. ASSUME NEW m \in (1 .. Proximity) \intersect Calendar(d).next
            PROVE  d \notin near(d) /\ \E h \in near(d) : h > d
        <5>1. PICK h \in Marked : /\ h >= d /\ m = h - d
                                  /\ \A g \in Marked : g >= d => h <= g
          BY <2>1, <3>1, <4>1, Distances
        <5>2. h > d /\ h <= d + Proximity
          BY <3>1, <4>1, <5>1
        <5>3. d \notin Marked
          BY <3>1, <5>1, <5>2
        <5> QED
          BY <3>1, <3>2, <3>3, <5>2, <5>3
      <4>2. ASSUME d \notin near(d), NEW n \in near(d), n > d
            PROVE  (1 .. Proximity) \intersect Calendar(d).next # {}
        <5>0. n \in Marked /\ n >= d
          BY <3>1, <4>2
        <5>1. PICK g \in Marked : NextHoliday(d) = {g} /\ d <= g /\ g <= n
          BY <2>1, <5>0, Nearest
        <5>2. g # d /\ g - d \in 1 .. Proximity
          BY <3>1, <3>3, <4>2, <5>1
        <5>3. g - d \in Calendar(d).next
          BY <3>1, <5>1 DEF Calendar
        <5> QED
          BY <5>2, <5>3
      <4> QED
        BY <3>0, <4>1, <4>2, TrueFlag DEF HolidayFeatures
    <3>5. TRUE \in HolidayFeatures(d).post <=> d \notin near(d) /\ \E h \in near(d) : h < d
      <4>1. ASSUME NEW m \in (1 .. Proximity) \intersect Calendar(d).since
            PROVE  d \notin near(d) /\ \E h \in near(d) : h < d
        <5>1. PICK h \in Marked : /\ h <= d /\ m = d - h
                                  /\ \A g \in Marked : g <= d => h >= g
          BY <2>1, <3>1, <4>1, Distances
        <5>2. h < d /\ d - Proximity <= h
          BY <3>1, <4>1, <5>1
        <5>3. d \notin Marked
          BY <3>1, <5>1, <5>2
        <5> QED
          BY <3>1, <3>2, <3>3, <5>2, <5>3
      <4>2. ASSUME d \notin near(d), NEW n \in near(d), n < d
            PROVE  (1 .. Proximity) \intersect Calendar(d).since # {}
        <5>0. n \in Marked /\ n <= d
          BY <3>1, <4>2
        <5>1. PICK g \in Marked : PreviousHoliday(d) = {g} /\ n <= g /\ g <= d
          BY <2>1, <5>0, Nearest
        <5>2. g # d /\ d - g \in 1 .. Proximity
          BY <3>1, <3>3, <4>2, <5>1
        <5>3. d - g \in Calendar(d).since
          BY <3>1, <5>1 DEF Calendar
        <5> QED
          BY <5>2, <5>3
      <4> QED
        BY <3>0, <4>1, <4>2, TrueFlag DEF HolidayFeatures
    <3>6. ASSUME NEW n \in near(d)
          PROVE  \E h \in near(d) :
                   HolidayFeatures(d).proximity = {IF h > d THEN h - d ELSE d - h}
      <4> DEFINE far == Calendar(d).next \union Calendar(d).since
      <4>1. far \subseteq Nat
        BY <2>1, <3>1, Distances
      <4>2. \E k \in far : k <= Proximity
        <5>1. CASE n >= d
          <6>1. PICK g \in Marked : NextHoliday(d) = {g} /\ d <= g /\ g <= n
            BY <2>1, <3>1, <5>1, Nearest
          <6>2. g - d \in Calendar(d).next
            BY <3>1, <6>1 DEF Calendar
          <6> QED
            BY <3>1, <3>6, <6>1, <6>2
        <5>2. CASE n <= d
          <6>1. PICK g \in Marked : PreviousHoliday(d) = {g} /\ n <= g /\ g <= d
            BY <2>1, <3>1, <5>2, Nearest
          <6>2. d - g \in Calendar(d).since
            BY <3>1, <6>1 DEF Calendar
          <6> QED
            BY <3>1, <3>6, <6>1, <6>2
        <5> QED
          BY <3>1, <5>1, <5>2
      <4>3. PICK m \in far : \A k \in far : m <= k
        BY <4>1, <4>2, Smallest
      <4>4. m \in Nat /\ m <= Proximity
        BY <4>1, <4>2, <4>3
      <4>5. HolidayFeatures(d).proximity = {m}
        <5>1. HolidayFeatures(d).proximity = {k \in far : \A l \in far : k <= l}
          BY DEF HolidayFeatures
        <5>2. {k \in far : \A l \in far : k <= l} = {m}
          BY <4>1, <4>3, OneLeast
        <5> QED
          BY <5>1, <5>2
      <4>6. \E h \in near(d) : m = IF h > d THEN h - d ELSE d - h
        <5>1. CASE m \in Calendar(d).next
          <6>1. PICK h \in Marked : h >= d /\ m = h - d
            BY <2>1, <3>1, <5>1, Distances
          <6>2. h \in near(d) /\ (~(h > d) => m = d - h)
            BY <3>1, <3>2, <4>4, <6>1
          <6> QED
            BY <6>1, <6>2
        <5>2. CASE m \in Calendar(d).since
          <6>1. PICK h \in Marked : h <= d /\ m = d - h
            BY <2>1, <3>1, <5>2, Distances
          <6>2. h \in near(d) /\ ~(h > d)
            BY <3>1, <3>2, <4>4, <6>1
          <6> QED
            BY <6>1, <6>2
        <5> QED
          BY <4>3, <5>1, <5>2
      <4> QED
        BY <4>5, <4>6
    <3> QED
      BY <3>4, <3>5, <3>6
  <2> QED
    BY <2>1 DEF FlagsAreTrue
<1> QED
  BY <1>1, TypeCorrect, PTL

=============================================================================
