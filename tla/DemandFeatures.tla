--------------------------- MODULE DemandFeatures ---------------------------
(***************************************************************************)
(* The features RetailFeatureEngineer makes of the sales and inventory of  *)
(* one store.  History features: lags, rolling windows, and the ABC, XYZ   *)
(* and volatility classes.  Inventory features: the stock of the day, left *)
(* joined, and its ratios to sales.  Increments add whole later days to    *)
(* each of the two tables and the ETL rebuilds the demand features from    *)
(* all rows, any number of times.                                          *)
(*                                                                         *)
(* A null is the empty set, a value that is there a singleton.  Means,     *)
(* deviations, shares and ratios are kept as the integers they are         *)
(* computed from; thresholds are in hundredths.                            *)
(***************************************************************************)
EXTENDS Integers, FiniteSets, Functions

CONSTANTS MaxDay,            \* bound on the history
          Products,          \* product_id, ordered as numbers
          Units,             \* what units_sold may be
          Price,             \* revenue is Units_Sold times Price
          StockRows,         \* the rows Fact_Inventory.csv may offer
          LagDays, RollingWindows, MinimumHistory,
          AbcLookback, AbcA, AbcB,
          XyzLookback, XyzX, XyzY,
          VolatilityWindow, VolatilityLow, VolatilityHigh

\* FeatureEngineeringConfig.__post_init__; RetailFeatureEngineer measures
\* volatility over the longest of the rolling windows.
ValidConfig ==
  /\ LagDays \subseteq Nat \ {0}
  /\ RollingWindows \subseteq Nat \ {0, 1}
  /\ VolatilityWindow \in RollingWindows
  /\ \A w \in RollingWindows : w <= VolatilityWindow
  /\ MinimumHistory \in Nat \ {0, 1}
  /\ AbcLookback \in Nat /\ AbcLookback >= MinimumHistory
  /\ XyzLookback \in Nat /\ XyzLookback >= MinimumHistory
  /\ {AbcA, AbcB, XyzX, XyzY, VolatilityLow, VolatilityHigh} \subseteq Nat \ {0}
  /\ AbcA < AbcB /\ AbcB < 100
  /\ XyzX < XyzY
  /\ VolatilityLow < VolatilityHigh

\* inventory.stock_balance: Closing_Stock is Opening_Stock less Sold and
\* Damaged, so that stock received in the day is not in it.
AcceptedStock(q) ==
  /\ {q.opening, q.received, q.sold, q.closing} \subseteq Nat
  /\ q.closing + q.sold <= q.opening

ASSUME ConfigAssumption ==
  /\ MaxDay \in Nat
  /\ Products \subseteq Nat /\ IsFiniteSet(Products)
  /\ Units \subseteq Nat
  /\ Price \in [Products -> Nat]
  /\ \A q \in StockRows : AcceptedStock(q)
  /\ ValidConfig

VARIABLES sales,      \* units_sold of each row of the cleaned Fact_Sales
          inventory,  \* the rows of the cleaned Fact_Inventory
          features,   \* the rows of the last demand_features: history columns
          ratios      \* and inventory columns

vars == <<sales, inventory, features, ratios>>

Row == [day : 1 .. MaxDay, product : Products]

(***************************************************************************)
(* Windows over the rows s of one product.                                 *)
(***************************************************************************)
Sum(s, rows) == SumFunction([x \in rows |-> s[x]])

\* Mutants: a window that is centred on the row, or ends with it.
HistoryCentred(s, r, window) ==
  {x \in DOMAIN s : x.product = r.product /\ x.day >= r.day - window
                                          /\ x.day <= r.day + window /\ x # r}
HistoryWithToday(s, r, window) ==
  {x \in DOMAIN s : x.product = r.product /\ x.day >= r.day - window
                                          /\ x.day <= r.day}

\* rangeBetween(-window, -1)
History(s, r, window) ==
  {x \in DOMAIN s : x.product = r.product /\ x.day >= r.day - window
                                          /\ x.day < r.day}

Before(s, r) == {x \in DOMAIN s : x.product = r.product /\ x.day < r.day}

\* F.lag counts rows: the k-th row before this one.
RowLag(s, r, k) ==
  {x \in Before(s, r) : Cardinality({y \in Before(s, r) : y.day >= x.day}) = k}

\* Mutants: any row the lag finds, and a window not partitioned by product.
LagByRow(s, r, k) == {s[x] : x \in RowLag(s, r, k)}
LagAcrossProducts(s, r, k) == {s[x] : x \in {y \in DOMAIN s : y.day = r.day - k}}

\* units_sold_lag: the value of that row when it is k days old, else null.
Lag(s, r, k) == {s[x] : x \in {y \in RowLag(s, r, k) : r.day - y.day = k}}

\* Observation count, and what the mean and the sample deviation are made of.
Statistics(s, rows) ==
  [count |-> Cardinality(rows),
   sum |-> Sum(s, rows),
   squares |-> Sum([x \in rows |-> s[x] * s[x]], rows)]

\* stddev_samp / mean <= limit: a comparison with null is not true.
CvAtMost(st, limit) ==
  /\ st.count >= 2 /\ st.sum > 0
  /\ st.count * (st.count * st.squares - st.sum * st.sum) * 10000
       <= limit * limit * (st.count - 1) * st.sum * st.sum

(***************************************************************************)
(* Classes.                                                                *)
(***************************************************************************)
\* Mutant: one observation is history enough.
XyzAnyHistory(s, r) ==
  LET st == Statistics(s, History(s, r, XyzLookback))
  IN  IF st.count < 1 THEN {}
      ELSE IF st.sum = 0 THEN {"Z"}
      ELSE IF CvAtMost(st, XyzX) THEN {"X"}
      ELSE IF CvAtMost(st, XyzY) THEN {"Y"}
      ELSE {"Z"}

XyzClass(s, r) ==
  LET st == Statistics(s, History(s, r, XyzLookback))
  IN  IF st.count < MinimumHistory THEN {}
      ELSE IF st.sum = 0 THEN {"Z"}
      ELSE IF CvAtMost(st, XyzX) THEN {"X"}
      ELSE IF CvAtMost(st, XyzY) THEN {"Y"}
      ELSE {"Z"}

VolatilitySegment(s, r) ==
  LET st == Statistics(s, History(s, r, VolatilityWindow))
  IN  IF st.count < MinimumHistory THEN "Insufficient_History"
      ELSE IF st.sum = 0 THEN "No_Demand"
      ELSE IF CvAtMost(st, VolatilityLow) THEN "Stable"
      ELSE IF CvAtMost(st, VolatilityHigh) THEN "Variable"
      ELSE "Highly_Variable"

\* The rows of the same day whose product has sold within the lookback: only
\* they have a historical revenue, and sums leave the others out.
Portfolio(s, r) ==
  {x \in DOMAIN s : x.day = r.day /\ History(s, x, AbcLookback) # {}}

HistoricalRevenue(s, r) == Price[r.product] * Sum(s, History(s, r, AbcLookback))

Revenue(s, rows) == SumFunction([x \in rows |-> HistoricalRevenue(s, x)])

\* Mutant: the cumulative revenue includes the row itself.
AheadWithSelf(s, r) ==
  {x \in Portfolio(s, r) :
     \/ HistoricalRevenue(s, x) > HistoricalRevenue(s, r)
     \/ HistoricalRevenue(s, x) = HistoricalRevenue(s, r) /\ x.product <= r.product}

\* The products ranked before this one, by revenue, then by product_id.
Ahead(s, r) ==
  {x \in Portfolio(s, r) :
     \/ HistoricalRevenue(s, x) > HistoricalRevenue(s, r)
     \/ HistoricalRevenue(s, x) = HistoricalRevenue(s, r) /\ x.product < r.product}

AbcClass(s, r) ==
  LET total == Revenue(s, Portfolio(s, r))
      prior == 100 * Revenue(s, Ahead(s, r))
  IN  IF r \notin Portfolio(s, r) \/ total = 0 THEN {}
      ELSE IF prior < AbcA * total THEN {"A"}
      ELSE IF prior < AbcB * total THEN {"B"}
      ELSE {"C"}

HistoryFeatures(s, r) ==
  [lag |-> [k \in LagDays |-> Lag(s, r, k)],
   rolling |-> [w \in RollingWindows |-> Statistics(s, History(s, r, w))],
   revenue |-> IF r \in Portfolio(s, r) THEN {HistoricalRevenue(s, r)} ELSE {},
   portfolio |-> Revenue(s, Portfolio(s, r)),
   abc |-> AbcClass(s, r),
   xyz |-> XyzClass(s, r),
   volatility |-> VolatilitySegment(s, r)]

(***************************************************************************)
(* The inventory columns of a demand row.                                  *)
(***************************************************************************)
\* Mutant: the quotient whatever the denominator.
DivideAnyway(n, d) == {<<n, d>>}

\* _safe_divide: null instead of a division by zero.
SafeDivide(n, d) == IF d = 0 THEN {} ELSE {<<n, d>>}

\* The demand row has no inventory beside it.
NoRatios == [stockout |-> {}, supply |-> {}, sellThrough |-> {}, turnover |-> {}]

DemandWindow == CHOOSE w \in RollingWindows : \A v \in RollingWindows : w <= v

\* Mutant: the mean demand is that of all rows of the product.
InventoryFeaturesOverall(s, stock, r) ==
  IF r \notin DOMAIN stock THEN NoRatios
  ELSE LET q == stock[r]
           rows == {x \in DOMAIN s : x.product = r.product}
       IN  [stockout |-> {q.closing <= 0},
            supply |-> SafeDivide(q.closing * Cardinality(rows), Sum(s, rows)),
            sellThrough |-> SafeDivide(q.sold, q.opening + q.received),
            turnover |-> SafeDivide(2 * s[r], q.opening + q.closing)]

\* is_stockout, days_of_supply over the mean demand of the shortest window,
\* sell_through_rate and inventory_turnover_proxy.  (The columns left out
\* compare the closing stock with a level of the row, or add units_ordered.)
InventoryFeatures(s, stock, r) ==
  IF r \notin DOMAIN stock THEN NoRatios
  ELSE LET q == stock[r]
           rows == History(s, r, DemandWindow)
       IN  [stockout |-> {q.closing <= 0},
            supply |-> SafeDivide(q.closing * Cardinality(rows), Sum(s, rows)),
            sellThrough |-> SafeDivide(q.sold, q.opening + q.received),
            turnover |-> SafeDivide(2 * s[r], q.opening + q.closing)]

(***************************************************************************)
(* The tables grow, the features are rebuilt.                              *)
(***************************************************************************)
Init == sales = << >> /\ inventory = << >> /\ features = << >> /\ ratios = << >>

\* An increment: rows of a day after every day ingested before, with any of
\* the products.  Days may be missing.
Deliver ==
  \E d \in 1 .. MaxDay, P \in SUBSET Products \ {{}} :
    /\ \A x \in DOMAIN sales : x.day < d
    /\ \E q \in [[day : {d}, product : P] -> Units] :
         sales' = [x \in DOMAIN sales \union DOMAIN q |->
                     IF x \in DOMAIN sales THEN sales[x] ELSE q[x]]
    /\ UNCHANGED <<inventory, features, ratios>>

\* The inventory has a watermark of its own: it may be behind the sales, or
\* ahead of them, and lack days and products they have.
DeliverInventory ==
  \E d \in 1 .. MaxDay, P \in SUBSET Products \ {{}} :
    /\ \A x \in DOMAIN inventory : x.day < d
    /\ \E q \in [[day : {d}, product : P] -> StockRows] :
         /\ \A x \in DOMAIN q : q[x].day = x.day /\ q[x].product = x.product
         /\ inventory' = [x \in DOMAIN inventory \union DOMAIN q |->
                            IF x \in DOMAIN inventory THEN inventory[x] ELSE q[x]]
    /\ UNCHANGED <<sales, features, ratios>>

\* RetailFeatureEngineer.build on all sales, each with its inventory.
Build ==
  /\ features' = [r \in DOMAIN sales |-> HistoryFeatures(sales, r)]
  /\ ratios' = [r \in DOMAIN sales |-> InventoryFeatures(sales, inventory, r)]
  /\ UNCHANGED <<sales, inventory>>

Next == Deliver \/ DeliverInventory \/ Build

Spec == Init /\ [][Next]_vars

(***************************************************************************)
(* Properties.                                                             *)
(***************************************************************************)
AtMostOne(S) == {T \in SUBSET S : Cardinality(T) <= 1}

StatisticsType == [count : Nat, sum : Nat, squares : Nat]

\* A ratio that is there has a denominator.
RatiosType ==
  LET Ratio == AtMostOne(Nat \X (Nat \ {0}))
  IN  [stockout : AtMostOne(BOOLEAN), supply : Ratio,
       sellThrough : Ratio, turnover : Ratio]

TypeOK ==
  /\ DOMAIN sales \subseteq Row
  /\ \A x \in DOMAIN sales : sales[x] \in Units
  /\ DOMAIN inventory \subseteq Row
  /\ \A x \in DOMAIN inventory : inventory[x] \in StockRows
  /\ DOMAIN features \subseteq DOMAIN sales
  /\ DOMAIN ratios = DOMAIN features
  /\ \A r \in DOMAIN ratios : ratios[r] \in RatiosType
  /\ \A r \in DOMAIN features :
       LET f == features[r]
       IN  /\ f.lag \in [LagDays -> AtMostOne(Units)]
           /\ \A w \in RollingWindows : f.rolling[w] \in StatisticsType
           /\ f.abc \in AtMostOne({"A", "B", "C"})
           /\ f.xyz \in AtMostOne({"X", "Y", "Z"})
           /\ f.volatility \in {"Insufficient_History", "No_Demand", "Stable",
                              "Variable", "Highly_Variable"}

\* Point-in-time features: a rebuild after later days were ingested gives
\* every earlier row the history features it had, and the inventory features
\* too once its inventory was there.  (windows that end before the row, a
\* portfolio of one day, a join of two tables with a watermark each)
PointInTime ==
  [][\A r \in DOMAIN features :
       /\ r \in DOMAIN features' /\ features'[r] = features[r]
       /\ ratios[r] # NoRatios => ratios'[r] = ratios[r]]_vars

\* The target does not leak into the history features: the lags, windows and
\* classes of a day would be the same had any product sold otherwise on that
\* day.  Stated where features were just built, for the last day; every day is
\* the last one in some state.
HistoryWithoutTarget ==
  DOMAIN features = DOMAIN sales =>
    \A x \in DOMAIN sales, u \in Units :
      (\A y \in DOMAIN sales : y.day <= x.day) =>
        \A r \in DOMAIN sales :
          r.day = x.day => features[r] = HistoryFeatures([sales EXCEPT ![x] = u], r)

\* The same of the inventory features, as the class's description has it
\* ("leakage-aware demand, market, and inventory features"): what was computed
\* for a day from its inventory would be the same had the day sold otherwise.
\* (inventory_turnover_proxy divides the units sold that day)
InventoryWithoutTarget ==
  DOMAIN features = DOMAIN sales =>
    \A x \in DOMAIN sales, u \in Units, r \in DOMAIN sales :
      r.day = x.day /\ ratios[r] # NoRatios =>
        ratios[r] = InventoryFeatures([sales EXCEPT ![x] = u], inventory, r)

\* A lag of k days is the sale of the calendar day k days before or null, and
\* it is that sale when no day between is missing.  (row lag and date check)
LagIsCalendarDay ==
  \A r \in DOMAIN features, k \in LagDays :
    LET ago(n) == [r EXCEPT !.day = r.day - n]
    IN  /\ \A u \in features[r].lag[k] : ago(k) \in DOMAIN sales /\ u = sales[ago(k)]
        /\ (\A n \in 1 .. k : ago(n) \in DOMAIN sales) => features[r].lag[k] # {}

ClassMembers(day, classes) ==
  {r \in DOMAIN features : r.day = day /\ features[r].abc \intersect classes # {}}

\* Pareto classes of a day: the products of class A, and those of A and B, are
\* the fewest that earn their share, they earn no less than the others, and
\* every product with history is in a class unless nothing was earned.
ParetoClasses ==
  \A day \in {r.day : r \in DOMAIN features} :
    LET earned(S) == SumFunction([x \in S |-> HistoricalRevenue(sales, x)])
        all == ClassMembers(day, {"A", "B", "C"})
        leads(S, share) ==
          all # {} =>
            /\ 100 * earned(S) >= share * earned(all)
            /\ \A x \in S, y \in all \ S : earned({x}) >= earned({y})
            /\ \E x \in S : /\ \A y \in S : earned({x}) <= earned({y})
                            /\ 100 * earned(S \ {x}) < share * earned(all)
    IN  /\ leads(ClassMembers(day, {"A"}), AbcA)
        /\ leads(ClassMembers(day, {"A", "B"}), AbcB)
        /\ \A r \in DOMAIN features \ all :
             r.day = day /\ History(sales, r, AbcLookback) # {}
               => HistoricalRevenue(sales, r) = 0

\* The classes at the end of a chain of conditions are not given to rows whose
\* coefficient of variation is null: such a row has seen at least two sales
\* that differ.  (minimum history before the first comparison)
EvidenceBehindClass ==
  \A r \in DOMAIN features :
    LET varied(window) ==
          \E x, y \in History(sales, r, window) : sales[x] # sales[y]
    IN  /\ features[r].volatility = "Highly_Variable" => varied(VolatilityWindow)
        /\ features[r].xyz = {"Z"} =>
             \/ varied(XyzLookback)
             \/ \A x \in History(sales, r, XyzLookback) : sales[x] = 0

=============================================================================
