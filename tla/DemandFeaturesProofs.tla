------------------------ MODULE DemandFeaturesProofs ------------------------
(***************************************************************************)
(* Features are point-in-time; the history features do not see the day     *)
(* they are for and count lags in calendar days; their classes are the     *)
(* Pareto classes and have evidence behind them.  For any products,        *)
(* prices, stocks, windows, thresholds and history.                        *)
(***************************************************************************)
EXTENDS DemandFeatures, FiniteSetTheorems, TLAPS

\* s and t hold the same rows up to day d, with the same values before day d.
SamePast(s, t, d) ==
  /\ \A x \in Row : x.day <= d => (x \in DOMAIN s <=> x \in DOMAIN t)
  /\ \A x \in DOMAIN s : x.day < d => t[x] = s[x]

(***************************************************************************)
(* Each operator of the model looks at the past only.                      *)
(***************************************************************************)
\* A window holds the same rows, all before the day.
LEMMA SameHistory ==
  ASSUME NEW s, NEW t, NEW r \in Row, NEW w,
         DOMAIN s \subseteq Row, DOMAIN t \subseteq Row, SamePast(s, t, r.day)
  PROVE  /\ History(t, r, w) = History(s, r, w)
         /\ \A x \in History(s, r, w) : t[x] = s[x]
BY DEF History, SamePast, Row

\* So does the history a lag is looked up in.
LEMMA SameBefore ==
  ASSUME NEW s, NEW t, NEW r \in Row,
         DOMAIN s \subseteq Row, DOMAIN t \subseteq Row, SamePast(s, t, r.day)
  PROVE  /\ Before(t, r) = Before(s, r)
         /\ \A x \in Before(s, r) : t[x] = s[x]
BY DEF Before, SamePast, Row

\* Equal values over a window have the same statistics.
LEMMA SameStatistics ==
  ASSUME NEW s, NEW t, NEW rows, \A x \in rows : t[x] = s[x]
  PROVE  /\ Sum(t, rows) = Sum(s, rows)
         /\ Statistics(t, rows) = Statistics(s, rows)
<1>1. [x \in rows |-> t[x]] = [x \in rows |-> s[x]]
  OBVIOUS
<1>2. [x \in rows |-> t[x] * t[x]] = [x \in rows |-> s[x] * s[x]]
  OBVIOUS
<1>3. Sum(t, rows) = Sum(s, rows)
  BY <1>1 DEF Sum
<1>4. QED
  BY <1>2, <1>3 DEF Statistics

\* Lags.
LEMMA SameLag ==
  ASSUME NEW s, NEW t, NEW r \in Row, NEW k,
         DOMAIN s \subseteq Row, DOMAIN t \subseteq Row, SamePast(s, t, r.day)
  PROVE  Lag(t, r, k) = Lag(s, r, k)
<1>1. Before(t, r) = Before(s, r) /\ \A x \in Before(s, r) : t[x] = s[x]
  BY SameBefore
<1>2. RowLag(t, r, k) = RowLag(s, r, k) /\ RowLag(s, r, k) \subseteq Before(s, r)
  BY <1>1 DEF RowLag
<1>3. QED
  BY <1>1, <1>2 DEF Lag

\* The rows of the day keep their historical revenue, hence their rank.
LEMMA SamePortfolio ==
  ASSUME NEW s, NEW t, NEW r \in Row,
         DOMAIN s \subseteq Row, DOMAIN t \subseteq Row, SamePast(s, t, r.day)
  PROVE  /\ Portfolio(t, r) = Portfolio(s, r)
         /\ HistoricalRevenue(t, r) = HistoricalRevenue(s, r)
         /\ \A x \in Portfolio(s, r) :
              HistoricalRevenue(t, x) = HistoricalRevenue(s, x)
<1>1. ASSUME NEW x \in Row, x.day = r.day
      PROVE  /\ History(t, x, AbcLookback) = History(s, x, AbcLookback)
             /\ HistoricalRevenue(t, x) = HistoricalRevenue(s, x)
  <2>1. SamePast(s, t, x.day)
    BY <1>1
  <2>2. /\ History(t, x, AbcLookback) = History(s, x, AbcLookback)
        /\ \A y \in History(s, x, AbcLookback) : t[y] = s[y]
    BY <2>1, SameHistory
  <2>3. Sum(t, History(s, x, AbcLookback)) = Sum(s, History(s, x, AbcLookback))
    BY <2>2, SameStatistics
  <2>4. QED
    BY <2>2, <2>3 DEF HistoricalRevenue
<1>2. \A x \in Row : x.day = r.day => (x \in DOMAIN s <=> x \in DOMAIN t)
  BY DEF SamePast, Row
<1>3. Portfolio(t, r) = Portfolio(s, r)
  BY <1>1, <1>2 DEF Portfolio
<1>4. \A x \in Portfolio(s, r) : x \in Row /\ x.day = r.day
  BY DEF Portfolio
<1>5. QED
  BY <1>1, <1>3, <1>4

\* The ABC columns.
LEMMA SameAbc ==
  ASSUME NEW s, NEW t, NEW r \in Row,
         DOMAIN s \subseteq Row, DOMAIN t \subseteq Row, SamePast(s, t, r.day)
  PROVE  /\ Revenue(t, Portfolio(t, r)) = Revenue(s, Portfolio(s, r))
         /\ AbcClass(t, r) = AbcClass(s, r)
<1>1. /\ Portfolio(t, r) = Portfolio(s, r)
      /\ HistoricalRevenue(t, r) = HistoricalRevenue(s, r)
      /\ \A x \in Portfolio(s, r) :
           HistoricalRevenue(t, x) = HistoricalRevenue(s, x)
  BY SamePortfolio
<1>2. Ahead(t, r) = Ahead(s, r) /\ Ahead(s, r) \subseteq Portfolio(s, r)
  BY <1>1 DEF Ahead
<1>3. ASSUME NEW rows, rows \subseteq Portfolio(s, r)
      PROVE  Revenue(t, rows) = Revenue(s, rows)
  <2>1. [x \in rows |-> HistoricalRevenue(t, x)]
          = [x \in rows |-> HistoricalRevenue(s, x)]
    BY <1>1, <1>3
  <2>2. QED
    BY <2>1 DEF Revenue
<1>4. /\ Revenue(t, Portfolio(t, r)) = Revenue(s, Portfolio(s, r))
      /\ Revenue(t, Ahead(t, r)) = Revenue(s, Ahead(s, r))
  BY <1>1, <1>2, <1>3
<1>5. QED
  BY <1>1, <1>4 DEF AbcClass

\* The history columns of a row depend on nothing but the rows of its day and the
\* sales before it.
LEMMA PastDecides ==
  ASSUME NEW s, NEW t, NEW r \in Row,
         DOMAIN s \subseteq Row, DOMAIN t \subseteq Row, SamePast(s, t, r.day)
  PROVE  HistoryFeatures(t, r) = HistoryFeatures(s, r)
<1>1. \A k \in LagDays : Lag(t, r, k) = Lag(s, r, k)
  BY SameLag
<1>2. ASSUME NEW w
      PROVE  Statistics(t, History(t, r, w)) = Statistics(s, History(s, r, w))
  <2>1. /\ History(t, r, w) = History(s, r, w)
        /\ \A x \in History(s, r, w) : t[x] = s[x]
    BY SameHistory
  <2>2. Statistics(t, History(s, r, w)) = Statistics(s, History(s, r, w))
    BY <2>1, SameStatistics
  <2>3. QED
    BY <2>1, <2>2
<1>3. XyzClass(t, r) = XyzClass(s, r)
  BY <1>2 DEF XyzClass
<1>4. VolatilitySegment(t, r) = VolatilitySegment(s, r)
  BY <1>2 DEF VolatilitySegment
<1>5. /\ Portfolio(t, r) = Portfolio(s, r)
      /\ HistoricalRevenue(t, r) = HistoricalRevenue(s, r)
  BY SamePortfolio
<1>6. /\ Revenue(t, Portfolio(t, r)) = Revenue(s, Portfolio(s, r))
      /\ AbcClass(t, r) = AbcClass(s, r)
  BY SameAbc
<1>7. [k \in LagDays |-> Lag(t, r, k)] = [k \in LagDays |-> Lag(s, r, k)]
  BY <1>1
<1>8. [w \in RollingWindows |-> Statistics(t, History(t, r, w))]
        = [w \in RollingWindows |-> Statistics(s, History(s, r, w))]
  BY <1>2
<1>9. QED
  BY <1>3, <1>4, <1>5, <1>6, <1>7, <1>8 DEF HistoryFeatures

(***************************************************************************)
(* The invariant: the features are those of the tables as they are now,    *)
(* though they were built from fewer rows; the inventory columns are, or   *)
(* there was no inventory.                                                 *)
(***************************************************************************)
StillValid ==
  /\ DOMAIN sales \subseteq Row
  /\ \A r \in DOMAIN features :
       r \in DOMAIN sales /\ features[r] = HistoryFeatures(sales, r)
  /\ DOMAIN ratios = DOMAIN features
  /\ \A r \in DOMAIN ratios :
       ratios[r] # NoRatios =>
         r \in DOMAIN inventory /\ ratios[r] = InventoryFeatures(sales, inventory, r)

\* Sales of later days leave the features of every row before them as they were.
LEMMA DeliverKeepsFeatures ==
  ASSUME StillValid, Deliver
  PROVE  /\ DOMAIN sales' \subseteq Row
         /\ \A r \in DOMAIN sales :
              /\ r \in DOMAIN sales'
              /\ HistoryFeatures(sales', r) = HistoryFeatures(sales, r)
              /\ InventoryFeatures(sales', inventory, r)
                   = InventoryFeatures(sales, inventory, r)
<1> USE DEF StillValid
<1>1. PICK d \in 1 .. MaxDay, P \in SUBSET Products \ {{}} :
        /\ \A x \in DOMAIN sales : x.day < d
        /\ \E q \in [[day : {d}, product : P] -> Units] :
             sales' = [x \in DOMAIN sales \union DOMAIN q |->
                         IF x \in DOMAIN sales THEN sales[x] ELSE q[x]]
  BY DEF Deliver
<1>2. PICK q \in [[day : {d}, product : P] -> Units] :
        sales' = [x \in DOMAIN sales \union DOMAIN q |->
                    IF x \in DOMAIN sales THEN sales[x] ELSE q[x]]
  BY <1>1
<1>3. \A x \in DOMAIN q : x \in Row /\ x.day = d
  <2>1. DOMAIN q = [day : {d}, product : P]
    OBVIOUS
  <2>2. P \subseteq Products
    OBVIOUS
  <2>3. \A x \in [day : {d}, product : P] : x \in Row /\ x.day = d
    BY <2>2 DEF Row
  <2>4. QED
    BY <2>1, <2>3
<1>4. DOMAIN sales' = DOMAIN sales \union DOMAIN q /\ DOMAIN sales' \subseteq Row
  BY <1>2, <1>3
<1>5. \A x \in DOMAIN sales : sales'[x] = sales[x]
  BY <1>2
<1>6. ASSUME NEW r \in DOMAIN sales
      PROVE  /\ HistoryFeatures(sales', r) = HistoryFeatures(sales, r)
             /\ InventoryFeatures(sales', inventory, r)
                  = InventoryFeatures(sales, inventory, r)
  <2>1. r \in Row /\ r.day < d
    BY <1>1
  <2>2. \A x \in Row : x.day <= r.day => (x \in DOMAIN sales <=> x \in DOMAIN sales')
    BY <1>3, <1>4, <2>1 DEF Row
  <2>3. SamePast(sales, sales', r.day)
    BY <1>5, <2>2 DEF SamePast
  <2>4. HistoryFeatures(sales', r) = HistoryFeatures(sales, r)
    BY <1>4, <2>1, <2>3, PastDecides
  <2> DEFINE rows == History(sales, r, DemandWindow)
  <2>5. History(sales', r, DemandWindow) = rows /\ \A x \in rows : sales'[x] = sales[x]
    BY <1>4, <2>1, <2>3, SameHistory
  <2>6. Sum(sales', rows) = Sum(sales, rows)
    BY <2>5, SameStatistics
  <2>7. InventoryFeatures(sales', inventory, r) = InventoryFeatures(sales, inventory, r)
    BY <1>5, <2>5, <2>6 DEF InventoryFeatures
  <2>8. QED
    BY <2>4, <2>7
<1>7. QED
  BY <1>4, <1>6

\* Inventory of later days leaves the inventory there is as it was.
LEMMA DeliverInventoryKeepsRatios ==
  ASSUME DeliverInventory, NEW r \in DOMAIN inventory
  PROVE  /\ r \in DOMAIN inventory'
         /\ InventoryFeatures(sales', inventory', r)
              = InventoryFeatures(sales, inventory, r)
<1>1. r \in DOMAIN inventory' /\ inventory'[r] = inventory[r] /\ sales' = sales
  BY DEF DeliverInventory
<1> QED
  BY <1>1 DEF InventoryFeatures

\* The invariant holds of the specification.
THEOREM FeaturesStayValid == Spec => []StillValid
<1>1. Init => StillValid
  BY DEF Init, StillValid
<1>2. StillValid /\ [Next]_vars => StillValid'
  <2> SUFFICES ASSUME StillValid, [Next]_vars PROVE StillValid'
    OBVIOUS
  <2>1. CASE Deliver
    BY <2>1, DeliverKeepsFeatures DEF StillValid, Deliver
  <2>2. CASE DeliverInventory
    BY <2>2, DeliverInventoryKeepsRatios DEF StillValid, DeliverInventory
  <2>3. CASE Build
    <3>1. \A r \in DOMAIN ratios' :
            ratios'[r] # NoRatios =>
              /\ r \in DOMAIN inventory'
              /\ ratios'[r] = InventoryFeatures(sales', inventory', r)
      BY <2>3 DEF Build, InventoryFeatures
    <3> QED
      BY <2>3, <3>1 DEF StillValid, Build
  <2>4. CASE UNCHANGED vars
    BY <2>4 DEF StillValid, vars
  <2>5. QED
    BY <2>1, <2>2, <2>3, <2>4 DEF Next
<1>3. QED
  BY <1>1, <1>2, PTL DEF Spec

\* Point-in-time features: no rebuild changes a row that was built before,
\* whatever was ingested since, but for the inventory of a row that had none.
\* (RetailFeatureEngineer.build)
THEOREM PointInTimeCorrect == Spec => PointInTime
<1>1. StillValid /\ [Next]_vars
        => [\A r \in DOMAIN features :
              /\ r \in DOMAIN features' /\ features'[r] = features[r]
              /\ ratios[r] # NoRatios => ratios'[r] = ratios[r]]_vars
  <2> SUFFICES ASSUME StillValid, Next
               PROVE  \A r \in DOMAIN features :
                        /\ r \in DOMAIN features' /\ features'[r] = features[r]
                        /\ ratios[r] # NoRatios => ratios'[r] = ratios[r]
    OBVIOUS
  <2>1. CASE Deliver \/ DeliverInventory
    BY <2>1 DEF Deliver, DeliverInventory
  <2>2. CASE Build
    BY <2>2 DEF Build, StillValid
  <2>3. QED
    BY <2>1, <2>2 DEF Next
<1>2. QED
  BY <1>1, FeaturesStayValid, PTL DEF Spec, PointInTime

\* The target does not leak into the history features: what sells on a day does
\* not enter the lags, windows and classes of that day.
\* (rangeBetween(-window, -1), the check of lagged dates)
THEOREM HistoryWithoutTargetCorrect == Spec => []HistoryWithoutTarget
<1>1. StillValid => HistoryWithoutTarget
  <2> SUFFICES ASSUME StillValid, DOMAIN features = DOMAIN sales,
                      NEW x \in DOMAIN sales, NEW u \in Units,
                      NEW r \in DOMAIN sales, r.day = x.day
               PROVE  features[r] = HistoryFeatures([sales EXCEPT ![x] = u], r)
    BY DEF HistoryWithoutTarget
  <2> DEFINE t == [sales EXCEPT ![x] = u]
  <2>1. DOMAIN t = DOMAIN sales /\ DOMAIN sales \subseteq Row /\ r \in Row
    BY DEF StillValid
  <2>2. \A y \in DOMAIN sales : y.day < r.day => t[y] = sales[y]
    <3> SUFFICES ASSUME NEW y \in DOMAIN sales, y.day < r.day
                 PROVE  t[y] = sales[y]
      OBVIOUS
    <3>1. y # x
      BY <2>1 DEF Row
    <3>2. QED
      BY <3>1
  <2>3. SamePast(sales, t, r.day)
    BY <2>1, <2>2 DEF SamePast
  <2> HIDE DEF t
  <2>4. HistoryFeatures(t, r) = HistoryFeatures(sales, r)
    BY <2>1, <2>3, PastDecides
  <2>5. QED
    BY <2>4 DEF StillValid, t
<1>2. QED
  BY <1>1, FeaturesStayValid, PTL

(***************************************************************************)
(* Lags.                                                                   *)
(***************************************************************************)
\* The row of the calendar day n days before.
Ago(r, n) == [day |-> r.day - n, product |-> r.product]

\* Without missing days there are k rows on the k days before.
LEMMA DaysAreRows ==
  ASSUME NEW s, DOMAIN s \subseteq Row, NEW r \in Row, NEW k \in Nat,
         \A n \in 1 .. k : Ago(r, n) \in DOMAIN s
  PROVE  Cardinality({y \in Before(s, r) : y.day >= r.day - k}) = k
<1> DEFINE recent == {y \in Before(s, r) : y.day >= r.day - k}
           f == [n \in 1 .. k |-> Ago(r, n)]
<1>1. r.day \in Nat /\ \A y \in DOMAIN s : y \in Row /\ y.day \in Nat
  BY ConfigAssumption DEF Row
<1>2. \A n \in 1 .. k : f[n] \in recent
  BY <1>1 DEF Before, Ago
<1>3. \A a, b \in 1 .. k : f[a] = f[b] => a = b
  BY <1>1 DEF Ago
<1>4. ASSUME NEW y \in recent
      PROVE  \E n \in 1 .. k : f[n] = y
  <2>1. /\ y \in Row /\ y.product = r.product
        /\ y.day \in Nat /\ y.day < r.day /\ y.day >= r.day - k
    BY <1>1 DEF Before
  <2>2. r.day - y.day \in 1 .. k /\ r.day - (r.day - y.day) = y.day
    BY <1>1, <2>1
  <2>3. y = [day |-> y.day, product |-> r.product]
    BY <2>1 DEF Row
  <2> QED
    BY <2>2, <2>3 DEF Ago
<1> HIDE DEF recent
<1>5. f \in Bijection(1 .. k, recent)
  BY <1>2, <1>3, <1>4 DEF Bijection, Injection, Surjection, IsInjective
<1>6. IsFiniteSet(1 .. k) /\ Cardinality(1 .. k) = k
  BY FS_Interval
<1>7. Cardinality(recent) = k
  BY <1>5, <1>6, FS_Bijection DEF ExistsBijection
<1> QED
  BY <1>7 DEF recent

\* A lag of k days is the sale of the calendar day k days before or null, and
\* not null when no day between is missing.  (row lag and date check)
THEOREM LagIsCalendarDayCorrect == Spec => []LagIsCalendarDay
<1>1. StillValid => LagIsCalendarDay
  <2> SUFFICES ASSUME StillValid, NEW r \in DOMAIN features, NEW k \in LagDays
               PROVE  /\ \A u \in features[r].lag[k] :
                           Ago(r, k) \in DOMAIN sales /\ u = sales[Ago(r, k)]
                      /\ (\A n \in 1 .. k : Ago(r, n) \in DOMAIN sales)
                           => features[r].lag[k] # {}
    <3>1. ASSUME StillValid, NEW r \in DOMAIN features, NEW n
          PROVE  [r EXCEPT !.day = r.day - n] = Ago(r, n)
      BY <3>1 DEF StillValid, Row, Ago
    <3> QED
      BY <3>1 DEF LagIsCalendarDay
  <2>1. /\ DOMAIN sales \subseteq Row /\ r \in Row /\ k \in Nat \ {0}
        /\ r.day \in Nat
        /\ features[r].lag[k] = Lag(sales, r, k)
    BY ConfigAssumption DEF ValidConfig, StillValid, HistoryFeatures, Row
  <2>2. ASSUME NEW u \in Lag(sales, r, k)
        PROVE  Ago(r, k) \in DOMAIN sales /\ u = sales[Ago(r, k)]
    <3>1. PICK x \in RowLag(sales, r, k) : r.day - x.day = k /\ u = sales[x]
      BY DEF Lag
    <3>2. x \in DOMAIN sales /\ x \in Row /\ x.product = r.product /\ x.day \in Nat
      BY <2>1 DEF RowLag, Before, Row
    <3>3. x = Ago(r, k)
      BY <2>1, <3>1, <3>2 DEF Ago, Row
    <3> QED
      BY <3>1, <3>2, <3>3
  <2>3. ASSUME \A n \in 1 .. k : Ago(r, n) \in DOMAIN sales
        PROVE  Lag(sales, r, k) # {}
    <3> DEFINE x == Ago(r, k)
    <3>1. x \in DOMAIN sales /\ x.day = r.day - k /\ x.product = r.product
      BY <2>1, <2>3 DEF Ago
    <3>2. Cardinality({y \in Before(sales, r) : y.day >= x.day}) = k
      BY <2>1, <2>3, <3>1, DaysAreRows
    <3>3. x \in Before(sales, r) /\ r.day - x.day = k
      BY <2>1, <3>1 DEF Before
    <3> HIDE DEF x
    <3>4. x \in RowLag(sales, r, k)
      BY <3>2, <3>3 DEF RowLag
    <3> QED
      BY <3>3, <3>4 DEF Lag
  <2> QED
    BY <2>1, <2>2, <2>3
<1> QED
  BY <1>1, FeaturesStayValid, PTL

(***************************************************************************)
(* Sums.  SumFunction takes the elements of a finite set off one by one;   *)
(* what it computes is shown by induction over the number of elements.     *)
(***************************************************************************)
\* Induction, for a set of numbers.
LEMMA EveryNumber ==
  ASSUME NEW S \in SUBSET Nat, 0 \in S, \A n \in S : n + 1 \in S
  PROVE  \A n \in Nat : n \in S
<1> DEFINE Less == {ss \in Nat \X Nat : ss[1] < ss[2]}
           T == Nat \ S
<1> SUFFICES ASSUME T # {} PROVE FALSE
  OBVIOUS
<1>1. IsWellFoundedOn(Less, Nat)
  BY NatLessThanWellFounded DEF OpToRel
<1>2. \A x, y \in Nat : y < x => <<y, x>> \in Less
  OBVIOUS
<1>3. PICK x \in T : \A y \in T : ~(<<y, x>> \in Less)
  <2> HIDE DEF Less, T
  <2>1. T \subseteq Nat
    BY DEF T
  <2> QED
    BY <1>1, <2>1, WFMin
<1>4. x # 0 /\ x - 1 \in Nat /\ x - 1 < x
  OBVIOUS
<1>5. x - 1 \in S
  BY <1>2, <1>3, <1>4
<1>6. (x - 1) + 1 = x
  OBVIOUS
<1> QED
  BY <1>5, <1>6

\* The element a fold takes first, and the sum over each subset of the domain.
First(s) == CHOOSE x \in s : TRUE
FirstAnd(f, g, s) == IF s = {} THEN 0 ELSE f[First(s)] + g[s \ {First(s)}]
Running(f) == CHOOSE g : g = [s \in SUBSET DOMAIN f |-> FirstAnd(f, g, s)]

LEMMA SumIsRunning == ASSUME NEW f PROVE SumFunction(f) = Running(f)[DOMAIN f]
BY DEF SumFunction, SumFunctionOnSet, FoldFunctionOnSet, MapThenFoldSet, Running,
   FirstAnd, First

LEMMA FirstElement ==
  ASSUME NEW s, s # {}, IsFiniteSet(s)
  PROVE  /\ First(s) \in s
         /\ IsFiniteSet(s \ {First(s)})
         /\ Cardinality(s) \in Nat \ {0}
         /\ Cardinality(s \ {First(s)}) = Cardinality(s) - 1
<1>1. First(s) \in s
  BY DEF First
<1> QED
  BY <1>1, FS_RemoveElement, FS_CardinalityType, FS_EmptySet

\* The recursion has a solution, built up by the size of the subset.
LEMMA RunningExists ==
  ASSUME NEW f, IsFiniteSet(DOMAIN f)
  PROVE  Running(f) = [s \in SUBSET DOMAIN f |-> FirstAnd(f, Running(f), s)]
<1> DEFINE D == DOMAIN f
           Solves(g, n) ==
             \A s \in SUBSET D : Cardinality(s) <= n => g[s] = FirstAnd(f, g, s)
           Solved == {n \in Nat : \E g : Solves(g, n)}
<1>0. \A s \in SUBSET D : IsFiniteSet(s) /\ Cardinality(s) \in Nat
  BY FS_Subset, FS_CardinalityType
<1>1. 0 \in Solved
  <2>1. Solves([s \in SUBSET D |-> 0], 0)
    BY <1>0, FS_EmptySet DEF FirstAnd
  <2> QED
    BY <2>1
<1>2. ASSUME NEW n \in Solved
      PROVE  n + 1 \in Solved
  <2>1. PICK g : Solves(g, n)
    OBVIOUS
  <2> DEFINE h == [s \in SUBSET D |-> IF Cardinality(s) <= n THEN g[s] ELSE FirstAnd(f, g, s)]
  <2>2. ASSUME NEW s \in SUBSET D, Cardinality(s) <= n + 1
        PROVE  h[s] = FirstAnd(f, h, s)
    <3>1. h[s] = FirstAnd(f, g, s)
      BY <2>1
    <3>2. CASE s = {}
      BY <3>1, <3>2 DEF FirstAnd
    <3>3. CASE s # {}
      <4> DEFINE t == s \ {First(s)}
      <4>1. t \in SUBSET D /\ Cardinality(t) <= n
        BY <1>0, <2>2, <3>3, FirstElement
      <4>2. h[t] = g[t]
        BY <4>1
      <4> QED
        BY <3>1, <3>3, <4>2 DEF FirstAnd
    <3> QED
      BY <3>2, <3>3
  <2> HIDE DEF h
  <2>3. Solves(h, n + 1)
    BY <2>2
  <2> QED
    BY <2>3
<1>3. Cardinality(D) \in Nat /\ \A s \in SUBSET D : Cardinality(s) <= Cardinality(D)
  BY FS_Subset, FS_CardinalityType
<1>4. Cardinality(D) \in Solved
  <2> HIDE DEF Solved
  <2>1. Solved \in SUBSET Nat
    BY DEF Solved
  <2> QED
    BY <1>1, <1>2, <1>3, <2>1, EveryNumber
<1>5. PICK g : Solves(g, Cardinality(D))
  BY <1>4
<1>6. \A s \in SUBSET D : g[s] = FirstAnd(f, g, s)
  BY <1>3, <1>5
<1> DEFINE h == [s \in SUBSET D |-> g[s]]
<1>7. h = [s \in SUBSET D |-> FirstAnd(f, h, s)]
  <2>1. ASSUME NEW s \in SUBSET D
        PROVE  h[s] = FirstAnd(f, h, s)
    BY <1>6, <2>1 DEF FirstAnd
  <2> QED
    BY <2>1
<1> HIDE DEF h
<1> QED
  BY <1>7 DEF Running

LEMMA SubsetsWellFounded ==
  ASSUME NEW D, IsFiniteSet(D)
  PROVE  IsWellFoundedOn(StrictSubsetOrdering(D), SUBSET D)
<1>1. IsWellFoundedOn(StrictSubsetOrdering(D), FiniteSubsetsOf(D))
  BY FS_StrictSubsetOrderingWellFounded
<1>2. FiniteSubsetsOf(D) = SUBSET D
  BY FS_FiniteSubsetsOfFinite
<1> QED
  BY <1>1, <1>2

\* Induction over the subsets of a finite set.
LEMMA EverySubset ==
  ASSUME NEW D, IsFiniteSet(D), NEW G,
         \A s \in SUBSET D : (\A t \in SUBSET s : t # s => t \in G) => s \in G
  PROVE  \A s \in SUBSET D : s \in G
<1> DEFINE T == {s \in SUBSET D : s \notin G}
<1> SUFFICES ASSUME T # {} PROVE FALSE
  OBVIOUS
<1>1. IsWellFoundedOn(StrictSubsetOrdering(D), SUBSET D)
  BY SubsetsWellFounded
<1>2. PICK s \in T : \A t \in T : ~(<<t, s>> \in StrictSubsetOrdering(D))
  <2>1. T \subseteq SUBSET D
    OBVIOUS
  <2> HIDE DEF T
  <2> QED
    BY <1>1, <2>1, WFMin
<1>3. \A t \in SUBSET s : t # s => <<t, s>> \in StrictSubsetOrdering(D)
  BY DEF StrictSubsetOrdering
<1>4. \A t \in SUBSET s : t # s => t \in G
  <2> SUFFICES ASSUME NEW t \in SUBSET s, t # s, t \notin G PROVE FALSE
    OBVIOUS
  <2>1. t \in T /\ <<t, s>> \in StrictSubsetOrdering(D)
    BY <1>3
  <2> QED
    BY <1>2, <2>1
<1> QED
  BY <1>4

\* A sum of natural numbers is one.
LEMMA RunningIsNat ==
  ASSUME NEW D, IsFiniteSet(D), NEW f \in [D -> Nat]
  PROVE  \A s \in SUBSET D : Running(f)[s] \in Nat
<1> DEFINE G == {s \in SUBSET D : Running(f)[s] \in Nat}
<1>1. ASSUME NEW s \in SUBSET D, \A t \in SUBSET s : t # s => t \in G
      PROVE  s \in G
  <2>1. Running(f)[s] = FirstAnd(f, Running(f), s)
    BY RunningExists
  <2>2. CASE s = {}
    BY <2>1, <2>2 DEF FirstAnd
  <2>3. CASE s # {}
    <3>1. First(s) \in s
      BY <2>3 DEF First
    <3>2. s \ {First(s)} \in G
      BY <1>1, <3>1
    <3> QED
      BY <2>1, <2>3, <3>1, <3>2 DEF FirstAnd
  <2> QED
    BY <2>2, <2>3
<1> HIDE DEF G
<1>2. \A s \in SUBSET D : s \in G
  BY <1>1, EverySubset
<1> QED
  BY <1>2 DEF G

\* Any element may be the first.
LEMMA RunningWithout ==
  ASSUME NEW D, IsFiniteSet(D), NEW f \in [D -> Nat]
  PROVE  \A s \in SUBSET D : \A x \in s : Running(f)[s] = f[x] + Running(f)[s \ {x}]
<1> DEFINE R == Running(f)
           G == {s \in SUBSET D : \A x \in s : R[s] = f[x] + R[s \ {x}]}
<1>1. ASSUME NEW s \in SUBSET D, \A t \in SUBSET s : t # s => t \in G
      PROVE  s \in G
  <2> SUFFICES ASSUME NEW x \in s PROVE R[s] = f[x] + R[s \ {x}]
    OBVIOUS
  <2> DEFINE c == First(s)
  <2>1. c \in s
    BY DEF First
  <2>2. R[s] = f[c] + R[s \ {c}]
    BY RunningExists DEF FirstAnd
  <2>3. CASE c = x
    BY <2>2, <2>3
  <2>4. CASE c # x
    <3>1. s \ {c} \in G /\ s \ {x} \in G
      BY <1>1, <2>1
    <3>2. R[s \ {c}] = f[x] + R[(s \ {c}) \ {x}]
      BY <2>4, <3>1
    <3>3. R[s \ {x}] = f[c] + R[(s \ {x}) \ {c}]
      BY <2>1, <2>4, <3>1
    <3>4. (s \ {c}) \ {x} = (s \ {x}) \ {c} /\ (s \ {c}) \ {x} \in SUBSET D
      OBVIOUS
    <3>5. f[x] \in Nat /\ f[c] \in Nat /\ R[(s \ {c}) \ {x}] \in Nat
      BY <2>1, <3>4, RunningIsNat
    <3>6. R[s] = f[c] + (f[x] + R[(s \ {c}) \ {x}])
      BY <2>2, <3>2
    <3>7. f[x] + R[s \ {x}] = f[x] + (f[c] + R[(s \ {c}) \ {x}])
      BY <3>3, <3>4
    <3> HIDE DEF R, c
    <3> QED
      BY <3>5, <3>6, <3>7
  <2> QED
    BY <2>3, <2>4
<1> HIDE DEF G
<1>2. \A s \in SUBSET D : s \in G
  BY <1>1, EverySubset
<1> QED
  BY <1>2 DEF G

\* The sum over a part of the domain does not depend on the rest.
LEMMA SumOfPart ==
  ASSUME NEW D, IsFiniteSet(D), NEW f \in [D -> Nat], NEW part \in SUBSET D
  PROVE  SumFunction([x \in part |-> f[x]]) = Running(f)[part]
<1> DEFINE p == [x \in part |-> f[x]]
           G == {s \in SUBSET part : Running(p)[s] = Running(f)[s]}
<1>0. IsFiniteSet(part) /\ DOMAIN p = part
  BY FS_Subset
<1>1. ASSUME NEW s \in SUBSET part, \A t \in SUBSET s : t # s => t \in G
      PROVE  s \in G
  <2>1. /\ Running(f)[s] = FirstAnd(f, Running(f), s)
        /\ Running(p)[s] = FirstAnd(p, Running(p), s)
    BY <1>0, RunningExists
  <2>2. CASE s = {}
    BY <2>1, <2>2 DEF FirstAnd
  <2>3. CASE s # {}
    <3>1. First(s) \in s
      BY <2>3 DEF First
    <3>2. s \ {First(s)} \in G /\ p[First(s)] = f[First(s)]
      BY <1>1, <3>1
    <3> HIDE DEF p
    <3> QED
      BY <2>1, <2>3, <3>2 DEF FirstAnd
  <2> QED
    BY <2>2, <2>3
<1> HIDE DEF G
<1>2. \A s \in SUBSET part : s \in G
  BY <1>0, <1>1, EverySubset
<1>3. Running(p)[part] = Running(f)[part]
  BY <1>2 DEF G
<1> HIDE DEF p
<1> QED
  BY <1>0, <1>3, SumIsRunning DEF p
\* The sum of a table over some of its rows.
Total(f, part) == SumFunction([x \in part |-> f[x]])

LEMMA TotalFacts ==
  ASSUME NEW D, IsFiniteSet(D), NEW f \in [D -> Nat]
  PROVE  /\ Total(f, {}) = 0
         /\ \A part \in SUBSET D :
              /\ Total(f, part) \in Nat
              /\ \A x \in part : Total(f, part) = f[x] + Total(f, part \ {x})
<1>1. \A part \in SUBSET D : Total(f, part) = Running(f)[part]
  BY SumOfPart DEF Total
<1>2. Running(f)[{}] = 0
  BY RunningExists DEF FirstAnd
<1>3. ASSUME NEW part \in SUBSET D, NEW x \in part
      PROVE  Total(f, part) = f[x] + Total(f, part \ {x})
  <2>1. part \ {x} \in SUBSET D
    OBVIOUS
  <2>2. Running(f)[part] = f[x] + Running(f)[part \ {x}]
    BY RunningWithout
  <2> QED
    BY <1>1, <2>1, <2>2
<1>4. \A part \in SUBSET D : Total(f, part) \in Nat
  BY <1>1, RunningIsNat
<1>5. Total(f, {}) = 0
  BY <1>1, <1>2
<1> QED
  BY <1>3, <1>4, <1>5

\* More rows earn no less.
LEMMA TotalGrows ==
  ASSUME NEW D, IsFiniteSet(D), NEW f \in [D -> Nat],
         NEW whole \in SUBSET D, NEW part \in SUBSET whole
  PROVE  Total(f, part) <= Total(f, whole)
<1> DEFINE G == {s \in SUBSET D : \A t \in SUBSET s : Total(f, t) <= Total(f, s)}
<1>1. ASSUME NEW s \in SUBSET D, \A t \in SUBSET s : t # s => t \in G
      PROVE  s \in G
  <2> SUFFICES ASSUME NEW t \in SUBSET s PROVE Total(f, t) <= Total(f, s)
    OBVIOUS
  <2>1. Total(f, t) \in Nat /\ Total(f, s) \in Nat
    BY TotalFacts
  <2>2. CASE t = s
    BY <2>1, <2>2
  <2>3. CASE t # s
    <3>1. PICK x \in s : x \notin t
      BY <2>3
    <3>2. s \ {x} \in G /\ t \in SUBSET (s \ {x}) /\ s \ {x} \in SUBSET D
      BY <1>1, <3>1
    <3>3. Total(f, s) = f[x] + Total(f, s \ {x}) /\ Total(f, s \ {x}) \in Nat
      BY <3>2, TotalFacts
    <3>4. Total(f, t) <= Total(f, s \ {x}) /\ f[x] \in Nat
      BY <3>1, <3>2
    <3> QED
      BY <2>1, <3>3, <3>4
  <2> QED
    BY <2>2, <2>3
<1> HIDE DEF G
<1>2. \A s \in SUBSET D : s \in G
  BY <1>1, EverySubset
<1> QED
  BY <1>2 DEF G

\* Equal rows.
LEMMA TotalOfEqual ==
  ASSUME NEW D, IsFiniteSet(D), NEW f \in [D -> Nat], NEW v \in Nat,
         \A x \in D : f[x] = v
  PROVE  Total(f, D) = Cardinality(D) * v
<1> DEFINE G == {s \in SUBSET D : Total(f, s) = Cardinality(s) * v}
<1>1. ASSUME NEW s \in SUBSET D, \A t \in SUBSET s : t # s => t \in G
      PROVE  s \in G
  <2>1. CASE s = {}
    BY <2>1, TotalFacts, FS_EmptySet
  <2>2. CASE s # {}
    <3>1. PICK x \in s : TRUE
      BY <2>2
    <3>2. s \ {x} \in G
      BY <1>1, <3>1
    <3>3. Total(f, s) = v + Cardinality(s \ {x}) * v
      BY <3>1, <3>2, TotalFacts
    <3>4. IsFiniteSet(s) /\ IsFiniteSet(s \ {x})
      BY FS_Subset
    <3>5. Cardinality(s) = Cardinality(s \ {x}) + 1 /\ Cardinality(s \ {x}) \in Nat
      BY <3>1, <3>4, FS_RemoveElement, FS_CardinalityType
    <3>6. \A n \in Nat : v + n * v = (n + 1) * v
      OBVIOUS
    <3> QED
      BY <3>3, <3>5, <3>6
  <2> QED
    BY <2>1, <2>2
<1> HIDE DEF G
<1>2. \A s \in SUBSET D : s \in G
  BY <1>1, EverySubset
<1> QED
  BY <1>2 DEF G

(***************************************************************************)
(* Types, and classes that have evidence behind them.                      *)
(***************************************************************************)
\* A table of sales as ingestion leaves it.
SalesTable(s) == DOMAIN s \subseteq Row /\ \A x \in DOMAIN s : s[x] \in Units

LEMMA RowsAreFinite ==
  /\ IsFiniteSet(Row)
  /\ \A s : SalesTable(s) =>
       \A rows \in SUBSET DOMAIN s : IsFiniteSet(rows) /\ Cardinality(rows) \in Nat
<1> DEFINE pair == [r \in Row |-> <<r.day, r.product>>]
           pairs == (1 .. MaxDay) \X Products
<1>1. IsFiniteSet(pairs)
  <2>1. IsFiniteSet(1 .. MaxDay)
    BY ConfigAssumption, FS_Interval
  <2> QED
    BY <2>1, ConfigAssumption, FS_Product
<1>2. pair \in Injection(Row, pairs)
  <2>1. \A r \in Row : pair[r] \in pairs
    BY DEF Row
  <2>2. ASSUME NEW a \in Row, NEW b \in Row, pair[a] = pair[b]
        PROVE  a = b
    BY <2>2 DEF Row
  <2> QED
    BY <2>1, <2>2 DEF Injection, IsInjective
<1>3. IsFiniteSet(Row)
  <2> HIDE DEF pair, pairs
  <2> QED
    BY <1>1, <1>2, FS_Injection
<1>4. ASSUME NEW s, SalesTable(s), NEW rows \in SUBSET DOMAIN s
      PROVE  IsFiniteSet(rows) /\ Cardinality(rows) \in Nat
  <2>1. rows \in SUBSET Row
    BY <1>4 DEF SalesTable
  <2> QED
    BY <1>3, <2>1, FS_Subset, FS_CardinalityType
<1> QED
  BY <1>3, <1>4

\* The sums of a window, in terms of Total.
LEMMA SumFacts ==
  ASSUME NEW s, SalesTable(s), NEW rows \in SUBSET DOMAIN s
  PROVE  LET units == [x \in rows |-> s[x]]
             squares == [x \in rows |-> s[x] * s[x]]
         IN  /\ units \in [rows -> Nat] /\ squares \in [rows -> Nat]
             /\ Sum(s, rows) = Total(units, rows)
             /\ Statistics(s, rows).squares = Total(squares, rows)
             /\ Statistics(s, rows) \in StatisticsType
<1> DEFINE units == [x \in rows |-> s[x]]
           squares == [x \in rows |-> s[x] * s[x]]
<1>1. \A x \in rows : s[x] \in Nat
  BY ConfigAssumption DEF SalesTable
<1>2. units \in [rows -> Nat] /\ squares \in [rows -> Nat]
  <2>1. \A n \in Nat : n * n \in Nat
    OBVIOUS
  <2> QED
    BY <1>1, <2>1
<1>3. units = [x \in rows |-> units[x]] /\ squares = [x \in rows |-> squares[x]]
  OBVIOUS
<1>4. Sum(s, rows) = Total(units, rows)
  BY <1>3 DEF Sum, Total
<1>5. Sum(squares, rows) = Total(squares, rows)
  BY DEF Sum, Total
<1>6. IsFiniteSet(rows) /\ Cardinality(rows) \in Nat
  BY RowsAreFinite
<1>7. Total(units, rows) \in Nat /\ Total(squares, rows) \in Nat
  <2> HIDE DEF units, squares
  <2> QED
    BY <1>2, <1>6, TotalFacts
<1>8. Statistics(s, rows) = [count |-> Cardinality(rows), sum |-> Sum(s, rows),
                             squares |-> Sum(squares, rows)]
  BY DEF Statistics
<1> HIDE DEF units, squares
<1>9. /\ Statistics(s, rows).squares = Total(squares, rows)
      /\ Statistics(s, rows) \in StatisticsType
  BY <1>4, <1>5, <1>6, <1>7, <1>8 DEF StatisticsType
<1> QED
  BY <1>2, <1>4, <1>9 DEF units, squares

LEMMA WindowsAreRows ==
  ASSUME NEW s, NEW r, NEW w
  PROVE  History(s, r, w) \in SUBSET DOMAIN s
BY DEF History

\* A lag finds one row at most.
LEMMA LagType ==
  ASSUME NEW s, SalesTable(s), NEW r \in Row, NEW k \in LagDays
  PROVE  Lag(s, r, k) \in AtMostOne(Units)
<1>1. ASSUME NEW u \in Lag(s, r, k)
      PROVE  u = s[Ago(r, k)] /\ u \in Units
  <2>1. PICK x \in RowLag(s, r, k) : r.day - x.day = k /\ u = s[x]
    BY DEF Lag
  <2>2. x \in DOMAIN s /\ x \in Row /\ x.product = r.product
    BY DEF RowLag, Before, SalesTable
  <2>3. x.day = r.day - k
    BY <2>1, <2>2, ConfigAssumption DEF Row
  <2>4. x = Ago(r, k)
    BY <2>2, <2>3 DEF Ago, Row
  <2> QED
    BY <2>1, <2>2, <2>4 DEF SalesTable
<1>2. Lag(s, r, k) \in SUBSET {s[Ago(r, k)]} /\ Lag(s, r, k) \subseteq Units
  BY <1>1
<1>3. IsFiniteSet({s[Ago(r, k)]}) /\ Cardinality({s[Ago(r, k)]}) = 1
  BY FS_Singleton
<1>4. Cardinality(Lag(s, r, k)) <= 1
  BY <1>2, <1>3, FS_Subset
<1> QED
  BY <1>2, <1>4 DEF AtMostOne

LEMMA OneOrNone ==
  /\ \A S : {} \in AtMostOne(S)
  /\ \A S : \A x \in S : {x} \in AtMostOne(S)
BY FS_EmptySet, FS_Singleton DEF AtMostOne

LEMMA ClassTypes ==
  ASSUME NEW s, NEW r
  PROVE  /\ AbcClass(s, r) \in AtMostOne({"A", "B", "C"})
         /\ XyzClass(s, r) \in AtMostOne({"X", "Y", "Z"})
         /\ VolatilitySegment(s, r) \in {"Insufficient_History", "No_Demand",
                                         "Stable", "Variable", "Highly_Variable"}
<1>1. AbcClass(s, r) \in {{}, {"A"}, {"B"}, {"C"}}
  BY DEF AbcClass
<1>2. XyzClass(s, r) \in {{}, {"X"}, {"Y"}, {"Z"}}
  BY DEF XyzClass
<1>3. VolatilitySegment(s, r) \in {"Insufficient_History", "No_Demand", "Stable",
                                   "Variable", "Highly_Variable"}
  BY DEF VolatilitySegment
<1> QED
  BY <1>1, <1>2, <1>3, OneOrNone

(***************************************************************************)
(* The invariant with what the classes need: the sales are numbers, and a  *)
(* day that has features has them for each of its sales.                   *)
(***************************************************************************)
WholeDays ==
  \A r \in DOMAIN features, x \in DOMAIN sales :
    x.day = r.day => x \in DOMAIN features

InventoryTable ==
  DOMAIN inventory \subseteq Row /\ \A x \in DOMAIN inventory : inventory[x] \in StockRows

IInv == StillValid /\ SalesTable(sales) /\ InventoryTable /\ WholeDays

\* The invariant holds of the specification.  (an ingestion run publishes a day
\* whole, build makes the features of all sales)
THEOREM IInvCorrect == Spec => []IInv
<1>1. Init => SalesTable(sales) /\ InventoryTable /\ WholeDays
  BY DEF Init, SalesTable, InventoryTable, WholeDays
<1>2. StillValid /\ SalesTable(sales) /\ InventoryTable /\ WholeDays /\ [Next]_vars
        => SalesTable(sales)' /\ InventoryTable' /\ WholeDays'
  <2> SUFFICES ASSUME StillValid, SalesTable(sales), InventoryTable, WholeDays,
                      [Next]_vars
               PROVE  SalesTable(sales)' /\ InventoryTable' /\ WholeDays'
    OBVIOUS
  <2>1. CASE Deliver
    <3>1. PICK d \in 1 .. MaxDay, P \in SUBSET Products \ {{}} :
            /\ \A x \in DOMAIN sales : x.day < d
            /\ \E q \in [[day : {d}, product : P] -> Units] :
                 sales' = [x \in DOMAIN sales \union DOMAIN q |->
                             IF x \in DOMAIN sales THEN sales[x] ELSE q[x]]
      BY <2>1 DEF Deliver
    <3>2. PICK q \in [[day : {d}, product : P] -> Units] :
            sales' = [x \in DOMAIN sales \union DOMAIN q |->
                        IF x \in DOMAIN sales THEN sales[x] ELSE q[x]]
      BY <3>1
    <3>3. DOMAIN sales' = DOMAIN sales \union [day : {d}, product : P]
      BY <3>2
    <3>4. \A x \in DOMAIN sales' : sales'[x] \in Units
      BY <3>2 DEF SalesTable
    <3>5. \A x \in [day : {d}, product : P] : x \in Row /\ x.day = d
      <4>1. P \subseteq Products
        OBVIOUS
      <4> QED
        BY <4>1 DEF Row
    <3>6. features' = features /\ DOMAIN features \subseteq DOMAIN sales
      BY <2>1 DEF Deliver, StillValid
    <3>7. \A r \in DOMAIN features : r.day # d
      BY <3>1, <3>6 DEF SalesTable, Row
    <3>8. WholeDays'
      BY <3>3, <3>5, <3>6, <3>7 DEF WholeDays
    <3>9. SalesTable(sales)'
      BY <3>3, <3>4, <3>5 DEF SalesTable
    <3>10. InventoryTable'
      BY <2>1 DEF Deliver, InventoryTable
    <3> QED
      BY <3>8, <3>9, <3>10
  <2>2. CASE DeliverInventory
    <3>1. PICK d \in 1 .. MaxDay, P \in SUBSET Products \ {{}} :
            \E q \in [[day : {d}, product : P] -> StockRows] :
              inventory' = [x \in DOMAIN inventory \union DOMAIN q |->
                              IF x \in DOMAIN inventory THEN inventory[x] ELSE q[x]]
      BY <2>2 DEF DeliverInventory
    <3>2. PICK q \in [[day : {d}, product : P] -> StockRows] :
            inventory' = [x \in DOMAIN inventory \union DOMAIN q |->
                            IF x \in DOMAIN inventory THEN inventory[x] ELSE q[x]]
      BY <3>1
    <3>3. P \subseteq Products
      OBVIOUS
    <3>4. [day : {d}, product : P] \subseteq Row
      BY <3>3 DEF Row
    <3>5. InventoryTable'
      BY <3>2, <3>4 DEF InventoryTable
    <3> QED
      BY <2>2, <3>5 DEF DeliverInventory, SalesTable, WholeDays
  <2>3. CASE Build
    BY <2>3 DEF Build, SalesTable, InventoryTable, WholeDays
  <2>4. CASE UNCHANGED vars
    BY <2>4 DEF vars, SalesTable, InventoryTable, WholeDays
  <2> QED
    BY <2>1, <2>2, <2>3, <2>4 DEF Next
<1> QED
  BY <1>1, <1>2, FeaturesStayValid, PTL DEF Spec, IInv

\* The columns of an inventory row: no ratio has a zero denominator.
LEMMA RatiosAreTyped ==
  /\ NoRatios \in RatiosType
  /\ \A s : SalesTable(s) =>
       \A stock : (\A x \in DOMAIN stock : stock[x] \in StockRows) =>
         \A r \in DOMAIN s : InventoryFeatures(s, stock, r) \in RatiosType
<1> DEFINE Ratio == AtMostOne(Nat \X (Nat \ {0}))
<1>1. NoRatios \in RatiosType
  BY OneOrNone DEF NoRatios, RatiosType
<1>2. \A n, d \in Nat : SafeDivide(n, d) \in Ratio
  BY OneOrNone DEF SafeDivide
<1>3. ASSUME NEW s, SalesTable(s), NEW stock,
             \A x \in DOMAIN stock : stock[x] \in StockRows,
             NEW r \in DOMAIN s, r \in DOMAIN stock
      PROVE  InventoryFeatures(s, stock, r) \in RatiosType
  <2> DEFINE q == stock[r]
             rows == History(s, r, DemandWindow)
  <2>1. /\ q.opening \in Nat /\ q.received \in Nat
        /\ q.sold \in Nat /\ q.closing \in Nat
    BY <1>3, ConfigAssumption DEF AcceptedStock
  <2>2. s[r] \in Nat
    BY <1>3, ConfigAssumption DEF SalesTable
  <2>3. Cardinality(rows) \in Nat /\ Sum(s, rows) \in Nat
    <3>1. rows \in SUBSET DOMAIN s
      BY WindowsAreRows
    <3>2. Statistics(s, rows) \in StatisticsType
      BY <1>3, <3>1, SumFacts
    <3> QED
      BY <3>2 DEF Statistics, StatisticsType
  <2> HIDE DEF q, rows
  <2>4. /\ q.closing * Cardinality(rows) \in Nat /\ q.opening + q.received \in Nat
        /\ 2 * s[r] \in Nat /\ q.opening + q.closing \in Nat
    BY <2>1, <2>2, <2>3
  <2>5. {q.closing <= 0} \in AtMostOne(BOOLEAN)
    <3>1. (q.closing <= 0) \in BOOLEAN
      OBVIOUS
    <3>2. \A b \in BOOLEAN : {b} \in AtMostOne(BOOLEAN)
      BY OneOrNone
    <3> QED
      BY <3>1, <3>2, Zenon
  <2> DEFINE supply == SafeDivide(q.closing * Cardinality(rows), Sum(s, rows))
             sellThrough == SafeDivide(q.sold, q.opening + q.received)
             turnover == SafeDivide(2 * s[r], q.opening + q.closing)
  <2>6. supply \in Ratio /\ sellThrough \in Ratio /\ turnover \in Ratio
    BY <1>2, <2>1, <2>3, <2>4
  <2>7. InventoryFeatures(s, stock, r)
          = [stockout |-> {q.closing <= 0}, supply |-> supply,
             sellThrough |-> sellThrough, turnover |-> turnover]
    BY <1>3 DEF InventoryFeatures, q, rows
  <2> HIDE DEF supply, sellThrough, turnover
  <2> QED
    BY <2>5, <2>6, <2>7 DEF RatiosType
<1>4. \A s, stock, r : r \notin DOMAIN stock => InventoryFeatures(s, stock, r) = NoRatios
  BY DEF InventoryFeatures
<1> QED
  BY <1>1, <1>3, <1>4

\* Every feature of every row keeps its type: lags are null or a quantity, the
\* windows' counts and sums natural numbers, a row is in one class at most, and
\* no ratio has a zero denominator.
\* (RetailFeatureEngineer.build)
THEOREM TypeCorrect == Spec => []TypeOK
<1>1. IInv => TypeOK
  <2> SUFFICES ASSUME IInv, NEW r \in DOMAIN features
               PROVE  /\ ratios[r] \in RatiosType
                      /\ features[r].lag \in [LagDays -> AtMostOne(Units)]
                      /\ \A w \in RollingWindows :
                           features[r].rolling[w] \in StatisticsType
                      /\ features[r].abc \in AtMostOne({"A", "B", "C"})
                      /\ features[r].xyz \in AtMostOne({"X", "Y", "Z"})
                      /\ features[r].volatility
                           \in {"Insufficient_History", "No_Demand", "Stable",
                                "Variable", "Highly_Variable"}
    BY DEF IInv, StillValid, SalesTable, InventoryTable, TypeOK
  <2>1. SalesTable(sales) /\ r \in Row /\ features[r] = HistoryFeatures(sales, r)
    BY DEF IInv, StillValid
  <2>2. \A k \in LagDays : Lag(sales, r, k) \in AtMostOne(Units)
    BY <2>1, LagType
  <2>3. \A w \in RollingWindows :
          Statistics(sales, History(sales, r, w)) \in StatisticsType
    BY <2>1, SumFacts, WindowsAreRows
  <2>4. ratios[r] \in RatiosType
    <3>1. r \in DOMAIN sales /\ r \in DOMAIN ratios
      BY DEF IInv, StillValid
    <3>2. ratios[r] = NoRatios \/ ratios[r] = InventoryFeatures(sales, inventory, r)
      BY <3>1 DEF IInv, StillValid
    <3>3. \A x \in DOMAIN inventory : inventory[x] \in StockRows
      BY DEF IInv, InventoryTable
    <3> QED
      BY <2>1, <3>1, <3>2, <3>3, RatiosAreTyped
  <2> QED
    BY <2>1, <2>2, <2>3, <2>4, ClassTypes DEF HistoryFeatures
<1> QED
  BY <1>1, IInvCorrect, PTL

\* Sales that do not vary have no coefficient of variation above any limit.
LEMMA EqualSalesHaveNoDeviation ==
  ASSUME NEW s, SalesTable(s), NEW rows \in SUBSET DOMAIN s, NEW limit \in Nat,
         \A x, y \in rows : s[x] = s[y],
         Statistics(s, rows).count >= 2, Statistics(s, rows).sum > 0
  PROVE  CvAtMost(Statistics(s, rows), limit)
<1> DEFINE st == Statistics(s, rows)
           n == Cardinality(rows)
<1>1. IsFiniteSet(rows) /\ n \in Nat /\ st.count = n /\ st.sum = Sum(s, rows)
  BY RowsAreFinite DEF Statistics
<1>2. rows # {}
  BY <1>1, FS_EmptySet
<1>3. PICK v \in Nat : \A x \in rows : s[x] = v
  <2>1. PICK x \in rows : TRUE
    BY <1>2
  <2>2. s[x] \in Nat
    BY <2>1, ConfigAssumption DEF SalesTable
  <2> QED
    BY <2>1, <2>2
<1>4. Sum(s, rows) = n * v
  <2> DEFINE units == [x \in rows |-> s[x]]
  <2>1. units \in [rows -> Nat] /\ Sum(s, rows) = Total(units, rows)
    BY SumFacts
  <2>2. \A x \in rows : units[x] = v
    BY <1>3
  <2> HIDE DEF units
  <2> QED
    BY <1>1, <2>1, <2>2, TotalOfEqual
<1>5. st.squares = n * (v * v)
  <2> DEFINE squares == [x \in rows |-> s[x] * s[x]]
  <2>1. squares \in [rows -> Nat] /\ st.squares = Total(squares, rows)
    BY SumFacts
  <2>2. \A x \in rows : squares[x] = v * v
    BY <1>3
  <2>3. v * v \in Nat
    OBVIOUS
  <2> HIDE DEF squares, st
  <2> QED
    BY <1>1, <2>1, <2>2, <2>3, TotalOfEqual
<1> HIDE DEF st, n
<1>6. \A a, b \in Nat : a * (a * (a * (b * b)) - (a * b) * (a * b)) * 10000 = 0
  <2>1. ASSUME NEW a \in Nat, NEW b \in Nat
        PROVE  a * (a * (b * b)) = (a * b) * (a * b)
    OBVIOUS
  <2> QED
    BY <2>1
<1>7. st.count * (st.count * st.squares - st.sum * st.sum) * 10000 = 0
  BY <1>1, <1>4, <1>5, <1>6
<1>8. \A l, m, t \in Nat : m >= 1 => l * l * (m - 1) * t * t \in Nat
  OBVIOUS
<1>9. st.sum \in Nat
  BY SumFacts DEF st, StatisticsType
<1>10. 0 <= limit * limit * (st.count - 1) * st.sum * st.sum
  BY <1>1, <1>8, <1>9 DEF st
<1> QED
  BY <1>7, <1>10 DEF CvAtMost, st

LEMMA NoSalesNoSum ==
  ASSUME NEW s, SalesTable(s), NEW rows \in SUBSET DOMAIN s, Sum(s, rows) = 0
  PROVE  \A x \in rows : s[x] = 0
<1> DEFINE units == [x \in rows |-> s[x]]
<1>1. units \in [rows -> Nat] /\ Total(units, rows) = 0 /\ IsFiniteSet(rows)
  BY SumFacts, RowsAreFinite
<1> SUFFICES ASSUME NEW x \in rows PROVE units[x] = 0
  OBVIOUS
<1> HIDE DEF units
<1>2. rows \ {x} \in SUBSET rows /\ rows \in SUBSET rows
  OBVIOUS
<1>3. Total(units, rows) = units[x] + Total(units, rows \ {x})
  BY <1>1, <1>2, TotalFacts
<1>4. Total(units, rows \ {x}) \in Nat
  BY <1>1, <1>2, TotalFacts
<1>5. units[x] \in Nat
  BY <1>1
<1> QED
  BY <1>1, <1>3, <1>4, <1>5

\* The classes at the end of a chain of conditions are given to rows that have
\* seen sales that differ.  (minimum history before the first comparison)
THEOREM EvidenceBehindClassCorrect == Spec => []EvidenceBehindClass
<1>1. IInv => EvidenceBehindClass
  <2> SUFFICES ASSUME IInv, NEW r \in DOMAIN features
               PROVE  LET varied(window) ==
                            \E x, y \in History(sales, r, window) : sales[x] # sales[y]
                      IN  /\ features[r].volatility = "Highly_Variable"
                               => varied(VolatilityWindow)
                          /\ features[r].xyz = {"Z"} =>
                               \/ varied(XyzLookback)
                               \/ \A x \in History(sales, r, XyzLookback) : sales[x] = 0
    BY DEF EvidenceBehindClass
  <2>1. /\ SalesTable(sales)
        /\ features[r].volatility = VolatilitySegment(sales, r)
        /\ features[r].xyz = XyzClass(sales, r)
    BY DEF IInv, StillValid, HistoryFeatures
  <2>2. ASSUME NEW w, NEW limit \in Nat,
               \A x, y \in History(sales, r, w) : sales[x] = sales[y],
               ~CvAtMost(Statistics(sales, History(sales, r, w)), limit),
               Statistics(sales, History(sales, r, w)).count >= MinimumHistory
        PROVE  Statistics(sales, History(sales, r, w)).sum = 0
    <3> DEFINE st == Statistics(sales, History(sales, r, w))
    <3>1. History(sales, r, w) \in SUBSET DOMAIN sales
      BY WindowsAreRows
    <3>2. st.count \in Nat /\ st.sum \in Nat
      BY <2>1, <3>1, SumFacts DEF StatisticsType
    <3>3. st.count >= 2
      BY <2>2, <3>2, ConfigAssumption DEF ValidConfig
    <3>4. ~(st.sum > 0)
      BY <2>1, <2>2, <3>1, <3>3, EqualSalesHaveNoDeviation
    <3> QED
      BY <3>2, <3>4
  <2>3. ASSUME features[r].volatility = "Highly_Variable"
        PROVE  \E x, y \in History(sales, r, VolatilityWindow) : sales[x] # sales[y]
    <3> DEFINE st == Statistics(sales, History(sales, r, VolatilityWindow))
    <3>1. /\ ~(st.count < MinimumHistory) /\ st.sum # 0
          /\ ~CvAtMost(st, VolatilityHigh)
      BY <2>1, <2>3 DEF VolatilitySegment
    <3>2. st.count \in Nat
      BY <2>1, WindowsAreRows, SumFacts DEF StatisticsType
    <3>3. st.count >= MinimumHistory /\ VolatilityHigh \in Nat
      BY <3>1, <3>2, ConfigAssumption DEF ValidConfig
    <3> QED
      BY <2>2, <3>1, <3>3
  <2>4. ASSUME features[r].xyz = {"Z"},
               \A x, y \in History(sales, r, XyzLookback) : sales[x] = sales[y]
        PROVE  \A x \in History(sales, r, XyzLookback) : sales[x] = 0
    <3> DEFINE st == Statistics(sales, History(sales, r, XyzLookback))
    <3>1. /\ ~(st.count < MinimumHistory)
          /\ st.sum = 0 \/ ~CvAtMost(st, XyzY)
      BY <2>1, <2>4 DEF XyzClass
    <3>2. st.count \in Nat
      BY <2>1, WindowsAreRows, SumFacts DEF StatisticsType
    <3>3. st.count >= MinimumHistory /\ XyzY \in Nat
      BY <3>1, <3>2, ConfigAssumption DEF ValidConfig
    <3>4. st.sum = 0
      BY <2>2, <2>4, <3>1, <3>3
    <3>5. Sum(sales, History(sales, r, XyzLookback)) = 0
      BY <3>4 DEF Statistics
    <3> QED
      BY <2>1, <3>5, WindowsAreRows, NoSalesNoSum
  <2> QED
    BY <2>3, <2>4
<1> QED
  BY <1>1, IInvCorrect, PTL

(***************************************************************************)
(* Pareto classes.                                                         *)
(***************************************************************************)
\* A finite set of sets has a smallest one, and a largest one.
LEMMA ExtremeSets ==
  ASSUME NEW D, IsFiniteSet(D), NEW T, T \subseteq SUBSET D, T # {}
  PROVE  /\ \E m \in T : \A t \in T : t \subseteq m => t = m
         /\ \E m \in T : \A t \in T : m \subseteq t => t = m
<1>0. T # {}
  OBVIOUS
<1>1. IsWellFoundedOn(StrictSubsetOrdering(D), SUBSET D)
  BY SubsetsWellFounded
<1>2. ASSUME NEW U, U \subseteq SUBSET D, U # {}
      PROVE  \E m \in U : \A t \in U : t \subseteq m => t = m
  <2>1. PICK m \in U : \A t \in U : ~(<<t, m>> \in StrictSubsetOrdering(D))
    BY <1>1, <1>2, WFMin
  <2>2. ASSUME NEW t \in U, t \subseteq m, t # m
        PROVE  <<t, m>> \in StrictSubsetOrdering(D)
    <3>1. t \in SUBSET D /\ m \in SUBSET D
      BY <1>2
    <3> QED
      BY <2>2, <3>1 DEF StrictSubsetOrdering
  <2>3. \A t \in U : t \subseteq m => t = m
    BY <2>1, <2>2
  <2> QED
    BY <2>3
<1>3. \E m \in T : \A t \in T : m \subseteq t => t = m
  <2> DEFINE U == {D \ t : t \in T}
  <2>1. U \subseteq SUBSET D /\ U # {}
    <3>1. PICK t \in T : TRUE
      BY <1>0
    <3>2. D \ t \in U
      BY <3>1
    <3>3. \A u \in U : u \subseteq D
      OBVIOUS
    <3> HIDE DEF U
    <3> QED
      BY <3>2, <3>3
  <2>2. PICK c \in U : \A t \in U : t \subseteq c => t = c
    <3> HIDE DEF U
    <3> QED
      BY <1>2, <2>1
  <2>3. PICK m \in T : c = D \ m
    OBVIOUS
  <2>4. ASSUME NEW t \in T, m \subseteq t
        PROVE  t = m
    <3>1. D \ t \in U /\ D \ t \subseteq c
      BY <2>3, <2>4
    <3>2. D \ t = D \ m
      BY <2>2, <2>3, <3>1
    <3>3. t \subseteq D /\ m \subseteq D
      OBVIOUS
    <3> QED
      BY <3>2, <3>3
  <2> QED
    BY <2>4
<1> QED
  BY <1>2, <1>3

\* The portfolio of a day.
OnDay(s, d) == {x \in DOMAIN s : x.day = d /\ History(s, x, AbcLookback) # {}}

LEMMA RevenueType ==
  ASSUME NEW s, SalesTable(s), NEW x \in DOMAIN s
  PROVE  HistoricalRevenue(s, x) \in Nat
<1>1. Price[x.product] \in Nat
  BY ConfigAssumption DEF SalesTable, Row
<1>2. Statistics(s, History(s, x, AbcLookback)) \in StatisticsType
  BY WindowsAreRows, SumFacts
<1>3. Sum(s, History(s, x, AbcLookback)) \in Nat
  BY <1>2 DEF StatisticsType, Statistics
<1>4. \A m, n \in Nat : m * n \in Nat
  OBVIOUS
<1> QED
  BY <1>1, <1>3, <1>4 DEF HistoricalRevenue

\* The ranks of a day order its portfolio.
LEMMA RankFacts ==
  ASSUME NEW s, SalesTable(s), NEW d
  PROVE  /\ \A x \in OnDay(s, d) :
              /\ Portfolio(s, x) = OnDay(s, d)
              /\ Ahead(s, x) \subseteq OnDay(s, d)
              /\ x \notin Ahead(s, x)
         /\ \A x, y \in OnDay(s, d) :
              /\ x = y \/ x \in Ahead(s, y) \/ y \in Ahead(s, x)
              /\ x \in Ahead(s, y) =>
                   /\ HistoricalRevenue(s, x) >= HistoricalRevenue(s, y)
                   /\ Ahead(s, x) \subseteq Ahead(s, y)
                   /\ y \notin Ahead(s, x)
<1> DEFINE P == OnDay(s, d)
           H(x) == HistoricalRevenue(s, x)
<1>1. \A x \in P : H(x) \in Nat /\ x.product \in Nat /\ x \in Row /\ x.day = d
  BY RevenueType, ConfigAssumption DEF OnDay, SalesTable, Row
<1>2. \A x \in P : Portfolio(s, x) = P
  BY DEF Portfolio, OnDay
<1> HIDE DEF P
<1>3. \A x \in P : Ahead(s, x) =
        {y \in P : H(y) > H(x) \/ (H(y) = H(x) /\ y.product < x.product)}
  BY <1>2 DEF Ahead
<1> HIDE DEF H
<1>4. \A x, y \in P : x.product = y.product => x = y
  BY <1>1 DEF Row
<1>5. ASSUME NEW x \in P, NEW y \in P
      PROVE  /\ x = y \/ x \in Ahead(s, y) \/ y \in Ahead(s, x)
             /\ x \in Ahead(s, y) =>
                  H(x) >= H(y) /\ Ahead(s, x) \subseteq Ahead(s, y) /\ y \notin Ahead(s, x)
  <2>1. x = y \/ x \in Ahead(s, y) \/ y \in Ahead(s, x)
    BY <1>1, <1>3, <1>4
  <2>2. ASSUME x \in Ahead(s, y)
        PROVE  H(x) >= H(y) /\ y \notin Ahead(s, x)
    BY <1>1, <1>3, <2>2
  <2>3. ASSUME x \in Ahead(s, y), NEW z \in Ahead(s, x)
        PROVE  z \in Ahead(s, y)
    BY <1>1, <1>3, <2>3
  <2> QED
    BY <2>1, <2>2, <2>3
<1>6. \A x \in P : Ahead(s, x) \subseteq P /\ x \notin Ahead(s, x)
  BY <1>1, <1>3
<1> QED
  BY <1>2, <1>5, <1>6 DEF P, H

\* What some rows of a portfolio have earned.
LEMMA RevenueFacts ==
  ASSUME NEW s, SalesTable(s), NEW rows \in SUBSET DOMAIN s
  PROVE  /\ Revenue(s, rows) \in Nat
         /\ rows = {} => Revenue(s, rows) = 0
         /\ \A part \in SUBSET rows : Revenue(s, part) <= Revenue(s, rows)
         /\ \A x \in rows :
              /\ Revenue(s, {x}) = HistoricalRevenue(s, x)
              /\ HistoricalRevenue(s, x) <= Revenue(s, rows)
<1> DEFINE H == [x \in rows |-> HistoricalRevenue(s, x)]
<1>1. H \in [rows -> Nat]
  BY RevenueType
<1>2. IsFiniteSet(rows)
  BY RowsAreFinite
<1>3. ASSUME NEW part \in SUBSET rows
      PROVE  Revenue(s, part) = Total(H, part)
  <2>1. [x \in part |-> HistoricalRevenue(s, x)] = [x \in part |-> H[x]]
    OBVIOUS
  <2> QED
    BY <2>1 DEF Revenue, Total
<1>4. \A x \in rows : H[x] = HistoricalRevenue(s, x)
  OBVIOUS
<1> HIDE DEF H
<1>5. \A part \in SUBSET rows : Revenue(s, part) <= Revenue(s, rows)
  BY <1>1, <1>2, <1>3, TotalGrows
<1>6. ASSUME NEW x \in rows
      PROVE  Revenue(s, {x}) = H[x]
  <2>1. {x} \in SUBSET rows /\ {x} \ {x} = {}
    OBVIOUS
  <2>2. Total(H, {x}) = H[x] + Total(H, {x} \ {x})
    BY <1>1, <1>2, <2>1, TotalFacts
  <2>3. Total(H, {}) = 0 /\ H[x] \in Nat
    BY <1>1, <1>2, TotalFacts
  <2> QED
    BY <1>3, <2>1, <2>2, <2>3
<1>7. Revenue(s, rows) \in Nat /\ (rows = {} => Revenue(s, rows) = 0)
  BY <1>1, <1>2, <1>3, TotalFacts
<1>8. \A x \in rows : HistoricalRevenue(s, x) <= Revenue(s, rows)
  BY <1>4, <1>5, <1>6
<1> QED
  BY <1>4, <1>5, <1>6, <1>7, <1>8

\* The rows that the cumulative revenue before them leaves below a share are
\* the fewest that earn it.
Leads(s, P, S, share) ==
  /\ 100 * Revenue(s, S) >= share * Revenue(s, P)
  /\ \A x \in S, y \in P \ S : Revenue(s, {x}) >= Revenue(s, {y})
  /\ \E x \in S : /\ \A y \in S : Revenue(s, {x}) <= Revenue(s, {y})
                  /\ 100 * Revenue(s, S \ {x}) < share * Revenue(s, P)

LEMMA RankingLeads ==
  ASSUME NEW s, SalesTable(s), NEW d, NEW share \in 1 .. 100,
         Revenue(s, OnDay(s, d)) # 0
  PROVE  Leads(s, OnDay(s, d),
               {x \in OnDay(s, d) :
                  100 * Revenue(s, Ahead(s, x)) < share * Revenue(s, OnDay(s, d))},
               share)
<1> DEFINE P == OnDay(s, d)
           A(x) == Ahead(s, x)
           goal == share * Revenue(s, P)
           S == {x \in P : 100 * Revenue(s, A(x)) < goal}
<1>0. P \in SUBSET DOMAIN s
  BY DEF OnDay
<1>1. /\ \A x \in P : A(x) \subseteq P /\ x \notin A(x)
      /\ \A x, y \in P :
           /\ x = y \/ x \in A(y) \/ y \in A(x)
           /\ x \in A(y) =>
                /\ HistoricalRevenue(s, x) >= HistoricalRevenue(s, y)
                /\ A(x) \subseteq A(y)
                /\ y \notin A(x)
  BY RankFacts
<1>2. \A rows \in SUBSET P : Revenue(s, rows) \in Nat
  BY <1>0, RevenueFacts
<1>3. Revenue(s, P) \in Nat \ {0} /\ goal \in Nat \ {0} /\ goal <= 100 * Revenue(s, P)
  <2>1. Revenue(s, P) \in Nat \ {0}
    BY <1>2
  <2>2. \A n \in Nat \ {0} : share * n \in Nat \ {0} /\ share * n <= 100 * n
    OBVIOUS
  <2> QED
    BY <2>1, <2>2
<1>4. IsFiniteSet(P)
  BY <1>0, RowsAreFinite
<1> HIDE DEF P, A, goal
\* A part of the portfolio has a first and a last row.
<1>5. ASSUME NEW T, T \subseteq P, T # {}
      PROVE  /\ \E x \in T : \A y \in T : y \notin A(x)
             /\ \E x \in T : \A y \in T : x \notin A(y)
  <2> DEFINE U == {A(x) : x \in T}
  <2>1. U \subseteq SUBSET P /\ U # {}
    <3>1. PICK x \in T : TRUE
      BY <1>5
    <3>2. A(x) \in U
      BY <3>1
    <3>3. \A u \in U : u \subseteq P
      BY <1>1, <1>5
    <3> HIDE DEF U
    <3> QED
      BY <3>2, <3>3
  <2>2. /\ \E m \in U : \A t \in U : t \subseteq m => t = m
        /\ \E m \in U : \A t \in U : m \subseteq t => t = m
    <3> HIDE DEF U
    <3> QED
      BY <1>4, <2>1, ExtremeSets
  <2>3. PICK x \in T : \A y \in T : A(y) \subseteq A(x) => A(y) = A(x)
    BY <2>2
  <2>4. PICK z \in T : \A y \in T : A(z) \subseteq A(y) => A(y) = A(z)
    BY <2>2
  <2>5. \A y \in T : y \notin A(x)
    BY <1>1, <1>5, <2>3
  <2>6. \A y \in T : z \notin A(y)
    BY <1>1, <1>5, <2>4
  <2> QED
    BY <2>5, <2>6
\* What is ahead of a row of S is in S.
<1>6. ASSUME NEW x \in P, NEW y \in S, x \in A(y)
      PROVE  x \in S
  <2>1. A(x) \subseteq A(y) /\ A(y) \subseteq P
    BY <1>1, <1>6
  <2>2. Revenue(s, A(x)) <= Revenue(s, A(y))
    <3>1. A(y) \in SUBSET DOMAIN s /\ A(x) \in SUBSET A(y)
      BY <1>0, <2>1
    <3> QED
      BY <3>1, RevenueFacts
  <2>3. Revenue(s, A(x)) \in Nat /\ Revenue(s, A(y)) \in Nat
    BY <1>2, <2>1
  <2> QED
    BY <1>3, <2>2, <2>3
<1>7. \A x \in P : Revenue(s, {x}) = HistoricalRevenue(s, x)
  BY <1>0, RevenueFacts
<1>8. \A x \in S, y \in P \ S : Revenue(s, {x}) >= Revenue(s, {y})
  <2> SUFFICES ASSUME NEW x \in S, NEW y \in P \ S
               PROVE  Revenue(s, {x}) >= Revenue(s, {y})
    OBVIOUS
  <2>1. x \in P /\ x # y /\ y \notin A(x)
    BY <1>6
  <2>2. x \in A(y)
    BY <1>1, <2>1
  <2> QED
    BY <1>1, <1>7, <2>1, <2>2
<1>9. 100 * Revenue(s, S) >= goal
  <2>1. CASE S = P
    BY <1>2, <1>3, <2>1
  <2>2. CASE S # P
    <3>1. PICK z \in P \ S : \A y \in P \ S : y \notin A(z)
      <4>1. P \ S \subseteq P /\ P \ S # {}
        BY <2>2
      <4> HIDE DEF S
      <4> QED
        BY <1>5, <4>1
    <3>2. A(z) = S
      <4>1. \A x \in A(z) : x \in S
        BY <1>1, <3>1
      <4>2. \A x \in S : x \in A(z)
        <5> SUFFICES ASSUME NEW x \in S PROVE x \in A(z)
          OBVIOUS
        <5>1. x \in P /\ x # z /\ z \notin A(x)
          BY <1>6, <3>1
        <5> QED
          BY <1>1, <5>1
      <4> HIDE DEF S
      <4> QED
        BY <4>1, <4>2
    <3>3. Revenue(s, A(z)) \in Nat
      BY <1>1, <1>2
    <3> QED
      BY <1>3, <3>1, <3>2, <3>3
  <2> QED
    BY <2>1, <2>2
<1>10. \E x \in S : /\ \A y \in S : Revenue(s, {x}) <= Revenue(s, {y})
                    /\ 100 * Revenue(s, S \ {x}) < goal
  <2>1. S \subseteq P /\ S # {}
    <3>1. P # {}
      BY <1>0, <1>3, RevenueFacts
    <3>2. PICK x \in P : \A y \in P : y \notin A(x)
      BY <1>5, <3>1
    <3>3. A(x) = {}
      BY <1>1, <3>2
    <3>4. Revenue(s, A(x)) = 0
      BY <3>3, RevenueFacts
    <3> QED
      BY <1>3, <3>4
  <2>2. PICK x \in S : \A y \in S : x \notin A(y)
    <3> HIDE DEF S
    <3> QED
      BY <1>5, <2>1
  <2>3. S \ {x} = A(x)
    <3>1. \A y \in A(x) : y \in S \ {x}
      BY <1>1, <1>6
    <3>2. \A y \in S \ {x} : y \in A(x)
      BY <1>1, <2>2
    <3> HIDE DEF S
    <3> QED
      BY <3>1, <3>2
  <2>4. \A y \in S : y = x \/ HistoricalRevenue(s, y) >= HistoricalRevenue(s, x)
    BY <1>1, <2>1, <2>2
  <2>5. \A y \in S : HistoricalRevenue(s, y) \in Nat
    BY <1>0, RevenueType
  <2>6. \A y \in S : Revenue(s, {x}) <= Revenue(s, {y})
    <3> SUFFICES ASSUME NEW y \in S PROVE Revenue(s, {x}) <= Revenue(s, {y})
      OBVIOUS
    <3>1. /\ Revenue(s, {x}) = HistoricalRevenue(s, x)
          /\ Revenue(s, {y}) = HistoricalRevenue(s, y)
      BY <1>7, <2>1
    <3> HIDE DEF S
    <3> QED
      BY <2>4, <2>5, <3>1
  <2>7. 100 * Revenue(s, S \ {x}) < goal
    BY <2>3
  <2> HIDE DEF S
  <2> QED
    BY <2>6, <2>7
<1> QED
  BY <1>8, <1>9, <1>10 DEF Leads, P, A, goal

\* Pareto classes of a day: A, and A with B, are the fewest products that earn
\* their share, and only a portfolio that earned nothing has no classes.
\* (ranking window, cumulative revenue before the row, thresholds)
THEOREM ParetoClassesCorrect == Spec => []ParetoClasses
<1>1. IInv => ParetoClasses
  <2> SUFFICES ASSUME IInv, NEW day \in {r.day : r \in DOMAIN features}
               PROVE  LET all == ClassMembers(day, {"A", "B", "C"})
                          leads(S, share) ==
                            all # {} => Leads(sales, all, S, share)
                      IN  /\ leads(ClassMembers(day, {"A"}), AbcA)
                          /\ leads(ClassMembers(day, {"A", "B"}), AbcB)
                          /\ \A r \in DOMAIN features \ all :
                               r.day = day /\ History(sales, r, AbcLookback) # {}
                                 => HistoricalRevenue(sales, r) = 0
    BY DEF ParetoClasses, Leads, Revenue
  <2> DEFINE P == OnDay(sales, day)
             total == Revenue(sales, P)
             prior(x) == 100 * Revenue(sales, Ahead(sales, x))
  <2>0. SalesTable(sales) /\ P \in SUBSET DOMAIN sales
    BY DEF IInv, OnDay
  <2>1. \A r \in DOMAIN features :
          r \in DOMAIN sales /\ features[r].abc = AbcClass(sales, r)
    BY DEF IInv, StillValid, HistoryFeatures
  <2>2. \A r \in P : r \in DOMAIN features /\ r.day = day /\ Portfolio(sales, r) = P
    <3>1. PICK z \in DOMAIN features : z.day = day
      OBVIOUS
    <3>2. \A r \in P : r \in DOMAIN features /\ r.day = day
      BY <3>1 DEF IInv, WholeDays, OnDay
    <3> QED
      BY <2>0, <3>2, RankFacts
  <2>3. ASSUME NEW r \in DOMAIN features, r.day = day, r \notin P
        PROVE  features[r].abc = {} /\ History(sales, r, AbcLookback) = {}
    <3>1. r \in DOMAIN sales
      BY <2>1
    <3>2. History(sales, r, AbcLookback) = {}
      BY <2>3, <3>1 DEF OnDay
    <3>3. r \notin Portfolio(sales, r)
      BY <3>2 DEF Portfolio
    <3> QED
      BY <2>1, <3>2, <3>3 DEF AbcClass
  <2>4. total \in Nat /\ \A r \in P : prior(r) \in Nat
    <3>1. ASSUME NEW r \in P
          PROVE  Revenue(sales, Ahead(sales, r)) \in Nat
      <4>1. Ahead(sales, r) \in SUBSET P
        BY <2>0, RankFacts
      <4>2. Ahead(sales, r) \in SUBSET DOMAIN sales
        BY <2>0, <4>1
      <4> QED
        BY <2>0, <4>2, RevenueFacts
    <3> QED
      BY <2>0, <3>1, RevenueFacts
  <2>5. \A r \in P :
          features[r].abc = IF total = 0 THEN {}
                            ELSE IF prior(r) < AbcA * total THEN {"A"}
                            ELSE IF prior(r) < AbcB * total THEN {"B"}
                            ELSE {"C"}
    BY <2>1, <2>2 DEF AbcClass
  <2> HIDE DEF P, total, prior
  <2>6. CASE total = 0
    <3>1. ClassMembers(day, {"A", "B", "C"}) = {}
      BY <2>2, <2>3, <2>5, <2>6 DEF ClassMembers
    <3>2. \A r \in P : HistoricalRevenue(sales, r) <= total
      BY <2>0, RevenueFacts DEF total
    <3>3. \A r \in P : HistoricalRevenue(sales, r) \in Nat
      BY <2>0, RevenueType
    <3>4. \A r \in P : HistoricalRevenue(sales, r) = 0
      BY <2>6, <3>2, <3>3
    <3> QED
      BY <2>3, <3>1, <3>4
  <2>7. CASE total # 0
    <3>0. /\ AbcA \in 1 .. 100 /\ AbcB \in 1 .. 100
          /\ AbcA * total \in Nat /\ AbcB * total \in Nat
          /\ AbcA * total <= AbcB * total
      <4>1. AbcA \in 1 .. 100 /\ AbcB \in 1 .. 100 /\ AbcA <= AbcB
        BY ConfigAssumption DEF ValidConfig
      <4>2. \A a, b, n \in Nat : a <= b => a * n \in Nat /\ b * n \in Nat /\ a * n <= b * n
        OBVIOUS
      <4> QED
        BY <2>4, <4>1, <4>2
    <3>1. ClassMembers(day, {"A", "B", "C"}) = P
      BY <2>2, <2>3, <2>5, <2>7 DEF ClassMembers
    <3>2. ClassMembers(day, {"A"}) = {x \in P : prior(x) < AbcA * total}
      <4>1. \A x \in P : features[x].abc \intersect {"A"} # {} <=> prior(x) < AbcA * total
        BY <2>5, <2>7
      <4> QED
        BY <2>2, <2>3, <4>1 DEF ClassMembers
    <3>3. ClassMembers(day, {"A", "B"}) = {x \in P : prior(x) < AbcB * total}
      <4>1. \A x \in P :
              features[x].abc \intersect {"A", "B"} # {} <=> prior(x) < AbcB * total
        BY <2>4, <2>5, <2>7, <3>0
      <4> QED
        BY <2>2, <2>3, <4>1 DEF ClassMembers
    <3>4. /\ Leads(sales, P, {x \in P : prior(x) < AbcA * total}, AbcA)
          /\ Leads(sales, P, {x \in P : prior(x) < AbcB * total}, AbcB)
      BY <2>0, <2>7, <3>0, RankingLeads DEF P, total, prior
    <3>5. \A r \in DOMAIN features \ P :
            r.day = day => History(sales, r, AbcLookback) = {}
      BY <2>3
    <3> QED
      BY <3>1, <3>2, <3>3, <3>4, <3>5
  <2> QED
    BY <2>6, <2>7
<1> QED
  BY <1>1, IInvCorrect, PTL

=============================================================================
