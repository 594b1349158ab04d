--------------------------- MODULE RetailEtlProofs ---------------------------
(***************************************************************************)
(* The safety properties of RetailEtl, for any products, sales, number of  *)
(* runs and versions.                                                      *)
(***************************************************************************)
EXTENDS RetailEtl, TLAPS

\* Some catalog of C lists the product.
Known(C, p) == \E c \in C : c[p] > 0

(***************************************************************************)
(* The inductive invariant.  Sources and raw layer: what is sold is listed *)
(* in the catalog, published sales are sold ones, and a recorded content   *)
(* is published.                                                           *)
(***************************************************************************)
RawInv ==
  /\ \A n \in 1 .. sold : catalog[Sold[n]] > 0
  /\ rawSales \subseteq 1 .. sold
  /\ \A w \in ckptSales : 1 .. w \subseteq rawSales
  /\ \A c \in ckptCatalog : c \in rawCatalog \/ c = NoCatalog

\* The ingestion run: its start lies behind; the answer comes with the end;
\* the tables it has behind it without a failure are published as they were
\* then, and so all of them are after a success.
IngestionInv ==
  /\ ingestion.started.sold <= sold
  /\ \A p \in Products : ingestion.started.catalog[p] <= catalog[p]
  /\ ingestion.table > 0 => ingestion.answer = "none"
  /\ ingestion.table = 1 => ingestion.failed = {}
  /\ Succeeded \/ (ingestion.table = 2 /\ ingestion.failed = {})
       => 1 .. ingestion.started.sold \subseteq rawSales
  /\ Succeeded =>
       /\ \A p \in Products :
            ingestion.started.catalog[p] > 0 =>
              \E c \in rawCatalog : c[p] >= ingestion.started.catalog[p]
       /\ \A n \in rawSales : Known(rawCatalog, Sold[n])

\* The ETL run: what it has listed is published and covers the last curated
\* run; after a settled start the products of its sales are published too.
ExtractInv ==
  /\ etl.step = "idle" => bundle = NoBundle /\ datasets = Unwritten
  /\ etl.step = "extract" =>
       /\ etl.position \in {1, 2}
       /\ datasets = Unwritten
       /\ etl.position = 1 => bundle = NoBundle
       /\ etl.position = 2 => DOMAIN curated.demand \subseteq bundle.sales
  /\ bundle.sales \subseteq rawSales
  /\ bundle.catalog \subseteq rawCatalog
  /\ bundle.settled => \A n \in bundle.sales : Known(rawCatalog, Sold[n])

\* What it has written: a product is there if the listed catalogs have it.
WriteInv ==
  etl.step = "write" =>
    /\ DOMAIN curated.demand \subseteq bundle.sales
    /\ \A p \in Products : curated.product[p] > 0 => Known(bundle.catalog, p)
    /\ bundle.settled => \A n \in bundle.sales : Known(bundle.catalog, Sold[n])
    /\ DOMAIN datasets.demand \subseteq bundle.sales
    /\ \A n \in DOMAIN datasets.demand :
         datasets.demand[n] > 0 <=> Known(bundle.catalog, Sold[n])
    /\ etl.position > 1 => DOMAIN datasets.demand = bundle.sales
    /\ etl.position = 3 =>
         \A p \in Products : datasets.product[p] > 0 <=> Known(bundle.catalog, p)

CuratedInv ==
  /\ DOMAIN curated.demand \subseteq rawSales
  /\ \A p \in Products : curated.product[p] > 0 => Known(rawCatalog, p)
  /\ DatasetsAgreeOnProducts

IInv == TypeOK /\ RawInv /\ IngestionInv /\ ExtractInv /\ WriteInv /\ CuratedInv

(***************************************************************************)
(* Facts about the operators.                                              *)
(***************************************************************************)
LEMMA TableFacts ==
  /\ Tables = {1, 2} /\ Len(TableOrder) = 2
  /\ TableOrder[1] = "Fact_Sales" /\ TableOrder[2] = "Dim_Product"
BY DEF Tables, TableOrder

\* Cleaning keeps a product exactly when a listed catalog has it.
LEMMA CleanedIsKnown ==
  ASSUME NEW C, C \subseteq Catalogs, NEW c \in CleanedCatalogs(C)
  PROVE  c \in Catalogs /\ \A p \in Products : c[p] > 0 <=> Known(C, p)
<1> USE EtlAssumption
<1>1. c \in Catalogs
  BY DEF CleanedCatalogs
<1>2. ASSUME NEW p \in Products
      PROVE  c[p] > 0 <=> Known(C, p)
  <2>1. c[p] \in Nat /\ \A d \in C : d[p] \in Nat
    BY <1>1 DEF Catalogs
  <2>2. c[p] \in Versions(C, p) \/ (c[p] = 0 /\ Versions(C, p) = {})
    BY DEF CleanedCatalogs
  <2>3. \A v : v \in Versions(C, p) <=> \E d \in C : v = d[p] /\ v # 0
    BY DEF Versions
  <2>4. CASE c[p] \in Versions(C, p)
    BY <2>1, <2>3, <2>4 DEF Known
  <2>5. CASE c[p] = 0 /\ Versions(C, p) = {}
    <3>1. ASSUME NEW d \in C PROVE ~(d[p] > 0)
      <4>1. d[p] # 0 => d[p] \in Versions(C, p)
        BY <2>3
      <4>2. QED
        BY <2>1, <2>5, <4>1
    <3>2. QED
      BY <2>5, <3>1 DEF Known
  <2>6. QED
    BY <2>2, <2>4, <2>5
<1>3. QED
  BY <1>1, <1>2

\* What is known stays known when catalogs are added.
LEMMA KnownGrows ==
  ASSUME NEW C, NEW D, C \subseteq D, NEW p, Known(C, p)
  PROVE  Known(D, p)
BY DEF Known

\* Publishing adds; the catalog of the file is there afterwards, unless empty.
LEMMA PublishAdds ==
  ASSUME TypeOK, PublishRows
  PROVE  /\ rawSales \subseteq rawSales' /\ rawCatalog \subseteq rawCatalog'
         /\ rawSales' \subseteq rawSales \union 1 .. sold
         /\ rawCatalog' \subseteq rawCatalog \union {catalog}
BY DEF PublishRows, NewSales

\* With the sales after the watermark, all sales are there.
LEMMA PublishedUpToWatermark ==
  ASSUME TypeOK, RawInv
  PROVE  1 .. sold \subseteq rawSales \union NewSales
<1>1. SUFFICES ASSUME NEW n \in 1 .. sold, n \notin rawSales
               PROVE  n \in NewSales
  OBVIOUS
<1>2. ASSUME NEW w \in ckptSales PROVE n > w
  <2>1. n \notin 1 .. w /\ w \in Nat
    BY <1>1 DEF RawInv, TypeOK
  <2>2. QED
    BY <2>1, EtlAssumption DEF TypeOK
<1>3. QED
  BY <1>2 DEF NewSales

\* A step of the ingestion that only adds to the raw layer does not disturb
\* the ETL run.
LEMMA RawGrows ==
  ASSUME ExtractInv, WriteInv, CuratedInv, UNCHANGED etlVars,
         rawSales \subseteq rawSales', rawCatalog \subseteq rawCatalog'
  PROVE  ExtractInv' /\ WriteInv' /\ CuratedInv'
<1> USE DEF etlVars
<1>1. \A p : Known(rawCatalog, p) => Known(rawCatalog', p)
  BY KnownGrows
<1>2. ExtractInv'
  BY <1>1 DEF ExtractInv, NoBundle, Unwritten, NoCatalog
<1>3. WriteInv'
  BY DEF WriteInv, Known
<1>4. CuratedInv'
  BY <1>1 DEF CuratedInv, DatasetsAgreeOnProducts
<1>5. QED
  BY <1>2, <1>3, <1>4

\* Updates of the run's record keep its type.
LEMMA RunUpdates ==
  ASSUME TypeOK
  PROVE  /\ ingestion.runs < MaxRuns =>
              [ingestion EXCEPT !.runs = @ + 1, !.answer = "raised"] \in IngestionRun
         /\ [ingestion EXCEPT !.table = 0, !.answer = "raised"] \in IngestionRun
         /\ \A failed \in SUBSET Tables :
              /\ [ingestion EXCEPT !.failed = failed, !.table = 0, !.answer = "returned"]
                   \in IngestionRun
              /\ ingestion.table = 1 =>
                   [ingestion EXCEPT !.failed = failed, !.table = @ + 1] \in IngestionRun
<1> DEFINE Runs == 0 .. MaxRuns
           Positions == 0 .. Len(TableOrder)
           Started == [sold : 0 .. Len(Sold), catalog : Catalogs]
           Run == [runs : Runs, table : Positions, mode : {"incremental", "full"},
                   failFast : BOOLEAN, failed : SUBSET Tables,
                   answer : {"none", "returned", "raised"}, started : Started]
<1>1. ingestion \in Run /\ IngestionRun = Run
  BY DEF TypeOK, IngestionRun
<1>2. ingestion.runs < MaxRuns => ingestion.runs + 1 \in Runs
  BY <1>1, EtlAssumption
<1>3. 0 \in Positions /\ (ingestion.table = 1 => ingestion.table + 1 \in Positions)
  BY TableFacts
<1> HIDE DEF Runs, Positions, Started
<1>4. QED
  BY <1>1, <1>2, <1>3

(***************************************************************************)
(* The producer.                                                           *)
(***************************************************************************)
\* A revised product is still listed, in a version that is not older.
LEMMA ReviseProductKeeps ==
  ASSUME IInv, NEW p \in Products, ReviseProduct(p)
  PROVE  IInv'
<1> USE EtlAssumption DEF IInv, ReviseProduct, rawVars, etlVars
<1>1. /\ catalog' \in Catalogs
      /\ \A q \in Products : catalog[q] <= catalog'[q]
  BY DEF TypeOK, Catalogs
<1>2. TypeOK'
  BY <1>1 DEF TypeOK
<1>3. RawInv'
  <2>1. \A n \in 1 .. sold : Sold[n] \in Products
    BY DEF TypeOK
  <2>2. \A n \in 1 .. sold : catalog'[Sold[n]] > 0
    BY <1>1, <2>1 DEF RawInv, TypeOK, Catalogs
  <2>3. QED
    BY <2>2 DEF RawInv
<1>4. IngestionInv'
  <2>1. \A q \in Products : ingestion.started.catalog[q] \in Nat
    BY DEF TypeOK, IngestionRun, Catalogs
  <2>2. \A q \in Products : ingestion.started.catalog[q] <= catalog'[q]
    BY <1>1, <2>1 DEF IngestionInv, TypeOK, Catalogs
  <2>3. QED
    BY <2>2 DEF IngestionInv, Succeeded
<1>5. ExtractInv' /\ WriteInv' /\ CuratedInv'
  BY RawGrows DEF etlVars
<1>6. QED
  BY <1>2, <1>3, <1>4, <1>5

\* A sale is of a product that is listed.
LEMMA AddSaleKeeps ==
  ASSUME IInv, AddSale
  PROVE  IInv'
<1> USE EtlAssumption DEF IInv, AddSale, rawVars, etlVars
<1>1. TypeOK'
  <2>1. Len(Sold) \in Nat
    OBVIOUS
  <2>2. sold' \in 0 .. Len(Sold)
    BY <2>1 DEF TypeOK
  <2>3. QED
    BY <2>2 DEF TypeOK
<1>2. RawInv'
  <2>1. \A n \in 1 .. sold' : n \in 1 .. sold \/ n = sold + 1
    BY DEF TypeOK
  <2>2. \A n \in 1 .. sold' : catalog[Sold[n]] > 0
    BY <2>1 DEF RawInv
  <2>3. rawSales \subseteq 1 .. sold'
    BY DEF RawInv, TypeOK
  <2>4. QED
    BY <2>2, <2>3 DEF RawInv
<1>3. IngestionInv'
  BY DEF IngestionInv, Succeeded, TypeOK, IngestionRun
<1>4. ExtractInv' /\ WriteInv' /\ CuratedInv'
  BY RawGrows DEF etlVars
<1>5. QED
  BY <1>1, <1>2, <1>3, <1>4

(***************************************************************************)
(* The ingestion run.                                                      *)
(***************************************************************************)
LEMMA StartIngestionKeeps ==
  ASSUME IInv, StartIngestion
  PROVE  IInv'
<1> USE EtlAssumption DEF IInv, StartIngestion, sourceVars, rawVars, etlVars
<1>1. PICK mode \in Modes, failFast \in FailFast :
        ingestion' = [runs |-> ingestion.runs + 1, table |-> 1, mode |-> mode,
                      failFast |-> failFast, failed |-> {}, answer |-> "none",
                      started |-> [sold |-> sold, catalog |-> catalog]]
  OBVIOUS
<1>2. TypeOK'
  <2>1. ingestion' \in IngestionRun
    BY <1>1, TableFacts DEF TypeOK, IngestionRun
  <2>2. QED
    BY <2>1 DEF TypeOK
<1>3. RawInv'
  BY DEF RawInv
<1>4. IngestionInv'
  BY <1>1 DEF IngestionInv, Succeeded, TypeOK, Catalogs
<1>5. ExtractInv' /\ WriteInv' /\ CuratedInv'
  BY RawGrows DEF etlVars
<1>6. QED
  BY <1>2, <1>3, <1>4, <1>5

LEMMA DiscoverFailsKeeps ==
  ASSUME IInv, DiscoverFails
  PROVE  IInv'
<1> USE DEF IInv, DiscoverFails, sourceVars, rawVars, etlVars
<1>1. TypeOK'
  <2>1. ingestion' \in IngestionRun
    BY RunUpdates
  <2>2. QED
    BY <2>1 DEF TypeOK
<1>2. RawInv'
  BY DEF RawInv
<1>3. IngestionInv'
  BY DEF IngestionInv, Succeeded, TypeOK, IngestionRun
<1>4. ExtractInv' /\ WriteInv' /\ CuratedInv'
  BY RawGrows DEF etlVars
<1>5. QED
  BY <1>1, <1>2, <1>3, <1>4

\* After a table: the next one, or the answer.
LEMMA NextTableFacts ==
  ASSUME TypeOK, ingestion.table \in Tables, NEW failed \in SUBSET Tables,
         NextTable(failed)
  PROVE  /\ ingestion' \in IngestionRun
         /\ ingestion'.failed = failed /\ ingestion'.started = ingestion.started
         /\ ingestion.table = 1 => /\ ingestion'.table = 2
                                   /\ ingestion'.answer = ingestion.answer
         /\ ingestion.table = 2 => ingestion'.table = 0 /\ ingestion'.answer = "returned"
<1>1. ingestion.table \in {1, 2}
  BY TableFacts
<1>2. CASE ingestion.table = 1
  <2>1. ingestion' = [ingestion EXCEPT !.failed = failed, !.table = @ + 1]
    BY <1>2, TableFacts DEF NextTable
  <2>2. ingestion' \in IngestionRun
    BY <1>2, <2>1, RunUpdates
  <2>3. QED
    BY <1>2, <2>1, <2>2 DEF TypeOK, IngestionRun
<1>3. CASE ingestion.table = 2
  <2>1. ingestion' = [ingestion EXCEPT !.failed = failed, !.table = 0, !.answer = "returned"]
    BY <1>3, TableFacts DEF NextTable
  <2>2. ingestion' \in IngestionRun
    BY <2>1, RunUpdates
  <2>3. QED
    BY <1>3, <2>1, <2>2 DEF TypeOK, IngestionRun
<1>4. QED
  BY <1>1, <1>2, <1>3

\* The step that ends a table: when the run goes on or returns without a
\* failure, the table is covered.
LEMMA TableEndKeeps ==
  ASSUME IInv, ingestion.table \in Tables, UNCHANGED <<sourceVars, etlVars>>,
         rawSales \subseteq rawSales', rawCatalog \subseteq rawCatalog',
         rawSales' \subseteq 1 .. sold, rawCatalog' \subseteq Catalogs,
         ckptSales' \subseteq 0 .. Len(Sold), ckptCatalog' \subseteq Catalogs,
         \A w \in ckptSales' : 1 .. w \subseteq rawSales',
         \A c \in ckptCatalog' : c \in rawCatalog' \/ c = NoCatalog,
         NEW failed \in SUBSET Tables, NextTable(failed),
         ingestion.failed \subseteq failed,
         ingestion.table = 1 /\ failed = {} => 1 .. sold \subseteq rawSales',
         ingestion.table = 2 => rawSales' = rawSales,
         ingestion.table = 2 /\ failed = {}
           => catalog \in rawCatalog' \/ catalog = NoCatalog
  PROVE  IInv'
<1> USE EtlAssumption DEF IInv, sourceVars, etlVars
<1>1. /\ ingestion' \in IngestionRun
      /\ ingestion'.failed = failed /\ ingestion'.started = ingestion.started
      /\ ingestion.table = 1 => /\ ingestion'.table = 2
                                /\ ingestion'.answer = ingestion.answer
      /\ ingestion.table = 2 => ingestion'.table = 0 /\ ingestion'.answer = "returned"
  BY NextTableFacts
<1>2. ingestion.table \in {1, 2} /\ ingestion.answer = "none"
  BY TableFacts DEF IngestionInv
<1>3. TypeOK'
  <2>1. rawSales' \subseteq 1 .. Len(Sold)
    BY DEF TypeOK
  <2>2. QED
    BY <1>1, <2>1 DEF TypeOK
<1>4. RawInv'
  BY DEF RawInv
<1>5. IngestionInv'
  <2>1. CASE ingestion.table = 1
    <3>1. ingestion'.table = 2 /\ ingestion'.answer = "none"
      BY <1>1, <1>2, <2>1
    <3>2. failed = {} => 1 .. ingestion.started.sold \subseteq rawSales'
      BY <2>1 DEF IngestionInv, TypeOK, IngestionRun
    <3>3. QED
      BY <1>1, <3>1, <3>2 DEF IngestionInv, Succeeded
  <2>2. CASE ingestion.table = 2
    <3>1. ingestion'.table = 0
      BY <1>1, <2>2
    <3>2. ASSUME failed = {}
          PROVE  /\ 1 .. ingestion.started.sold \subseteq rawSales'
                 /\ \A p \in Products :
                      ingestion.started.catalog[p] > 0 =>
                        \E c \in rawCatalog' : c[p] >= ingestion.started.catalog[p]
                 /\ \A n \in rawSales' : Known(rawCatalog', Sold[n])
      <4>1. 1 .. ingestion.started.sold \subseteq rawSales'
        BY <2>2, <3>2 DEF IngestionInv
      <4>2. \A p \in Products : catalog[p] > 0 => catalog \in rawCatalog'
        BY <2>2, <3>2 DEF NoCatalog
      <4>3. \A p \in Products : /\ ingestion.started.catalog[p] \in Nat
                                /\ catalog[p] \in Nat
                                /\ ingestion.started.catalog[p] <= catalog[p]
        BY DEF IngestionInv, TypeOK, IngestionRun, Catalogs
      <4>4. \A p \in Products :
              ingestion.started.catalog[p] > 0 =>
                \E c \in rawCatalog' : c[p] >= ingestion.started.catalog[p]
        BY <4>2, <4>3
      <4>5. \A n \in rawSales' : Sold[n] \in Products /\ catalog[Sold[n]] > 0
        BY DEF RawInv, TypeOK
      <4>6. \A n \in rawSales' : Known(rawCatalog', Sold[n])
        BY <4>2, <4>5 DEF Known
      <4>7. QED
        BY <4>1, <4>4, <4>6
    <3>3. QED
      BY <1>1, <3>1, <3>2 DEF IngestionInv, Succeeded
  <2>3. QED
    BY <1>2, <2>1, <2>2
<1>6. ExtractInv' /\ WriteInv' /\ CuratedInv'
  BY RawGrows
<1>7. QED
  BY <1>3, <1>4, <1>5, <1>6

\* An unchanged file was recorded, hence published.
LEMMA SkipTableKeeps ==
  ASSUME IInv, SkipTable
  PROVE  IInv'
<1> USE DEF IInv, SkipTable, rawVars
<1>1. ingestion.table \in Tables /\ ingestion.failed \in SUBSET Tables
  BY DEF Unchanged, Ingesting, TypeOK, IngestionRun
<1>2. ingestion.table = 1 => 1 .. sold \subseteq rawSales
  BY TableFacts DEF Unchanged, Ingesting, RawInv
<1>3. ingestion.table = 2 => catalog \in rawCatalog \/ catalog = NoCatalog
  BY TableFacts DEF Unchanged, Ingesting, RawInv
<1>4. QED
  BY <1>1, <1>2, <1>3, TableEndKeeps DEF TypeOK, RawInv

LEMMA IngestTableKeeps ==
  ASSUME IInv, IngestTable
  PROVE  IInv'
<1> USE EtlAssumption DEF IInv, IngestTable
<1>1. ingestion.table \in Tables /\ ingestion.failed \in SUBSET Tables
  BY DEF PublishRows, Ingesting, TypeOK, IngestionRun
<1>2. /\ rawSales \subseteq rawSales' /\ rawCatalog \subseteq rawCatalog'
      /\ rawSales' \subseteq 1 .. sold /\ rawCatalog' \subseteq Catalogs
  BY PublishAdds DEF TypeOK, RawInv
<1>3. CASE ingestion.table = 1
  <2>1. /\ rawSales' = rawSales \union NewSales /\ rawCatalog' = rawCatalog
        /\ ckptSales' = {sold} /\ ckptCatalog' = ckptCatalog
    BY <1>3, TableFacts DEF PublishRows, RecordContent, Ingesting
  <2>2. 1 .. sold \subseteq rawSales'
    BY <2>1, PublishedUpToWatermark
  <2>3. /\ ckptSales' \subseteq 0 .. Len(Sold) /\ ckptCatalog' \subseteq Catalogs
        /\ \A w \in ckptSales' : 1 .. w \subseteq rawSales'
        /\ \A c \in ckptCatalog' : c \in rawCatalog' \/ c = NoCatalog
    BY <1>2, <2>1, <2>2 DEF TypeOK, RawInv
  <2>4. QED
    BY <1>1, <1>2, <1>3, <2>2, <2>3, TableEndKeeps
<1>4. CASE ingestion.table = 2
  <2>1. /\ rawCatalog' = rawCatalog \union ({catalog} \ {NoCatalog})
        /\ rawSales' = rawSales
        /\ ckptCatalog' = {catalog} /\ ckptSales' = ckptSales
    BY <1>4, TableFacts DEF PublishRows, RecordContent, Ingesting
  <2>2. /\ ckptSales' \subseteq 0 .. Len(Sold) /\ ckptCatalog' \subseteq Catalogs
        /\ \A w \in ckptSales' : 1 .. w \subseteq rawSales'
        /\ \A c \in ckptCatalog' : c \in rawCatalog' \/ c = NoCatalog
    BY <1>2, <2>1 DEF TypeOK, RawInv
  <2>3. QED
    BY <1>1, <1>2, <1>4, <2>1, <2>2, TableEndKeeps
<1>5. QED
  BY <1>1, <1>3, <1>4, TableFacts

\* What a failed table leaves behind is whole: the checkpoints speak of
\* published content.
LEMMA LeftByFailureFacts ==
  ASSUME IInv, LeftByFailure
  PROVE  /\ ingestion.table \in Tables
         /\ rawSales \subseteq rawSales' /\ rawCatalog \subseteq rawCatalog'
         /\ rawSales' \subseteq 1 .. sold /\ rawCatalog' \subseteq Catalogs
         /\ ckptSales' = ckptSales /\ ckptCatalog' = ckptCatalog
         /\ ingestion.table = 2 => rawSales' = rawSales
<1> USE DEF IInv, LeftByFailure
<1>1. CASE ingestion.table \in Tables /\ UNCHANGED rawVars
  BY <1>1 DEF rawVars, TypeOK, RawInv
<1>2. CASE PublishRows /\ UNCHANGED <<ckptSales, ckptCatalog>>
  <2>1. ingestion.table \in Tables /\ (ingestion.table = 2 => rawSales' = rawSales)
    BY <1>2, TableFacts DEF PublishRows, Ingesting
  <2>2. QED
    BY <1>2, <2>1, PublishAdds DEF TypeOK, RawInv
<1>3. QED
  BY <1>1, <1>2

\* A run that ends with an error has succeeded in nothing.
LEMMA RaisedKeeps ==
  ASSUME IInv, LeftByFailure, UNCHANGED <<sourceVars, etlVars>>,
         ingestion' = [ingestion EXCEPT !.table = 0, !.answer = "raised"]
  PROVE  IInv'
<1> USE EtlAssumption DEF IInv, sourceVars, etlVars
<1>1. TypeOK'
  <2>1. ingestion' \in IngestionRun
    BY RunUpdates
  <2>2. rawSales' \subseteq 1 .. sold /\ rawCatalog' \subseteq Catalogs
        /\ ckptSales' = ckptSales /\ ckptCatalog' = ckptCatalog
    BY LeftByFailureFacts
  <2>3. rawSales' \subseteq 1 .. Len(Sold)
    BY <2>2 DEF TypeOK
  <2>4. QED
    BY <2>1, <2>2, <2>3 DEF TypeOK
<1>2. RawInv'
  <2>1. \A w \in ckptSales' : 1 .. w \subseteq rawSales'
    BY LeftByFailureFacts DEF RawInv
  <2>2. \A c \in ckptCatalog' : c \in rawCatalog' \/ c = NoCatalog
    BY LeftByFailureFacts DEF RawInv
  <2>3. QED
    BY <2>1, <2>2, LeftByFailureFacts DEF RawInv
<1>3. IngestionInv'
  <2>1. /\ ingestion'.table = 0 /\ ingestion'.answer = "raised"
        /\ ingestion'.started = ingestion.started
    BY DEF TypeOK, IngestionRun
  <2>2. QED
    BY <2>1 DEF IngestionInv, Succeeded
<1>4. ExtractInv' /\ WriteInv' /\ CuratedInv'
  BY LeftByFailureFacts, RawGrows
<1>5. QED
  BY <1>1, <1>2, <1>3, <1>4

LEMMA TableFailsKeeps ==
  ASSUME IInv, TableFails
  PROVE  IInv'
<1> USE DEF TableFails
<1>1. CASE ingestion.failFast
  BY <1>1, RaisedKeeps
<1>2. CASE ~ingestion.failFast
  <2> DEFINE failed == ingestion.failed \union {ingestion.table}
  <2>1. failed \in SUBSET Tables /\ failed # {} /\ ingestion.failed \subseteq failed
    BY LeftByFailureFacts DEF IInv, TypeOK, IngestionRun
  <2>2. NextTable(failed)
    BY <1>2
  <2>3. /\ ckptSales' \subseteq 0 .. Len(Sold) /\ ckptCatalog' \subseteq Catalogs
        /\ \A w \in ckptSales' : 1 .. w \subseteq rawSales'
        /\ \A c \in ckptCatalog' : c \in rawCatalog' \/ c = NoCatalog
    BY LeftByFailureFacts DEF IInv, TypeOK, RawInv
  <2> HIDE DEF failed
  <2>4. QED
    BY <2>1, <2>2, <2>3, LeftByFailureFacts, TableEndKeeps
<1>3. QED
  BY <1>1, <1>2

LEMMA IngestionStopsKeeps ==
  ASSUME IInv, IngestionStops
  PROVE  IInv'
BY RaisedKeeps DEF IngestionStops

(***************************************************************************)
(* The ETL run.                                                            *)
(***************************************************************************)
LEMMA StartEtlKeeps ==
  ASSUME IInv, StartEtl
  PROVE  IInv'
<1> USE DEF IInv, StartEtl, sourceVars, rawVars
<1>1. TypeOK'
  <2>1. etl.runs + 1 \in 0 .. MaxRuns
    BY EtlAssumption DEF TypeOK
  <2>2. QED
    BY <2>1 DEF TypeOK
<1>2. RawInv' /\ IngestionInv'
  BY DEF RawInv, IngestionInv, Succeeded
<1>3. ExtractInv' /\ WriteInv' /\ CuratedInv'
  BY DEF ExtractInv, WriteInv, CuratedInv, DatasetsAgreeOnProducts
<1>4. QED
  BY <1>1, <1>2, <1>3

LEMMA ExtractKeeps ==
  ASSUME IInv, Extract
  PROVE  IInv'
<1> USE DEF IInv, Extract, sourceVars, rawVars
<1>1. RawInv' /\ IngestionInv' /\ CuratedInv'
  BY DEF RawInv, IngestionInv, Succeeded, CuratedInv, DatasetsAgreeOnProducts
<1>2. etl.position \in {1, 2} /\ datasets = Unwritten
  BY DEF ExtractInv
<1>3. CASE etl.position = 1
  <2>1. /\ bundle' = [bundle EXCEPT !.sales = rawSales, !.settled = Settled]
        /\ etl' = [etl EXCEPT !.position = @ + 1] /\ bundle = NoBundle
    BY <1>3, TableFacts DEF ExtractInv
  <2>2. /\ bundle'.sales = rawSales /\ bundle'.settled = Settled
        /\ bundle'.catalog = {}
    BY <2>1 DEF NoBundle
  <2>3. etl' = [runs |-> etl.runs, step |-> "extract", position |-> 2]
    BY <1>3, <2>1 DEF TypeOK
  <2>4. TypeOK'
    <3>1. Settled \in BOOLEAN
      BY DEF Settled, Succeeded
    <3>2. bundle' = [sales |-> rawSales, catalog |-> {}, settled |-> Settled]
      BY <2>1 DEF NoBundle
    <3>3. bundle' \in [sales : SUBSET (1 .. Len(Sold)), catalog : SUBSET Catalogs,
                       settled : BOOLEAN]
      BY <3>1, <3>2 DEF TypeOK
    <3>4. etl' \in [runs : 0 .. MaxRuns, step : {"idle", "extract", "write"},
                    position : 1 .. 3]
      BY <2>3 DEF TypeOK
    <3>5. QED
      BY <3>3, <3>4 DEF TypeOK
  <2>5. ExtractInv'
    <3>1. bundle'.settled => \A n \in bundle'.sales : Known(rawCatalog, Sold[n])
      BY <2>2 DEF Settled, IngestionInv
    <3>2. DOMAIN curated.demand \subseteq bundle'.sales
      BY <2>2 DEF CuratedInv
    <3>3. QED
      BY <1>2, <2>2, <2>3, <3>1, <3>2 DEF ExtractInv
  <2>6. WriteInv'
    <3> HIDE DEF IInv, Extract
    <3>1. etl'.step = "extract"
      BY <2>3
    <3>2. QED
      BY <3>1 DEF WriteInv
  <2>7. QED
    BY <1>1, <2>4, <2>5, <2>6
<1>4. CASE etl.position = 2
  <2>1. /\ bundle' = [bundle EXCEPT !.catalog = rawCatalog]
        /\ etl' = [etl EXCEPT !.step = "write", !.position = 1]
    BY <1>4, TableFacts
  <2>2. etl' = [runs |-> etl.runs, step |-> "write", position |-> 1]
    BY <2>1 DEF TypeOK
  <2>3. bundle' = [sales |-> bundle.sales, catalog |-> rawCatalog, settled |-> bundle.settled]
    BY <2>1 DEF TypeOK
  <2>4. TypeOK'
    BY <2>2, <2>3 DEF TypeOK
  <2>5. ExtractInv'
    BY <2>2, <2>3 DEF ExtractInv
  <2>6. WriteInv'
    BY <1>2, <1>4, <2>2, <2>3 DEF WriteInv, ExtractInv, CuratedInv, Unwritten
  <2>7. QED
    BY <1>1, <2>4, <2>5, <2>6
<1>5. QED
  BY <1>2, <1>3, <1>4

LEMMA WriteDatasetKeeps ==
  ASSUME IInv, WriteDataset
  PROVE  IInv'
<1> USE DEF IInv, WriteDataset
<1>1. PICK cleaned \in CleanedCatalogs(bundle.catalog) : Write(cleaned)
  OBVIOUS
<1>2. /\ cleaned \in Catalogs
      /\ \A p \in Products : cleaned[p] > 0 <=> Known(bundle.catalog, p)
  BY CleanedIsKnown DEF TypeOK
<1>3. /\ UNCHANGED <<sourceVars, rawVars, ingestion, bundle, curated>>
      /\ etl' = [etl EXCEPT !.position = @ + 1]
  BY <1>1 DEF Write
<1>4. RawInv' /\ IngestionInv' /\ CuratedInv'
  BY <1>3 DEF RawInv, IngestionInv, Succeeded, CuratedInv, DatasetsAgreeOnProducts,
              sourceVars, rawVars
<1>5. etl.position \in {1, 2}
  BY DEF TypeOK
<1>6. etl' = [runs |-> etl.runs, step |-> "write", position |-> etl.position + 1]
  BY <1>3 DEF TypeOK
<1>7. etl' \in [runs : 0 .. MaxRuns, step : {"idle", "extract", "write"}, position : 1 .. 3]
  BY <1>5, <1>6 DEF TypeOK
<1>8. ExtractInv'
  BY <1>3, <1>6 DEF ExtractInv, rawVars
<1>9. CASE etl.position = 1
  <2> DEFINE rows == [n \in bundle.sales |-> cleaned[Sold[n]]]
  <2>1. datasets' = [demand |-> rows, product |-> datasets.product]
    BY <1>1, <1>9 DEF Write, TypeOK, Datasets
  <2>2. \A n \in bundle.sales : Sold[n] \in Products
    BY EtlAssumption DEF TypeOK
  <2>3. rows \in [bundle.sales -> 0 .. MaxVersion]
    BY <1>2, <2>2 DEF Catalogs
  <2>4. datasets' \in Datasets
    BY <2>1, <2>3 DEF TypeOK, Datasets
  <2>5. TypeOK'
    BY <1>3, <1>7, <2>4 DEF TypeOK, sourceVars, rawVars
  <2>6. /\ DOMAIN datasets'.demand = bundle.sales
        /\ \A n \in bundle.sales :
             datasets'.demand[n] > 0 <=> Known(bundle.catalog, Sold[n])
    BY <1>2, <2>1, <2>2
  <2>7. WriteInv'
    BY <1>3, <1>6, <1>9, <2>6 DEF WriteInv
  <2>8. QED
    BY <1>4, <1>8, <2>5, <2>7
<1>10. CASE etl.position = 2
  <2>1. datasets' = [demand |-> datasets.demand, product |-> cleaned]
    BY <1>1, <1>10 DEF Write, TypeOK, Datasets
  <2>2. datasets' \in Datasets
    BY <1>2, <2>1 DEF TypeOK, Datasets
  <2>3. TypeOK'
    BY <1>3, <1>7, <2>2 DEF TypeOK, sourceVars, rawVars
  <2>4. WriteInv'
    BY <1>2, <1>3, <1>6, <1>10, <2>1 DEF WriteInv
  <2>5. QED
    BY <1>4, <1>8, <2>3, <2>4
<1>11. QED
  BY <1>5, <1>9, <1>10

\* Both ends leave no listing and no unpublished dataset behind.
LEMMA EtlEndsKeeps ==
  ASSUME IInv, EtlEnds, CuratedInv', curated' \in Datasets
  PROVE  IInv'
<1> USE DEF IInv, EtlEnds, sourceVars, rawVars
<1>1. etl' = [runs |-> etl.runs, step |-> "idle", position |-> 1]
  BY DEF TypeOK
<1>2. TypeOK'
  <2>1. Unwritten \in Datasets
    <3>1. NoCatalog \in Catalogs
      BY EtlAssumption DEF NoCatalog, Catalogs
    <3>2. << >> \in [{} -> 0 .. MaxVersion]
      OBVIOUS
    <3>3. QED
      BY <3>1, <3>2 DEF Unwritten, Datasets
  <2>2. NoBundle \in [sales : SUBSET (1 .. Len(Sold)), catalog : SUBSET Catalogs,
                      settled : BOOLEAN]
    BY DEF NoBundle
  <2>3. QED
    BY <1>1, <2>1, <2>2 DEF TypeOK
<1>3. RawInv' /\ IngestionInv'
  BY DEF RawInv, IngestionInv, Succeeded
<1>4. ExtractInv' /\ WriteInv'
  BY <1>1 DEF ExtractInv, WriteInv, NoBundle
<1>5. QED
  BY <1>2, <1>3, <1>4

LEMMA PublishCuratedKeeps ==
  ASSUME IInv, PublishCurated
  PROVE  IInv'
<1> USE DEF IInv, PublishCurated
<1>1. curated' = datasets /\ curated' \in Datasets
  BY DEF TypeOK
<1>2. UNCHANGED <<rawSales, rawCatalog>>
  BY DEF EtlEnds, rawVars
<1>3. DOMAIN datasets.demand = bundle.sales
  BY DEF WriteInv
<1>4. CuratedInv'
  <2>1. DOMAIN curated'.demand \subseteq rawSales'
    BY <1>1, <1>2, <1>3 DEF ExtractInv
  <2>2. \A p \in Products : curated'.product[p] > 0 => Known(rawCatalog', p)
    BY <1>1, <1>2, KnownGrows DEF WriteInv, ExtractInv
  <2>3. \A n \in DOMAIN curated'.demand : Sold[n] \in Products
    BY <1>1, <1>3, EtlAssumption DEF TypeOK
  <2>4. \A n \in DOMAIN curated'.demand :
          curated'.demand[n] > 0 <=> curated'.product[Sold[n]] > 0
    BY <1>1, <2>3 DEF WriteInv
  <2>5. QED
    BY <2>1, <2>2, <2>4 DEF CuratedInv, DatasetsAgreeOnProducts
<1>5. QED
  BY <1>1, <1>4, EtlEndsKeeps

LEMMA EtlFailsKeeps ==
  ASSUME IInv, EtlFails
  PROVE  IInv'
<1> USE DEF IInv, EtlFails
<1>1. CuratedInv'
  BY DEF EtlEnds, rawVars, CuratedInv, DatasetsAgreeOnProducts
<1>2. curated' \in Datasets
  BY DEF TypeOK
<1>3. QED
  BY <1>1, <1>2, EtlEndsKeeps

(***************************************************************************)
(* The theorems.                                                           *)
(***************************************************************************)
LEMMA InitIInv == Init => IInv
<1> USE EtlAssumption
<1> SUFFICES ASSUME Init PROVE IInv
  OBVIOUS
<1> USE DEF Init
<1>2. NoCatalog \in Catalogs /\ \A p \in Products : NoCatalog[p] = 0
  BY DEF NoCatalog, Catalogs
<1>3. Len(Sold) \in Nat
  OBVIOUS
<1>4. Unwritten \in Datasets /\ DOMAIN Unwritten.demand = {}
  <2>1. << >> \in [{} -> 0 .. MaxVersion] /\ DOMAIN << >> = {}
    OBVIOUS
  <2>2. QED
    BY <1>2, <2>1 DEF Unwritten, Datasets
<1>5. TypeOK
  <2>1. ingestion \in IngestionRun
    BY <1>2, <1>3, TableFacts DEF IngestionRun
  <2>2. QED
    BY <1>2, <1>3, <1>4, <2>1 DEF TypeOK, NoBundle
<1>6. RawInv /\ IngestionInv
  BY <1>2, <1>3 DEF RawInv, IngestionInv, Succeeded
<1>7. ExtractInv /\ WriteInv
  BY DEF ExtractInv, WriteInv, NoBundle
<1>8. CuratedInv
  BY <1>2, <1>4 DEF CuratedInv, DatasetsAgreeOnProducts, Unwritten
<1>9. QED
  BY <1>5, <1>6, <1>7, <1>8 DEF IInv

LEMMA NextIInv == IInv /\ [Next]_vars => IInv'
<1>1. SUFFICES ASSUME IInv, [Next]_vars PROVE IInv'
  OBVIOUS
<1>2. ASSUME NEW p \in Products, ReviseProduct(p) PROVE IInv'
  BY <1>1, <1>2, ReviseProductKeeps
<1>3. CASE AddSale
  BY <1>1, <1>3, AddSaleKeeps
<1>4. CASE Ingestion
  BY <1>1, <1>4, StartIngestionKeeps, DiscoverFailsKeeps, SkipTableKeeps,
     IngestTableKeeps, TableFailsKeeps, IngestionStopsKeeps DEF Ingestion
<1>5. CASE Etl
  BY <1>1, <1>5, StartEtlKeeps, ExtractKeeps, WriteDatasetKeeps, PublishCuratedKeeps,
     EtlFailsKeeps DEF Etl
<1>6. CASE UNCHANGED vars
  BY <1>1, <1>6 DEF vars, sourceVars, rawVars, etlVars, IInv, TypeOK, RawInv, IngestionInv,
     Succeeded, ExtractInv, WriteInv, CuratedInv, DatasetsAgreeOnProducts
<1>7. QED
  BY <1>1, <1>2, <1>3, <1>4, <1>5, <1>6 DEF Next, Finished

\* The invariant holds of every interleaving of the producer, ingestion runs
\* and ETL runs.
THEOREM EtlInvariance == Spec => []IInv
BY InitIInv, NextIInv, PTL DEF Spec

\* Every variable of the composition keeps its type: runs, listings and curated
\* versions are of rows the sources have held.
THEOREM TypeCorrect == Spec => []TypeOK
<1>1. IInv => TypeOK
  BY DEF IInv
<1>2. QED
  BY <1>1, EtlInvariance, PTL

\* A successful ingestion result covers what the sources held when the run
\* began (PipelineRunResult.succeeded).
THEOREM SuccessCoversSourcesCorrect == Spec => []SuccessCoversSources
<1>1. IInv => SuccessCoversSources
  BY DEF IInv, IngestionInv, SuccessCoversSources
<1>2. QED
  BY <1>1, EtlInvariance, PTL

\* Sales listed after a successful ingestion find their products, because
\* the products are listed after the sales (extract_all).
THEOREM JoinsFindTheirProductCorrect == Spec => []JoinsFindTheirProduct
<1>1. IInv => JoinsFindTheirProduct
  BY DEF IInv, WriteInv, JoinsFindTheirProduct
<1>2. QED
  BY <1>1, EtlInvariance, PTL

\* The datasets of a published run agree on which products there are
\* (one listing of the raw files per table and run).
THEOREM DatasetsAgreeOnProductsCorrect == Spec => []DatasetsAgreeOnProducts
<1>1. IInv => DatasetsAgreeOnProducts
  BY DEF IInv, CuratedInv
<1>2. QED
  BY <1>1, EtlInvariance, PTL

\* A later curated run holds every sale and product of an earlier one.
THEOREM NothingDisappearsCorrect == Spec => NothingDisappears
<1> DEFINE Kept == /\ DOMAIN curated.demand \subseteq DOMAIN curated'.demand
                   /\ \A p \in Products :
                        curated.product[p] > 0 => curated'.product[p] > 0
<1>1. IInv /\ [Next]_vars => [Kept]_vars
  <2>1. SUFFICES ASSUME IInv, [Next]_vars, curated' # curated PROVE Kept
    OBVIOUS
  <2>2. PublishCurated
    BY <2>1 DEF Next, ReviseProduct, AddSale, Ingestion, StartIngestion, DiscoverFails,
       SkipTable, IngestTable, TableFails, IngestionStops, Etl, StartEtl, Extract,
       WriteDataset, Write, EtlFails, Finished, vars, etlVars
  <2>3. QED
    BY <2>1, <2>2 DEF IInv, WriteInv, PublishCurated
<1>2. QED
  BY <1>1, EtlInvariance, PTL DEF Spec, NothingDisappears

\* What the documentation says of the cleaning holds as long as no product row
\* is ever revised: with one version of each, the jobs of a run clean it to the
\* same row.  With two, run etl_versions refutes it.  (dropDuplicates)
THEOREM CleaningIsDeterministicUnrevised ==
  ASSUME MaxVersion = 1
  PROVE  Spec => []CleaningIsDeterministic
<1>1. ASSUME IInv, NEW n \in DOMAIN curated.demand
      PROVE  curated.demand[n] = curated.product[Sold[n]]
  <2>1. curated \in Datasets
    BY <1>1 DEF IInv, TypeOK
  <2>2. PICK S \in SUBSET (1 .. Len(Sold)) : curated.demand \in [S -> 0 .. MaxVersion]
    BY <2>1 DEF Datasets
  <2>3. n \in 1 .. Len(Sold) /\ curated.demand[n] \in 0 .. 1
    BY <1>1, <2>2
  <2>4. Sold[n] \in Products
    BY <2>3, EtlAssumption
  <2>5. curated.product[Sold[n]] \in 0 .. 1
    BY <2>1, <2>4 DEF Datasets, Catalogs
  <2>6. curated.demand[n] > 0 <=> curated.product[Sold[n]] > 0
    BY <1>1 DEF IInv, CuratedInv, DatasetsAgreeOnProducts
  <2>7. QED
    BY <2>3, <2>5, <2>6
<1>2. IInv => CleaningIsDeterministic
  BY <1>1 DEF CleaningIsDeterministic
<1>3. QED
  BY <1>2, EtlInvariance, PTL

=============================================================================
