----------------------------- MODULE RetailEtl -----------------------------
(***************************************************************************)
(* Ingestion runs over all tables (IngestionPipeline.run) beside ETL runs  *)
(* (EnterprisePySparkEtlPipeline.run): what one lists while the other      *)
(* publishes, and what becomes of it in the curated datasets.              *)
(*                                                                         *)
(* Two tables stand for the ten: Fact_Sales, which has a watermark, and    *)
(* Dim_Product, which has none and is published whole whenever its file    *)
(* has changed.  Sale n is the n-th by date, of product Sold[n].  What     *)
(* TableIngestion shows of the ingestion of one table is one step here,    *)
(* and so is what CuratedLoad shows of the write of one dataset.           *)
(***************************************************************************)
EXTENDS Naturals, FiniteSets, Sequences

CONSTANTS Products, Sold,
          MaxVersion,      \* bound on the versions of a product's row
          MaxRuns,         \* bound on ingestion runs, and on ETL runs
          Modes,           \* load modes the runs use
          FailFast         \* what fail_fast may be set to

ASSUME EtlAssumption ==
  /\ Sold \in Seq(Products)
  /\ MaxVersion \in Nat /\ MaxRuns \in Nat
  /\ Modes \subseteq {"incremental", "full"}
  /\ FailFast \subseteq BOOLEAN

VARIABLES
  sold, catalog,           \* the source files: sales 1 .. sold are in one, and
                           \* catalog[p] is the version of p in the other, or 0
  rawSales, rawCatalog,    \* what published runs hold: sales, whole catalogs
  ckptSales, ckptCatalog,  \* the content last recorded of each file, if any
  ingestion,               \* the ingestion run, the last one when table is 0
  bundle,                  \* what the frames of the ETL run list
  datasets,                \* what the ETL run has written
  curated,                 \* what the last published ETL run wrote
  etl                      \* progress of the ETL run

sourceVars == <<sold, catalog>>
rawVars == <<rawSales, rawCatalog, ckptSales, ckptCatalog>>
etlVars == <<bundle, datasets, curated, etl>>
vars == <<sourceVars, rawVars, ingestion, etlVars>>

\* RetailSchemaRegistry.tables: both kinds of run take the tables in this order.
TableOrder == <<"Fact_Sales", "Dim_Product">>
Tables == DOMAIN TableOrder

Catalogs == [Products -> 0 .. MaxVersion]
NoCatalog == [p \in Products |-> 0]
NoBundle == [sales |-> {}, catalog |-> {}, settled |-> FALSE]
Unwritten == [demand |-> << >>, product |-> NoCatalog]

\* A row of the demand dataset per listed sale holds the version of its product.
Datasets ==
  [demand : UNION {[S -> 0 .. MaxVersion] : S \in SUBSET (1 .. Len(Sold))},
   product : Catalogs]

\* started is what the sources held when the run began, for the properties.
IngestionRun ==
  [runs : 0 .. MaxRuns, table : 0 .. Len(TableOrder), mode : {"incremental", "full"},
   failFast : BOOLEAN, failed : SUBSET Tables, answer : {"none", "returned", "raised"},
   started : [sold : 0 .. Len(Sold), catalog : Catalogs]]

TypeOK ==
  /\ sold \in 0 .. Len(Sold) /\ catalog \in Catalogs
  /\ rawSales \subseteq 1 .. Len(Sold) /\ rawCatalog \subseteq Catalogs
  /\ ckptSales \subseteq 0 .. Len(Sold) /\ ckptCatalog \subseteq Catalogs
  /\ ingestion \in IngestionRun
  /\ bundle \in [sales : SUBSET (1 .. Len(Sold)), catalog : SUBSET Catalogs,
                 settled : BOOLEAN]
  /\ datasets \in Datasets /\ curated \in Datasets
  /\ etl \in [runs : 0 .. MaxRuns, step : {"idle", "extract", "write"}, position : 1 .. 3]

Init ==
  /\ sold = 0 /\ catalog = NoCatalog
  /\ rawSales = {} /\ rawCatalog = {} /\ ckptSales = {} /\ ckptCatalog = {}
  /\ ingestion = [runs |-> 0, table |-> 0, mode |-> "incremental", failFast |-> FALSE,
                  failed |-> {}, answer |-> "none",
                  started |-> [sold |-> 0, catalog |-> NoCatalog]]
  /\ bundle = NoBundle
  /\ datasets = Unwritten /\ curated = Unwritten
  /\ etl = [runs |-> 0, step |-> "idle", position |-> 1]

(***************************************************************************)
(* The producer of the files lists a product before it is sold.            *)
(***************************************************************************)
ReviseProduct(p) ==
  /\ catalog[p] < MaxVersion
  /\ catalog' = [catalog EXCEPT ![p] = @ + 1]
  /\ UNCHANGED <<sold, rawVars, ingestion, etlVars>>

AddSale ==
  /\ sold < Len(Sold)
  /\ catalog[Sold[sold + 1]] > 0
  /\ sold' = sold + 1
  /\ UNCHANGED <<catalog, rawVars, ingestion, etlVars>>

(***************************************************************************)
(* IngestionPipeline.run.                                                  *)
(***************************************************************************)
StartIngestion ==
  /\ ingestion.table = 0 /\ ingestion.runs < MaxRuns
  /\ \E mode \in Modes, failFast \in FailFast :
       ingestion' = [runs |-> ingestion.runs + 1, table |-> 1, mode |-> mode,
                     failFast |-> failFast, failed |-> {}, answer |-> "none",
                     started |-> [sold |-> sold, catalog |-> catalog]]
  /\ UNCHANGED <<sourceVars, rawVars, etlVars>>

\* A source file is missing: discover_sources raises before any table.
DiscoverFails ==
  /\ ingestion.table = 0 /\ ingestion.runs < MaxRuns
  /\ ingestion' = [ingestion EXCEPT !.runs = @ + 1, !.answer = "raised"]
  /\ UNCHANGED <<sourceVars, rawVars, etlVars>>

Ingesting(name) == ingestion.table \in Tables /\ TableOrder[ingestion.table] = name

\* Mutant: the loop goes on behind the last table.
NextTableAlways(failed) ==
  ingestion' = [ingestion EXCEPT !.failed = failed, !.table = @ + 1]

\* The table's result is noted; after the last table the run returns.
NextTable(failed) ==
  ingestion' = IF ingestion.table = Len(TableOrder)
               THEN [ingestion EXCEPT !.failed = failed, !.table = 0, !.answer = "returned"]
               ELSE [ingestion EXCEPT !.failed = failed, !.table = @ + 1]

\* IncrementalLoader.decide: an unchanged file is skipped, unless in full mode.
Unchanged ==
  /\ ingestion.mode = "incremental"
  /\ \/ Ingesting("Fact_Sales") /\ ckptSales = {sold}
     \/ Ingesting("Dim_Product") /\ ckptCatalog = {catalog}

SkipTable ==
  /\ Unchanged
  /\ NextTable(ingestion.failed)
  /\ UNCHANGED <<sourceVars, rawVars, etlVars>>

\* The sales after the watermark, or all of them.
NewSales ==
  {n \in 1 .. sold : ingestion.mode = "incremental" => \A w \in ckptSales : n > w}

\* Mutant: a run takes the place of the runs before it.
PublishReplaces ==
  \/ /\ Ingesting("Fact_Sales")
     /\ rawSales' = NewSales
     /\ UNCHANGED rawCatalog
  \/ /\ Ingesting("Dim_Product")
     /\ rawCatalog' = {catalog}
     /\ UNCHANGED rawSales

\* A run without rows is not published.
PublishRows ==
  \/ /\ Ingesting("Fact_Sales")
     /\ rawSales' = rawSales \union NewSales
     /\ UNCHANGED rawCatalog
  \/ /\ Ingesting("Dim_Product")
     /\ rawCatalog' = rawCatalog \union ({catalog} \ {NoCatalog})
     /\ UNCHANGED rawSales

RecordContent ==
  IF Ingesting("Fact_Sales")
  THEN ckptSales' = {sold} /\ UNCHANGED ckptCatalog
  ELSE ckptCatalog' = {catalog} /\ UNCHANGED ckptSales

IngestTable ==
  /\ ~Unchanged
  /\ PublishRows /\ RecordContent
  /\ NextTable(ingestion.failed)
  /\ UNCHANGED <<sourceVars, etlVars>>

\* What a failed table leaves: nothing, or a run that was published before
\* its checkpoint could not be saved.
LeftByFailure ==
  \/ ingestion.table \in Tables /\ UNCHANGED rawVars
  \/ ~Unchanged /\ PublishRows /\ UNCHANGED <<ckptSales, ckptCatalog>>

\* Mutant: a failed table does not count.
TableFailsUnnoticed ==
  /\ LeftByFailure
  /\ NextTable(ingestion.failed)
  /\ UNCHANGED <<sourceVars, etlVars>>

\* An expected error: the table is marked failed, or fail_fast ends the run.
TableFails ==
  /\ LeftByFailure
  /\ IF ingestion.failFast
     THEN ingestion' = [ingestion EXCEPT !.table = 0, !.answer = "raised"]
     ELSE NextTable(ingestion.failed \union {ingestion.table})
  /\ UNCHANGED <<sourceVars, etlVars>>

\* An error that run does not expect, or the end of the process.
IngestionStops ==
  /\ LeftByFailure
  /\ ingestion' = [ingestion EXCEPT !.table = 0, !.answer = "raised"]
  /\ UNCHANGED <<sourceVars, etlVars>>

Ingestion ==
  \/ StartIngestion \/ DiscoverFails \/ SkipTable \/ IngestTable
  \/ TableFails \/ IngestionStops

(***************************************************************************)
(* EnterprisePySparkEtlPipeline.run.                                       *)
(***************************************************************************)
\* The ingestion is at rest after a run whose result is a success.
Succeeded == ingestion.answer = "returned" /\ ingestion.failed = {}
Settled == ingestion.table = 0 /\ Succeeded

StartEtl ==
  /\ etl.step = "idle" /\ etl.runs < MaxRuns
  /\ etl' = [runs |-> etl.runs + 1, step |-> "extract", position |-> 1]
  /\ UNCHANGED <<sourceVars, rawVars, ingestion, bundle, datasets, curated>>

\* Mutant: the tables are read in the opposite order.
ExtractReversed ==
  /\ etl.step = "extract"
  /\ IF TableOrder[3 - etl.position] = "Fact_Sales"
     THEN /\ rawSales # {}
          /\ bundle' = [bundle EXCEPT !.sales = rawSales, !.settled = Settled]
     ELSE /\ rawCatalog # {}
          /\ bundle' = [bundle EXCEPT !.catalog = rawCatalog]
  /\ etl' = IF etl.position = Len(TableOrder)
            THEN [etl EXCEPT !.step = "write", !.position = 1]
            ELSE [etl EXCEPT !.position = @ + 1]
  /\ UNCHANGED <<sourceVars, rawVars, ingestion, datasets, curated>>

\* _read_table lists the published files of a table; the frame keeps the list.
Extract ==
  /\ etl.step = "extract"
  /\ IF TableOrder[etl.position] = "Fact_Sales"
     THEN /\ rawSales # {}
          /\ bundle' = [bundle EXCEPT !.sales = rawSales, !.settled = Settled]
     ELSE /\ rawCatalog # {}
          /\ bundle' = [bundle EXCEPT !.catalog = rawCatalog]
  /\ etl' = IF etl.position = Len(TableOrder)
            THEN [etl EXCEPT !.step = "write", !.position = 1]
            ELSE [etl EXCEPT !.position = @ + 1]
  /\ UNCHANGED <<sourceVars, rawVars, ingestion, datasets, curated>>

Versions(listed, p) == {c[p] : c \in listed} \ {0}

\* dropDuplicates: one row of each key in the listed catalogs, any of them.
\* Each dataset is a Spark job of its own and cleans the table anew.
CleanedCatalogs(listed) ==
  {c \in Catalogs : \A p \in Products :
     c[p] \in Versions(listed, p) \/ (c[p] = 0 /\ Versions(listed, p) = {})}

\* The first dataset is the sales, joined with their products; a product that
\* is not there leaves nulls, here 0.  The second is the products.
Write(cleaned) ==
  /\ datasets' = IF etl.position = 1
                 THEN [datasets EXCEPT !.demand = [n \in bundle.sales |-> cleaned[Sold[n]]]]
                 ELSE [datasets EXCEPT !.product = cleaned]
  /\ etl' = [etl EXCEPT !.position = @ + 1]
  /\ UNCHANGED <<sourceVars, rawVars, ingestion, bundle, curated>>

\* Mutant: the raw layer is listed again for each dataset.
WriteDatasetRelists ==
  /\ etl.step = "write" /\ etl.position <= 2
  /\ \E cleaned \in CleanedCatalogs(rawCatalog) : Write(cleaned)

WriteDataset ==
  /\ etl.step = "write" /\ etl.position <= 2
  /\ \E cleaned \in CleanedCatalogs(bundle.catalog) : Write(cleaned)

\* The frames are locals of the run, what it wrote is published or removed.
EtlEnds ==
  /\ etl' = [etl EXCEPT !.step = "idle", !.position = 1]
  /\ bundle' = NoBundle /\ datasets' = Unwritten
  /\ UNCHANGED <<sourceVars, rawVars, ingestion>>

PublishCurated ==
  /\ etl.step = "write" /\ etl.position = 3
  /\ curated' = datasets
  /\ EtlEnds

\* No raw file, a failed job, the end of the process: nothing is published.
EtlFails ==
  /\ etl.step # "idle"
  /\ EtlEnds
  /\ UNCHANGED curated

Etl == StartEtl \/ Extract \/ WriteDataset \/ PublishCurated \/ EtlFails

\* Nothing is left to do within the bounds.
Finished ==
  /\ ingestion.runs = MaxRuns /\ ingestion.table = 0
  /\ etl.runs = MaxRuns /\ etl.step = "idle"
  /\ UNCHANGED vars

Next ==
  \/ \E p \in Products : ReviseProduct(p)
  \/ AddSale \/ Ingestion \/ Etl \/ Finished

Spec == Init /\ [][Next]_vars

(***************************************************************************)
(* Properties.                                                             *)
(***************************************************************************)
\* The ingestion result tells the truth: after a success every sale and every
\* product that was in the files when the run began is published, in this run
\* or before, though files changed and tables were skipped.
SuccessCoversSources ==
  Succeeded =>
    /\ 1 .. ingestion.started.sold \subseteq rawSales
    /\ \A p \in Products :
         ingestion.started.catalog[p] > 0 =>
           \E c \in rawCatalog : c[p] >= ingestion.started.catalog[p]

\* An ETL run that lists the sales after a successful ingestion finds the
\* product of every sale, whatever ingestion publishes while it goes on.
\* (both take facts before dimensions, registry order)
JoinsFindTheirProduct ==
  etl.step = "write" /\ bundle.settled =>
    \A n \in DOMAIN datasets.demand : datasets.demand[n] > 0

\* The datasets of one run agree on which products there are.  (one listing
\* per table and run, shared by all jobs)
DatasetsAgreeOnProducts ==
  \A n \in DOMAIN curated.demand :
    curated.demand[n] > 0 <=> curated.product[Sold[n]] > 0

\* What has been curated once is in every later curated run.  (runs are added
\* to the raw layer, extraction reads all of them)
NothingDisappears ==
  [][/\ DOMAIN curated.demand \subseteq DOMAIN curated'.demand
     /\ \A p \in Products : curated.product[p] > 0 => curated'.product[p] > 0]_vars

\* "Deterministic PySpark cleaning": the jobs of one run, which read the same
\* files, clean a product to the same row.  (dropDuplicates on the primary key)
CleaningIsDeterministic ==
  \A n \in DOMAIN curated.demand : curated.demand[n] = curated.product[Sold[n]]

=============================================================================
