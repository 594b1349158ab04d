# RetailMind AI: verification of the ETL

RetailMind's implemented part is an ETL: CSV files of ten retail tables are
ingested into a raw layer, read again by Spark, cleaned, enriched and turned
into features, and written to a curated layer. This directory holds TLA+ models
of the parts that keep state on disk and can be interleaved, crashed or retried,
the TLC configurations that check them, and TLAPS proofs.

Paths below are relative to `src/`.

## 1. Inventory

| Component | State it keeps | Operations | Talks to |
|---|---|---|---|
| `IngestionPipeline` (`etl/ingestion/ingestion_pipeline.py`) | locals of a run | `run` (loop over tables), `_ingest_table`, `close` | all of the ingestion components |
| `CSVReader` (`csv_reader.py`) | none; an open stream | `discover_sources`, `metadata`, `read_header`, `read_chunks` | source files, retry |
| `SchemaValidator`, `MissingValueHandler`, `DataQualityValidator` | none | refuse a header, a chunk, or a chunk's new rows | called per chunk |
| `IncrementalLoader` (`incremental_loader.py`) | none | `decide`, `filter_new_rows`, `maximum_watermark`, `commit` | checkpoint store |
| `JsonCheckpointStore` | `<table>.json`, `<table>.json.tmp` | `load`, `save` | file system, without retry |
| `LocalRawDataSink` | `_staging/<run>/<table>`, `table=.../run_id=<run>` | `begin`, `write`, `commit`, `abort` | file system, with retry |
| `DuplicateHandler`, `SQLiteDuplicateKeyStore` (`duplicate_handler.py`) | keys seen per table, in a temporary file | `reset`, `handle`, `close` | called per chunk |
| `RawDatasetExtractor` (`extract.py`) | none | `extract_all`, table by table | raw layer through Spark |
| `RetailTransformer` (`transformation/transform.py`) | none | cleaning, calendar, demand base, purchase orders | lazy Spark frames |
| `RetailFeatureEngineer` (`feature_engineering.py`) | none | lags, rolling windows, ABC, XYZ, volatility, holiday, promotion and inventory features | lazy Spark frames |
| `CuratedDataLoader` (`curation/load.py`) | `_staging/run_id=<run>`, `processing_date=.../run_id=<run>` | `load` | Spark writers, file system, retry |
| `EnterprisePySparkEtlPipeline` (`orchestration/etl_pipeline.py`) | none | `run`, `close`, `build_etl_pipeline`, `_validate_layer_uris` | the four above |
| Configuration, logging (`config/`) | cached settings | validation, cached getters | read at start |

**Interactions.** `_ingest_table` is a straight line: header, metadata, decision
from the checkpoint, reset of the key index, staging directory, one iteration
per chunk, metadata again, rename of the directory, checkpoint. The order of the
last two is what makes a crash harmless. Two things are shared between
processes: the file system roots (raw, checkpoint, curated) and the source file,
which its producer rewrites at any time. Nothing in the code locks any of them.

**Hard behaviours.** A crash between two of the steps; a retry of a rename or a
`mkdir` that took effect; a source rewritten while it is streamed; two processes
on the same roots; a rejected chunk after accepted ones; the watermark, which
decides for good which rows are ever looked at; cleaning of directories shared
by several runs. `PROJECT.json` lists each with its line.

**What makes the components correct.** Ingestion: a published run is exactly the
increment of one version of the source; nothing is skipped that was never
published; a published run stays. Checkpoint: for a single process always a
whole file, never behind what it was. Sink: staging directories go away. Curated
layer: a run is visible with every dataset or not at all; the result told to the
caller is the truth. Transformation and features: the result is a function of
the raw layer, a feature of a day does not depend on later days, and one that
predicts a day does not depend on the day either; where a join or a window does
look further (holidays, promotions), what has settled stays.

## 2. Modules

| Module | Models |
|---|---|
| `IngestionBounds` | the constants the ingestion modules share, with their assumption |
| `RawSink` | `LocalRawDataSink`: `dir` and `parts` of each run |
| `CheckpointStore` | `JsonCheckpointStore` as files and directory entries: `disk`, `tmp`, `ckpt`, and the file each writer has open, `fd` |
| `RawLayer` | what ingestion promises a reader of the raw layer of a table |
| `TableIngestion` | `_ingest_table` over `RawSink` and `CheckpointStore`, several pipelines, the source file, faults; the refinement of `RawLayer` and the properties |
| `TableIngestionInv` | the inductive invariants `IInv` and `CoverInv` |
| `TableIngestionProofs`, `IncrementProofs`, `CoverProofs`, `RunProofs` | the proofs: types; increments and the refinement; coverage; what runs leave behind and what a single pipeline can rely on |
| `MCTableIngestion` | rows and file contents for TLC |
| `CuratedLayer` | what the curated loader promises a reader |
| `CuratedLoad` | `CuratedDataLoader.load`, several loaders, retries, faults; the refinement and the properties |
| `CuratedLoadInv`, `CuratedLoadProofs`, `MCCuratedLoad` | as above |
| `RetailEtl` | `IngestionPipeline.run` over its tables beside `EnterprisePySparkEtlPipeline.run`, with the two above as single steps |
| `RetailEtlProofs`, `MCRetailEtl` | as above |
| `DemandFeatures` | the features of `RetailFeatureEngineer` that read other rows or the inventory, over two tables that grow independently |
| `DemandFeaturesProofs`, `MCDemandFeatures` | as above |
| `DemandBase` | the calendar and the demand base of `RetailTransformer`, with the holiday and promotion features, over four tables that grow independently |
| `DemandBaseProofs`, `MCDemandBase` | as above |

### Table ingestion and the code

`pc[p]` names the next step of the method, `job[p]` its local variables (run,
load mode, first metadata, lower watermark, maximum watermark, stream position),
`seen[p]` the key index of the process. Each action is one call that reads or
changes shared state, with the computation that follows it; `IngestChunk` is one
iteration of the chunk loop, in its order: schema, watermark filter, quality,
maximum watermark, duplicates, write. A failing write comes after the key index
has taken the chunk's keys (`WriteFails`). Each early end has its action:
`RejectHeader`, `LoadCorrupt`, `SkipUnchanged`, `RejectOpen`, `RejectChunk`,
`SourceChanged`, `AbortEmpty`, `SaveLost`. An exception after `begin` goes to
`abort`, the `finally` clause; one before it, or after the publication, ends the
run directly, as `transaction_closed` does in the code.

Abstractions:

- a row is a key, a date and a *grade*: good, malformed (missing value or cast
  fails, for every row of the chunk) or implausible (quality rules, new rows
  only). Date 0 is a missing watermark;
- a version of the source file is its header, right or wrong, and its rows. Its
  identity (path, size, mtime) is its number: **a rewrite is assumed to change
  size or mtime**;
- a rewrite replaces the file, or overwrites it in place. In the second case an
  open stream may deliver old or new rows for every following chunk
  (`job.view`);
- run identifiers are unique, as `uuid4` makes them;
- retries of the ingestion are collapsed to their outcome: the operation works,
  fails on every attempt without effect (`io`), or takes effect, reports an
  error and fails when repeated (`lostack`). The rename of a checkpoint is not
  retried: it may take effect and fail the run (`SaveUnacknowledged`). Whether
  writes reach the disk before a power failure is not modelled: the code never
  calls `fsync`;
- the store's write is two steps, open-and-truncate and write-and-close. When
  two writers filled the same file the result is either text, or a mix that
  does not parse;
- the default missing-value policy only refuses; dropping and filling rows needs
  policies that `build_ingestion_pipeline` does not pass;
- one table. Tables share nothing but the process; the loop over them is in
  `RetailEtl`.

### Curated load and the code

`pc[l]`, `position[l]` (the dataset in the order of `CURATED_DATASET_SPECS`),
`attempt[l]` (of `_run_with_retry`), `place[l]` and `data[l]` (where the run's
directory is and what each dataset directory holds), `root` (whether `_staging`
exists). `is_dir`, `iterdir` and `rmdir` of `_publish_local_run` are three
actions, because other loaders come between them. A failed Spark job may leave
nothing, a part or all of a dataset behind; what Spark does then is taken from
how the code uses it: `overwrite` replaces, `errorifexists` refuses a path that
is there, with an error that is not transient. The checks at lines 242-251 that
cannot fail (the staging path was written, the final path carries a fresh run
identifier) have no action. Creating a dataset directory and its parents is one
step. An exception that `load` does not name leaves it like the end of the
process (`Kill`).

### The whole ETL and the code

`RetailEtl` composes the two kinds of run at the grain at which they meet. Two
tables stand for the ten, in registry order: `Fact_Sales`, which has a
watermark, and `Dim_Product`, which has none and is published whole. `ingestion`
holds the locals of `run` (the table it is at, the failed ones, the answer: a
result or an exception); an action is the ingestion of one table, and what a
failed one may leave is taken from `TableIngestion`: nothing, or a published run
whose checkpoint was not saved. `etl` and `bundle` hold what `extract_all` has
listed so far; `_read_table` is a step per table because ingestion publishes in
between. Transformation and features only build lazy frames; each dataset's
write is the step that evaluates them, so `_clean_table` is evaluated once per
dataset (`CleanedCatalogs`). `datasets` is what the ETL run has written, `curated`
what the last published run wrote. A demand row keeps what matters of its join:
the version of the product it found, or 0 for none.

Abstractions: the sales have an order by date that their producer respects (the
late row is `TableIngestion`'s subject), and the producer lists a product before
selling it; sales carry no data; one ETL run at a time (several loaders are
`CuratedLoad`'s subject); the write of a dataset and the publication succeed or
fail as `CuratedLoad` shows, so a failure publishes nothing; one ETL process and
one ingestion process; two datasets stand for the ten.

### Demand features and the code

A state is the cleaned sales and inventory of one store (`sales`, `inventory`:
functions from day and product) and the last features built from them: the
history columns (`features`) and the inventory columns (`ratios`). `Deliver` and
`DeliverInventory` add rows of a later day to one table, each along its own
watermark; `Build` is `RetailFeatureEngineer.build`. `History` is the window
`rangeBetween(-w, -1)`, `RowLag` what `F.lag` finds in the ordered partition,
`Lag` that row under the check of its date. `InventoryFeatures` is the left join
of a sale with its inventory and the ratios made of both, under `SafeDivide`.
Null is the empty set.

Abstractions: the calendar and the portfolios of other stores are other
partitions; a mean is its sum and count, a sample deviation its count, sum and
sum of squares, a ratio its numerator and denominator, and thresholds are integer
percentages compared by cross multiplication, so floating-point rounding at a
boundary is not modelled; the revenue column is units times a fixed price per
product (the quality rules hold it to units times the row's own price), and its
lag is taken from the same row as the lag of the units; comparisons of the
closing stock with a level of the same row, and the other row-wise features, are
left out. Rows of a key that a full reload published again are `RetailEtl`'s
subject, here a key has one row.

### Demand base and the code

A state is the published rows of the four tables the demand base joins by date
and label: `dates` (`Dim_Date`), `holidays`, `promotions` and `sales`, for one
store. Each `Deliver` action is the ingestion of an increment of one table: rows
newer than that table's watermark that pass its quality rules (`AcceptedSale`,
`AcceptedPromotion`), one per primary key and increment. A promotion whose
`End_Date` has moved is newer again and arrives a second time under its
identifier: `promotions` holds both rows, as the raw layer does, and `Cleanings`
are the tables `dropDuplicates` may make of them, another one in each job.
Everything behind the cleaning takes one of them as a parameter. Nothing orders
the tables among each other, as nothing in the code does. The ETL recomputes
everything from the raw layer, so its results are operators on a state:
`NextHoliday` and `PreviousHoliday` are the two windows over the calendar,
`HolidayFeatures` the flags and the proximity, `Joined` the left join of sales
and promotions, and `Demand` the rows with `row_number` 1. The window's order is
not assumed to be total: `Demand` keeps every row no other is before, and
`OneRowPerSale` is what says that there is one.

Abstractions: incremental mode only, in which the other three tables, watermarked
by a date of their key, publish a key once; what a full reload of a changed file
does to any table is what `etl_versions` shows. A promotion row keeps its
identity, name, period and discount, a sale its date, product, label and
discount. Each table is delivered in the order
of its watermark column and an increment holds everything the code would publish
of one version; late rows are `TableIngestion`'s subject. The extractor refuses
to run until every table has a run; what is said before that is said of no
output. The store and the calendar columns that are formulas of the date (week,
month, weekend) are left out, as is the product join, which is in `RetailEtl`.

## 3. Runs

All runs finish in about three minutes or less on two cores.

| Run | Question | Instance |
|---|---|---|
| `overlap` | Do overlapping runs of two processes in both load modes, with a rewritten source and failing I/O, keep the invariants, leave no staging directory and implement `RawLayer`? | 2 pipelines, 3 runs, 2 versions |
| `snapshot` | A table without watermark, duplicates refused: is each run one whole snapshot? | 2 pipelines, 3 runs, 2 versions, eight file contents |
| `recovery` | One process that is killed anywhere, retries effects that took place and cannot delete: is the checkpoint always readable and does it only advance, are published runs whole, disjoint in date and untouched, does every run end, and does an undisturbed one on a valid source record it? | 1 pipeline, 3 runs, 3 versions, faults in the first two runs, fair |
| `torn` (violation) | `CheckpointReadable` with two processes | 2 pipelines, 1 version, no faults |
| `curated` | Invariant, truth of success, staging, atomic publication (refinement of `CuratedLayer`), isolation, and whom `errorifexists` refuses | 3 loaders, 2 datasets, 2 attempts, local, every fault |
| `curated_retry` | Does a transient error less than `max_attempts` cost a run? | 2 loaders, 3 attempts, 2 errors, remote, fair |
| `curated_race` (violation) | Does an error mean the run is not published? | 2 loaders, local, no faults |
| `features` | Do history features read the past only, are lags calendar days, are the classes those of their definition, and does a row keep its ratios once its inventory is there? | 2 products, 4 days, units 0 or 3, every history, 3 inventory rows of one product, every order of the two tables |
| `features_leakage` (violation) | Are the inventory features free of the day's own sales? | as `features` with 1 product |
| `demand_base` | Is there one row per sale, how may its promotion and its flag change when promotions arrive late or are revised, does a settled calendar row ever change, and are the holiday flags true? | 4 days, window 1, 7 promotion rows of 5 identifiers, 7 sale rows, every order of increments, every reduction of revised rows |
| `etl` | Is a successful answer true, do joins find their product, do datasets agree, does nothing disappear? | 2 sales, 2 products, 2 versions of each, 2 runs of each kind, every failure |
| `etl_versions` (violation) | Is cleaning deterministic? | as `etl`, incremental only |

**Bounds.** Three runs are the least that show a crash, a run that recovers and a
run that builds on the recovery; two versions the least for a change under a
stream, three for an increment on an increment. Two pipelines are enough for
every race found, since the shared objects (source, temporary file, checkpoint)
are each touched by two processes at a time; for the curated root three loaders
let one write while two clean up. Chunks of two rows and files of up to four
rows give chunk borders inside a file. `Days12` has a duplicate across chunks,
`Shuffled` one within a chunk, a chunk that is older than the one before and,
after `Days12`, a row that comes too late; `BadTail` has a bad row behind a whole
good chunk, `OddPast` an old bad row that a watermark hides, and `OddTail` a
duplicate across chunks and an old bad row behind a whole good chunk, so that
whether the file is valid depends on the watermark. `recovery` uses `Days12`,
`Shuffled` and `OddPast`; `overlap` a file of one day and `OddTail`; `snapshot`
all but `OddTail`, an empty file and a wrong header. A version draws any content
of its run. `MaxFaults` of `CuratedLoad` bounds the transient
errors of a load: at least `MaxAttempts` of them exhaust the retry. Symmetry is
used in runs without liveness only.

`Disturbed` names the runs faults may happen to. It is every run except in
`recovery`: there the last run is left alone, so that the promise about it has a
premise that is met after every way the first two can fail. Full reloads are in
`overlap` only, because the watermark may go back in a full reload of a rewritten
source, and `CheckpointAdvances` and `IncrementsAreNewer` are about incremental
runs.

For `etl`, two runs of each kind let each overlap the other from both sides and
follow a failed one; two versions of a product are the least that differ, and
two sales the least for an increment. For `features`, four days hold a gap inside
and outside of each window (lags 1 and 2, windows 2 and 3), a minimum history of
two rows can be met and missed, and the thresholds put histories of zeros and
threes into every class (three and three: X, zero, three and three: Y, zero and
three: Z); two products with different prices give ties in revenue and second
products on either side of both ABC thresholds. Not covered is a portfolio with
all three classes, which takes three products; each class depends on the rows
ahead of it only through their sum.

The three inventory rows sell part of the stock, sell out, and hold none, so
every denominator is zero in some state; they are of two days and one product, so
that either table can be behind the other, with days and products it lacks.

For `demand_base`, four days and a window of one leave days outside of the
window on both sides while the premise of `FlagsAreTrue` is met, and a day whose
two nearest holidays are equally far. Four days are also enough for the
promotions of one name to overlap, nest, and start on the same day, so that the
window needs both of its sort keys. One of them may be moved to the third day,
so that it loses a sale it matched, and one may become a promotion of another
name; two more are refused by the quality rules (reversed period, blank name).
The sale rows hold two rows of one key for each day, a label without discount, a
discount without label, a label that matches nothing before the revision and a
discount above one.

**Fairness.** `FairSpec` assumes weak fairness of each pipeline's or loader's own
steps: a run that was started goes on until it ends, as straight-line code whose
only waiting is bounded retries does. Nothing is assumed of starting a run, of
faults, of the end of a process or of the producer of the source. `RunEnds` and
`BecomesRecorded` are checked under it in `recovery`, `RetryAbsorbsFaults` in
`curated_retry`.

**Deadlock** is checked everywhere; `Finished` stutters only when every bound is
used up and every process is idle, `Complete` of `DemandBase` when the calendar
and the holidays have reached the last day.

### Four disagreements with the repository's words

- `torn`: `JsonCheckpointStore` is documented as atomic, but all writers of a
  table share one temporary name. Two processes that save at the same time can
  leave an unreadable checkpoint, which fails the table in both load modes. In
  the trace the second process still has that very file open: if it goes on, its
  write completes the checkpoint in place; if it ends there, every run fails
  until someone removes the file. `NoLostRows` holds nevertheless (`snapshot`
  and the theorem), since an unreadable checkpoint is never acted on.
- `curated_race`: `load` may raise "Unable to publish curated run" after it has
  published the run, when another loader removes the empty `_staging` between
  `is_dir` and `iterdir`.
- `etl_versions`: transformation is documented as deterministic, but
  `dropDuplicates` keeps any row of a key, and the raw layer holds a row per
  published version of a dimension table. One ETL run may write demand features
  with the new product row and `dim_product` with the old one. That a product is
  *there* never differs (`DatasetsAgreeOnProducts`, proved). The same mechanism
  reaches promotions whose end has moved: a sale matched with such a promotion may
  lose it or get an older one. `MatchMovesForward` says what holds for all others.
- `features_leakage`: the feature engineer is documented as leakage-aware for its
  inventory features too, but `inventory_turnover_proxy` divides the units sold on
  the row's own day, the value to be predicted, by the average inventory of that
  day. The history features are free of it (`HistoryWithoutTarget`, proved).

## 4. Proofs

The theorems hold for every number of pipelines, runs, versions, rows, loaders,
datasets and attempts, under the named assumptions on the constants
(`BoundsAssumption`, `ConstantsAssumption`, `LoadAssumption`, `EtlAssumption`,
`ConfigAssumption`, `TablesAssumption`: sizes are natural numbers, modes and faults
are the listed ones, the feature configuration is one its class accepts, the
inventory rows have passed the rule of their table, there are finitely many
products, the rows offered hold numbers) and under what the table says in
addition. Every invariant and action property a passing run checks is stated by
one of them.

| Theorem | Says | In addition |
|---|---|---|
| `TypeCorrect` (`TableIngestionProofs`, `RetailEtlProofs`, `DemandBaseProofs`, `DemandFeaturesProofs`) | `Spec => []TypeOK` | |
| `IInvCorrect`, `CoverInvCorrect` | the two invariants of the ingestion | |
| `PublishedWholeCorrect` | a published raw run is the whole increment of one valid version | |
| `RawImmutableCorrect` | no step changes or removes a published raw run | |
| `RawLayerImplemented` | `TableIngestion` implements `RawLayer` | |
| `NoLostRowsCorrect` | every key of the recorded version is in a published run, but for those that came too late (`LateKeys`) | |
| `StagingReclaimedCorrect` (`RunProofs`) | a raw staging directory belongs to a running run | failing operations only |
| `CheckpointReadableAlone` | the checkpoint is a whole file | one pipeline |
| `CheckpointAdvancesAlone` | identity and watermark never go back | one pipeline, incremental |
| `IncrementsAreNewerAlone` | what follows a recorded run is newer than it | one pipeline, incremental, a watermark column |
| `LastVersionRecordedAlone` | an undisturbed run on a valid last version leaves it only by recording it | one pipeline |
| `RunsAdvance` | every step of a run takes it to a later stage or past rows of the source | |
| `LoadInvariant` | the invariant of the curated loader | |
| `SuccessIsCompleteCorrect` | a load that reports success left every dataset whole in its place | |
| `AtomicallyPublishedCorrect` | `CuratedLoad` implements `CuratedLayer` | local root |
| `StagingUndisturbedCorrect` | only a load's own abort removes its staging directory | |
| `StagingReclaimedCorrect` (`CuratedLoadProofs`) | a staging directory without a running load was left by a kill or is in the log | |
| `RefusedByOwnAttemptCorrect` | `errorifexists` refuses only what an earlier attempt of the load left | |
| `RetriesAbsorbFaults` | no overwriting load fails | fewer transient errors than attempts, nothing refused, no acknowledgement lost; a remote root or one loader |
| `ErrorMeansUnpublishedAlone` | a load that reports a failure has published nothing | local root, one loader, no acknowledgement lost |
| `LoadsAdvance` | every step of a load takes it further in a finite order | |
| `PointInTimeCorrect` | a rebuild gives every earlier row the history features it had, and the inventory features once it had any | |
| `HistoryWithoutTargetCorrect` | the history features of a day do not depend on its own sales | |
| `LagIsCalendarDayCorrect` | a lag is the sale of that calendar day or null, and null only when a day is missing | |
| `EvidenceBehindClassCorrect` | `Highly_Variable` and class Z only after sales that differ (Z also after none at all) | |
| `ParetoClassesCorrect` | class A, and A with B, are the fewest products that earn their share | |
| `FlagsAreTrueCorrect` | holiday flags tell the truth once the calendar has their window | |
| `SchedulesSettle` | a calendar row whose next holiday is known stays | |
| `SalesKept` | the promotion join leaves one row of each sale, whichever rows of revised promotions a job keeps | |
| `MatchesMoveForward` | a match gives way only to a promotion that starts no earlier, and ends later unless revised | the promotion matched is not revised itself (part of the property) |
| `FlagsAreFinal` | `is_promotion` of a sale is the same in every job of every run | |
| `SuccessCoversSourcesCorrect` | a successful ingestion answer covers the sources as they were | |
| `JoinsFindTheirProductCorrect` | sales listed after such an answer find their products | |
| `DatasetsAgreeOnProductsCorrect` | the datasets of a run agree on which products there are | |
| `NothingDisappearsCorrect` | a later curated run holds what an earlier one held | |
| `CleaningIsDeterministicUnrevised` | the jobs of a run clean a product to the same row | no product row is revised |

**Increments.** `PublishedWhole` alone is not inductive: it says nothing of the
runs still staging. `IInv` adds that runs are owned by one pipeline each
(`RunsOwned`), where the run's directory is at each step (`SessionPhase`), that
the recorded identity is never ahead of the file (`MetadataPast`), and the
central part, `StreamFaithful`: *as long as* the file has the identity read
first, what is staged is the increment of that version up to the stream
position, and the key index and maximum watermark agree with it. When the file
changes this says nothing any more, and the second metadata call is what lets
`VerifySource` turn it into `VerifiedWhole`, which later rewrites cannot touch.
Without that call the proof fails at this step, as the run does.

**Raw layer.** The refinement maps a run to what it has published. What changes
this is the rename after the second metadata call, whether it is reported as
done or as failed;
`IInv` says that what it renames is `VerifiedWhole`, an increment of a version
that exists. Every other step is a stutter.

**Coverage.** With a watermark column a row that arrives late, with a date the
watermark may have passed, is never ingested. `LateKeys` are the keys of such
rows: some version has a row of theirs that is not newer than what an earlier
version held, which did not have the key. `NoLostRows` bounds the loss by them,
whatever the producer does, and so does `CoverInv`: every text in the checkpoint
store, under either name, records a covered version and a watermark taken from a
covered version (`TextsCovered`); the watermark of a running pipeline hides
covered or late rows only, and what it is about to record is covered
(`CoverLocal`). A key that is late stays late in later versions (`LateMonotone`).
The proof needs that a watermark is backed by *some* earlier
covered version, not by the last one, because an overlapping older run may take
the checkpoint back. That every key has a first occurrence
in the staged set (`FirstOfKey`) comes from well-founded induction over
positions.

**A single pipeline.** `TidyInv` adds to `StagingReclaimed` that a run is marked
as running until its directory is dealt with. The other three are statements
about the checkpoint that two processes at the shared temporary file break
(`torn`), so `Pipelines` is one element: `StoreInv` follows the temporary file
through open, write and rename and says that `ckpt` never names a file still
being written. `Behind` adds that what is recorded is never ahead of what the
running pipeline is going to record, which needs `CheckpointWhole` and
incremental runs (a full run ignores the recorded watermark). `Newer` compares
the two directions: what succeeded is not after the recorded watermark, what is
staged is after it.

**What liveness rests on.** `RunEnds`, `BecomesRecorded` and
`RetryAbsorbsFaults` each say that something ends, and with what. The prover does
not reach the first half, which needs fairness and `ENABLED`, but both things it
rests on are proved. *Nothing goes round*: `RunsAdvance` and `LoadsAdvance` order
the stages of a run and of a load, and every step, failures included, moves
forward in that order (within the chunk loop by the position, below the size of a
version; within the writes by dataset and attempt, both bounded by `TypeOK`).
*Nothing ends otherwise*: `LastVersionRecordedAlone` shows that a run which is on
the last version (`OnLast`) stays on it until the checkpoint has it. No chunk of a
clean version is rejected, which needs `StreamFaithful` for the key index: the
keys seen are those of rows further ahead (`CleanChunk`). `RetriesAbsorbFaults`
counts: an attempt is never more than one ahead of the errors met (`AbsorbInv`).
What is left to TLC is that a step is possible wherever a run stands.

**Where the disagreements end.** Each violation run has a theorem that draws its
line: `CheckpointReadableAlone` (`torn` needs a second pipeline),
`ErrorMeansUnpublishedAlone` (`curated_race` needs a second loader; the other way
to publish and fail is a rename that is reported as failed),
`CleaningIsDeterministicUnrevised` (`etl_versions` needs a revised row) and
`HistoryWithoutTargetCorrect` (`features_leakage` needs an inventory column).

**Curated layer.** `Progress` ties the position of a load to the datasets that
are whole, `Hidden` says that nothing of a local run is at its final location
before the rename. The refinement maps a run to what a reader finds at its final
location; every step but the rename (also the one reported as failed) is a
stutter. `StagingInv` and `AheadInv` say what a load leaves behind: nothing is
there of a dataset before its first attempt, because no other load writes under
the same run identifier.

**Whole ETL.** The answer of an ingestion run is about all tables, so the
invariant carries what the tables behind it cover (`IngestionInv`): recorded
content is published (`RawInv`), hence a skipped table is covered too, and a
failed one keeps the answer from being a success. The joins need the order of
the listings: the sales first, so that every later listing of the products has
what those sales need (`ExtractInv`, `WriteInv`); a listing only ever grows.

**Features.** One lemma carries `PointInTime` and `HistoryWithoutTarget`: a
history feature of a row is decided by the rows of earlier days and by which
products have a row on its own day (`PastDecides`). An increment of either table
adds later days only, so what was built stays valid, but for ratios of rows
whose inventory was not there (`StillValid`, `DeliverKeepsFeatures`,
`DeliverInventoryKeepsRatios`). The lag theorem counts: when no day between is
missing, the rows of the partition are the days, so the row `k` back is the day
`k` back (`DaysAreRows`).

The other three are about sums over sets of rows, and `IInv` adds to `StillValid`
that the sales are numbers (`SalesTable`) and that a day is built whole
(`WholeDays`). What a fold computes is proved without an induction theorem: a
sum is a running sum over an enumeration of its set (`SumIsRunning`), and
`EveryNumber` and `EverySubset` turn an induction into the choice of a least
counterexample in a well-founded set. From there come `RunningWithout` (a sum does
not depend on the enumeration), `SumOfPart` and `TotalGrows`. The classes: the
ranking by revenue, then product, is a strict order of the portfolio
(`RankFacts`), a product's class is decided by what the products ahead of it
earn, so A, and A with B, are prefixes of the ranking; the last product of a
prefix is in it because those ahead had not earned the share yet
(`RankingLeads`). The evidence: sales that do not differ have no deviation
(`EqualSalesHaveNoDeviation`), so the comparison that would give the last class
is never reached with them.

**Demand base.** `TypeOK` is the invariant: sales are unique by key, promotions
by identifier and end, and all have passed the rules of their table. A calendar
row settles because new dates and new holidays come after all there are, hence
behind the next holiday (`MarkedGrowsForward`). Every sale has a first match in
every cleaning because `Before` orders a finite set of promotions with unique
identifiers strictly (`FirstExists`). A promotion that was not revised is in
every cleaning (`UnrevisedIsKept`) and was not revised before either
(`UnrevisedBefore`), so it still competes for its sales, and what comes in front
of it now either is a row of a revised identifier or ends later than all there
were (`PromotionsGrowForward`, `MatchAfterStep`). `is_promotion` is final
although the match is not, since it equals a positive discount in every state
and cleaning (`DiscountFlags`): the quality rules tie label and discount, and a
blank label matches no promotion.

**Only model-checked**: that runs and loads do end (`RunEnds`,
`BecomesRecorded`, `RetryAbsorbsFaults`), as said above. **Not claimed**, because
false: `StagingReclaimed` of the raw sink under kills and removals that fail, and
the statements about one pipeline or one loader for several.

## 5. Not modelled

- **Configuration** (`config/`): settings are read and validated once and never
  change; what the validators guarantee appears as the assumptions on the
  constants. **Logging** (`config/logger.py`): no state depends on it.
- `_validate_layer_uris` and `_validate_resolved_roots`: a comparison of strings
  made once, before anything runs. Session creation and `close` of Spark.
- The **row rules** of `SchemaValidator`, `MissingValueHandler` and
  `DataQualityValidator` are pure predicates on a row. Only where a property
  depends on a rule is it modelled (`AcceptedSale`, `AcceptedPromotion`,
  `AcceptedStock`);
  elsewhere a grade says which check refuses a row, and when. Policies that drop
  or fill rows are not passed by `build_ingestion_pipeline`.
- The **row-wise features and formulas** (prices, margins, encodings, seasons)
  and the joins on a complete key (store, weather): each output row depends on
  one input row per table, so no order of events can make a difference that the
  product join of `RetailEtl` does not already show.
- Purchase order features: row-wise as well, except that a changed order keeps
  its date and is not ingested again. That is the watermark as designed and
  outside what `NoLostRows` promises.
- What **Spark** does inside a write, and whether writes reach the disk before
  the power fails: the code does not control the first and never asks for the
  second.
- **Several ETL processes at once** in `RetailEtl`: they share only the curated
  root, which is `CuratedLoad`'s subject. Rows and faults of a single table's
  ingestion are not repeated there either: `TableIngestion` shows that what a
  failed table leaves is what `RetailEtl` allows it to leave.

The modules were written in the order of the table in section 2. Nothing of the
plan is left that would add behaviour: what could follow are further row rules
and formulas, each as a predicate.
