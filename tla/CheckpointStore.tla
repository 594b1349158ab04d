-------------------------- MODULE CheckpointStore --------------------------
(***************************************************************************)
(* JsonCheckpointStore (etl/ingestion/incremental_loader.py) for one       *)
(* table, at the level of directory entries and files.                     *)
(*                                                                         *)
(* save writes <table>.json.tmp and renames it over <table>.json.  The     *)
(* temporary name is the same for every writer, so two writers may hold    *)
(* the same file open, and a writer may rename a file that another one is  *)
(* still filling.  A file is named by the run that created it.             *)
(***************************************************************************)
EXTENDS IngestionBounds

NoFile == 0
Files == Runs

\* What a file holds: the source identity and the watermark of one
\* checkpoint, or bytes that JsonCheckpointStore.load cannot parse.
\* Watermark 0 is the JSON null.
Torn == [id |-> 0, wm |-> 0]
Content == [id : 0 .. MaxVersions, wm : 0 .. MaxDate]

VARIABLES
  disk,     \* file -> what it holds
  tmp,      \* the file named <table>.json.tmp
  ckpt,     \* the file named <table>.json
  fd        \* writer -> the file it has open for writing

storeVars == <<disk, tmp, ckpt, fd>>

StoreTypeOK ==
  /\ disk \in [Files -> Content]
  /\ tmp \in {NoFile} \union Files
  /\ ckpt \in {NoFile} \union Files
  /\ fd \in [Pipelines -> {NoFile} \union Files]

StoreInit ==
  /\ disk = [f \in Files |-> Torn]
  /\ tmp = NoFile
  /\ ckpt = NoFile
  /\ fd = [p \in Pipelines |-> NoFile]

\* load: no checkpoint, a checkpoint, or an IncrementalStateError.
NoCheckpoint == ckpt = NoFile
Unreadable == ckpt # NoFile /\ disk[ckpt] = Torn
Stored == disk[ckpt]
Readable == ckpt # NoFile /\ disk[ckpt] # Torn

\* Mutant: the checkpoint itself is opened for writing.
StoreOpenInPlace(p, fresh) ==
  LET file == IF ckpt = NoFile THEN fresh ELSE ckpt
  IN  /\ tmp' = file /\ ckpt' = file
      /\ disk' = [disk EXCEPT ![file] = Torn]
      /\ fd' = [fd EXCEPT ![p] = file]

\* write_bytes, first half: open for writing creates the temporary file, or
\* truncates the one that is there.
StoreOpen(p, fresh) ==
  LET file == IF tmp = NoFile THEN fresh ELSE tmp
  IN  /\ tmp' = file
      /\ disk' = [disk EXCEPT ![file] = Torn]
      /\ fd' = [fd EXCEPT ![p] = file]
      /\ UNCHANGED ckpt

\* write_bytes, second half: write the text from the start of the file and
\* close it.  Over the text of another writer the result is this writer's
\* text, or a mix when the other text was longer.
StoreFill(p, content) ==
  /\ \E bytes \in {content} \union (IF disk[fd[p]] = Torn THEN {} ELSE {Torn}) :
       disk' = [disk EXCEPT ![fd[p]] = bytes]
  /\ fd' = [fd EXCEPT ![p] = NoFile]
  /\ UNCHANGED <<tmp, ckpt>>

\* replace: rename whatever file now has the temporary name.
StoreReplace ==
  /\ tmp # NoFile
  /\ ckpt' = tmp
  /\ tmp' = NoFile
  /\ UNCHANGED <<disk, fd>>

\* An exception, or the end of the process, closes the file it had open.
StoreClose(p) ==
  /\ fd' = [fd EXCEPT ![p] = NoFile]
  /\ UNCHANGED <<disk, tmp, ckpt>>

=============================================================================
