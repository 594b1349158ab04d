-------------------------- MODULE MCTableIngestion --------------------------
(***************************************************************************)
(* Small instances of TableIngestion for TLC: rows with two keys and three *)
(* dates, and the contents a version of the source file may have.          *)
(***************************************************************************)
EXTENDS TableIngestionInv, TLC, Integers

MCRow == [key : {"k1", "k2", "k3"}, date : 1 .. 2,
          grade : {"good", "malformed", "implausible"}]

Sale(k, d) == [key |-> k, date |-> d, grade |-> "good"]
Bad(k, d, g) == [key |-> k, date |-> d, grade |-> g]
File(rows) == [header |-> TRUE, rows |-> rows]

\* One day, the same with a second day appended and a repeated row, the
\* second day alone, and nothing but the header.
Day1 == File(<<Sale("k1", 1)>>)
Days12 == File(<<Sale("k1", 1), Sale("k2", 2), Sale("k2", 2)>>)
OnlyDay2 == File(<<Sale("k2", 2), Sale("k3", 2)>>)
HeaderOnly == File(<< >>)

\* A row repeated inside a chunk, then a chunk that is older.  Its second day
\* is not newer than that of Days12, and comes too late after it.
Shuffled == File(<<Sale("k3", 2), Sale("k3", 2), Sale("k1", 1)>>)

\* A bad row behind a whole valid chunk, a row only the quality rules refuse
\* (old, so that a watermark hides it), and another header.
BadTail == File(<<Sale("k1", 1), Sale("k2", 2), Bad("k3", 2, "malformed")>>)
OddPast == File(<<Bad("k1", 1, "implausible"), Sale("k3", 2)>>)
\* Refused in its second chunk, unless a watermark hides the last row.
OddTail == File(<<Sale("k1", 1), Sale("k2", 2), Sale("k2", 2),
                  Bad("k3", 1, "implausible")>>)
WrongHeader == [header |-> FALSE, rows |-> << >>]

\* The contents each run lets a version have.
AllFeeds == {Day1, Days12, Shuffled, OnlyDay2, HeaderOnly, BadTail, OddPast,
             WrongHeader}
MixedFeeds == {Day1, OddTail}
GoodFeeds == {Day1, Days12, OnlyDay2}
SaleFeeds == {Days12, Shuffled, OddPast}

\* All runs but the last, for the runs about what an undisturbed run achieves.
FirstRuns == 1 .. MaxRuns - 1

\* Pipelines are interchangeable, for the runs that check invariants only.
PipelineSymmetry == Permutations(Pipelines)

=============================================================================
