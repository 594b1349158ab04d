---------------------------- MODULE MCCuratedLoad ----------------------------
(***************************************************************************)
(* Small instances of CuratedLoad for TLC.                                 *)
(***************************************************************************)
EXTENDS CuratedLoadInv, TLC

\* Loaders are interchangeable when they use the same write mode, for the runs
\* that check invariants and single steps only.
LoadSymmetry == Permutations(Loads \ ErrorIfExists)

=============================================================================
