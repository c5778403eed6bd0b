---------------------------- MODULE MCCrawlReads ----------------------------
(* An instance of CrawlReads for TLC. *)
EXTENDS CrawlReads, TLC

CONSTANTS j1, j2, i1, i2, i3

\* Jobs are interchangeable, and so are rows.
Symmetry == Permutations(Jobs) \cup Permutations(Rows)

\* Bound: the third row is of the same tables as the other two.
Alike == Cardinality(LiveRows) = 3 => \A m, n \in LiveRows : rows[m].tables = rows[n].tables
=============================================================================
