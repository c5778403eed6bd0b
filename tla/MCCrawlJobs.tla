---------------------------- MODULE MCCrawlJobs ----------------------------
(* Instances of CrawlJobs for TLC. *)
EXTENDS CrawlJobs, TLC

CONSTANTS j1, j2, c1, c2

\* Job ids and clients are interchangeable: no action orders them.
Symmetry == Permutations(Jobs) \cup Permutations(Clients)
=============================================================================
