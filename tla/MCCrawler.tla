----------------------------- MODULE MCCrawler -----------------------------
(* Crawler on small sets, for TLC.                                         *)
EXTENDS Crawler

Symmetry == Permutations(Hashes) \cup Permutations(Workers) \cup Permutations(Receivers)
=============================================================================
