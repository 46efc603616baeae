----------------------------- MODULE InfoHashes -----------------------------
(* The info-hashes the crawler's parts pass to each other.                 *)
CONSTANTS Hashes, Nil
ASSUME HashAssumption == Nil \notin Hashes
=============================================================================
