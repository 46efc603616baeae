----------------------------- MODULE IndexStore -----------------------------
(***************************************************************************)
(* internal/store: the SQLite index, as the crawler uses it.  The store    *)
(* has one connection (SetMaxOpenConns(1)) and SaveMetadata is a           *)
(* transaction, so each call is one step, and a crash leaves a call done   *)
(* or not done.                                                            *)
(***************************************************************************)
EXTENDS InfoHashes, SequencesExt, Integers

VARIABLES
    row,     \* of each hash: no row ("none"), resolved = 0, or resolved = 1
    newer,   \* of each unresolved row: those whose seen_at was set after its own
    fts      \* how many rows of torrents_fts each hash has

storeVars == <<row, newer, fts>>

StoreInit ==
    /\ row = [h \in Hashes |-> "none"]
    /\ newer = [h \in Hashes |-> {}]
    /\ fts = [h \in Hashes |-> 0]

(* seen_at is set to now.  Rows of one second tie in the code; here they   *)
(* are ordered as the calls were.  Only the age of unresolved rows is      *)
(* kept: that of the others only breaks ties of a full-text search.        *)
Touch(h) ==
    newer' = IF row[h] = "resolved" THEN newer
             ELSE [g \in Hashes |->
                      IF g = h THEN {}
                      ELSE IF row[g] = "pending" THEN newer[g] \cup {h} ELSE newer[g]]

NoAge(h) == newer' = [g \in Hashes |-> IF g = h THEN {} ELSE newer[g] \ {h}]

(* Sanity variant: INSERT OR REPLACE, which resets "resolved".             *)
SeenInfoHash_Replaces(h) ==
    /\ row' = [row EXCEPT ![h] = "pending"]
    /\ Touch(h)
    /\ UNCHANGED fts

(* The upsert leaves an existing row's "resolved" alone.                   *)
SeenInfoHash(h) ==
    /\ row' = [row EXCEPT ![h] = IF @ = "none" THEN "pending" ELSE @]
    /\ Touch(h)
    /\ UNCHANGED fts

(* Sanity variant: the row of an earlier resolution stays in the index.    *)
SaveMetadata_NoDelete(h) ==
    /\ row' = [row EXCEPT ![h] = "resolved"]
    /\ NoAge(h)
    /\ fts' = [fts EXCEPT ![h] = @ + 1]

(* Upsert, DELETE from and INSERT into the full-text table, commit.        *)
SaveMetadata(h) ==
    /\ row' = [row EXCEPT ![h] = "resolved"]
    /\ NoAge(h)
    /\ fts' = [fts EXCEPT ![h] = 1]

Unresolved == {h \in Hashes : row[h] = "pending"}

(* WHERE resolved = 0 ORDER BY seen_at DESC LIMIT n: the n unresolved      *)
(* hashes seen last, latest first; all of them if they are fewer.  The set *)
(* has one element.                                                        *)
PendingMetadata(n) ==
    {list \in BoundedSeq(Unresolved, n) :
        /\ \A i, j \in DOMAIN list : i < j => list[i] \in newer[list[j]]
        /\ \A h \in Unresolved \ ToSet(list) :
              Len(list) = n /\ \A i \in DOMAIN list : list[i] \in newer[h]}

StoreType ==
    /\ row \in [Hashes -> {"none", "pending", "resolved"}]
    /\ newer \in [Hashes -> SUBSET Hashes]
    /\ fts \in [Hashes -> Nat]
=============================================================================
