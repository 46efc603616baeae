------------------------------ MODULE MCEngine ------------------------------
(* Engine on small sets, for TLC.                                          *)
EXTENDS Engine, TLC

(* Files, hashes and adders are interchangeable; TLC may not permute the   *)
(* identities that CHOOSE picks from.                                      *)
Symmetry == Permutations(Adders) \cup Permutations(Files) \cup Permutations(Hashes)

(* A Download is over when awaitMetadata has ended and nothing refers to   *)
(* it; what it and its closed torrent still hold decides nothing.          *)
Over(d) ==
    /\ dl[d].stage = "done"
    /\ \A h \in Hashes : downloads[h] # d /\ snap[h] # d
    /\ \A p \in Procs : job[p].d # d

Visible ==
    LET over == {d \in DownloadIds : Over(d)}
        used == {dl[d].t : d \in DownloadIds \ over} \cup {job[p].t : p \in Procs}
    IN <<session, todo, downloads, opVars, persistVars,
         [d \in DownloadIds |-> IF d \in over THEN "over" ELSE dl[d]],
         [t \in TorrentIds |-> IF torrent[t].hash # Nil /\ ~torrent[t].open /\ t \notin used
                               THEN "over" ELSE torrent[t]]>>
=============================================================================
