--------------------------- MODULE TorrentClient ---------------------------
(***************************************************************************)
(* The part of the BitTorrent library (github.com/anacrolix/torrent) the   *)
(* engine relies on: a client that hands out torrent handles.  The library *)
(* is not in this repository; the module is written from how               *)
(* internal/engine calls it.                                               *)
(*                                                                         *)
(*   - adding a hash the client already has open returns the same handle   *)
(*     (awaitMetadata, FetchInfo and track all share it);                  *)
(*   - Drop closes a handle for good, and dropping twice is harmless       *)
(*     (Restart, Remove and awaitMetadata may all drop the same one);      *)
(*   - the metadata of a dropped handle never arrives, but metadata it     *)
(*     already had stays readable (Restart reads it, WaitInfo relies on    *)
(*     Closed() because GotInfo() never fires);                            *)
(*   - adding with the metainfo makes the metadata known at once.          *)
(***************************************************************************)
CONSTANTS
    Hashes,      \* info-hashes
    TorrentIds,  \* identities of the handles one session can create (a bound)
    Files,       \* file indices; every torrent has these files
    Nil          \* no value

VARIABLE torrent \* every handle of this session

(* A handle never created has no hash. "prio" is the set of files whose    *)
(* priority is not None: what the client requests from peers.              *)
NoTorrent == [hash |-> Nil, info |-> FALSE, open |-> FALSE, prio |-> {}]

TorrentType == [hash: Hashes \cup {Nil}, info: BOOLEAN,
                open: BOOLEAN, prio: SUBSET Files]

ClientInit == torrent = [t \in TorrentIds |-> NoTorrent]

OpenTorrents(h) == {t \in TorrentIds : torrent[t].hash = h /\ torrent[t].open}

UnusedTorrents == {t \in TorrentIds : torrent[t].hash = Nil}

(* The handle that adding h returns: the open one, or a new one.           *)
HandleFor(h) ==
    CHOOSE t \in TorrentIds :
        t \in IF OpenTorrents(h) # {} THEN OpenTorrents(h) ELSE UnusedTorrents

(* AddMagnet, AddTorrentInfoHash (known = FALSE) and AddTorrent (TRUE).    *)
ClientAdd(h, known) ==
    /\ OpenTorrents(h) \cup UnusedTorrents # {}
    /\ LET old == torrent[HandleFor(h)] IN
       torrent' = [torrent EXCEPT ![HandleFor(h)] =
                      [hash |-> h, open |-> TRUE, prio |-> old.prio,
                       info |-> old.info \/ known]]

(* Torrent.Drop: the handle is closed and requests nothing any more.       *)
ClientDrop(t) ==
    torrent' = [torrent EXCEPT ![t] = [@ EXCEPT !.open = FALSE, !.prio = {}]]

(* The priorities of t's files after SetPriority on each of them.          *)
Prioritised(t, files) ==
    [torrent EXCEPT ![t].prio = IF torrent[t].open THEN files ELSE {}]

(* A peer delivers the metadata; nothing says it ever will.                *)
MetadataArrives(t) ==
    /\ torrent[t].open
    /\ ~torrent[t].info
    /\ torrent' = [torrent EXCEPT ![t].info = TRUE]
=============================================================================
