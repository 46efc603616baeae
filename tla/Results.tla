------------------------------ MODULE Results ------------------------------
(***************************************************************************)
(* internal/search, the pure part: what each adapter makes of an item its  *)
(* server sent, the filter by query, and the merge of what several         *)
(* indexers found.                                                         *)
(*                                                                         *)
(* An info-hash is the torrent it names and the case it is spelled in.  A  *)
(* magnet is the torrent it starts and the torrent, if any, that the first *)
(* 40 hex digits in the link spell the hash of: the same one where the     *)
(* hash is in hex, none where it is in base32, and any other where digits  *)
(* come before it, in a name, a tracker's passkey or a v2 hash.  A title   *)
(* is the set of its words.  Leechers and dates travel with the size and   *)
(* are left out.                                                           *)
(***************************************************************************)
EXTENDS Integers, SequencesExt

CONSTANTS
    Torrents,   \* what an info-hash names
    Vocabulary, \* the words titles are made of
    Malformed,  \* torrents whose hash is not spelled with 40 digits
    Nil         \* an empty field

InfoHash == [torrent : Torrents, upper : BOOLEAN]
Magnet   == [torrent : Torrents, digits : Torrents \cup {Nil}]

(***************************************************************************)
(* The adapters.  An item is [title, hash, links, size, seeders]; "links"  *)
(* are the places a magnet may be in, in the order they are looked at,     *)
(* with Nil for one that holds none.  Of a nyaa link only the digits count.*)
(***************************************************************************)
Kinds == {"piratebay", "nyaa", "torrents-csv", "jackett", "dht-index"}

Item ==
    [title : SUBSET Vocabulary, hash : InfoHash \cup {Nil},
     links : Seq(Magnet \cup {Nil}), size : Int, seeders : Int]

Result ==
    [title : SUBSET Vocabulary, hash : InfoHash \cup {Nil}, magnet : Magnet \cup {Nil},
     size : Int, seeders : Int, sources : SUBSET Kinds]

(* Assumed of the constants: an empty field is told from a full one.       *)
ResultsAssumption ==
    /\ Nil \notin InfoHash /\ Nil \notin Magnet /\ Nil \notin Seq(Result)

Lower(hash) == IF hash = Nil THEN Nil ELSE [hash EXCEPT !.upper = FALSE]

(* Nobody looks for digits in a link that was made here.                   *)
MagnetFromInfoHash(hash) == [torrent |-> hash.torrent, digits |-> hash.torrent]

(* infoHashFromLink: the first 40 hex digits in a row, lower-cased, which  *)
(* need not be the hash of what the link starts.                           *)
InfoHashFromLink(link) ==
    IF link = Nil \/ link.digits = Nil THEN Nil
    ELSE [torrent |-> link.digits, upper |-> FALSE]

FirstLink(item) ==
    LET links == {k \in DOMAIN item.links : item.links[k] # Nil}
    IN IF links = {} THEN Nil ELSE item.links[Min(links)]

Found(item, kind, hash, magnet) ==
    [title |-> item.title, hash |-> hash, magnet |-> magnet, size |-> item.size,
     seeders |-> item.seeders, sources |-> {kind}]

(* A result from an item that must have a hash.                            *)
FoundByHash(item, kind, hash) ==
    Found(item, kind, hash, IF hash = Nil THEN Nil ELSE MagnetFromInfoHash(hash))

JackettResult(item) ==
    LET link == FirstLink(item)
        hash == IF item.hash # Nil THEN Lower(item.hash) ELSE InfoHashFromLink(link)
    IN IF link = Nil /\ hash # Nil /\ hash.torrent \notin Malformed
       THEN FoundByHash(item, "jackett", hash)
       ELSE Found(item, "jackett", hash, link)

NyaaResult(item) ==
    FoundByHash(item, "nyaa",
        IF item.hash # Nil THEN Lower(item.hash) ELSE InfoHashFromLink(FirstLink(item)))

TorrentsCSVResult(item) ==
    FoundByHash(item, "torrents-csv",
        IF item.hash = Nil \/ item.hash.torrent \in Malformed THEN Nil ELSE Lower(item.hash))

(* apibay spells hashes in upper case; the local index has no seeders.     *)
PirateBayResult(item) == FoundByHash(item, "piratebay", item.hash)
StoreResult(item) == [FoundByHash(item, "dht-index", item.hash) EXCEPT !.seeders = 0]

ResultOf(kind, item) ==
    CASE kind = "piratebay"    -> PirateBayResult(item)
      [] kind = "nyaa"         -> NyaaResult(item)
      [] kind = "torrents-csv" -> TorrentsCSVResult(item)
      [] kind = "jackett"      -> JackettResult(item)
      [] kind = "dht-index"    -> StoreResult(item)

(* What the adapters keep: the engine can start from a magnet or a hash.   *)
Usable(r) == r.magnet # Nil \/ r.hash # Nil

Keep(out, r, good) == IF r \in good THEN Append(out, r) ELSE out

(* The loops that collect: the elements of "in" that are in "good".        *)
Kept(in, good) ==
    LET all == Len(in)
        out[n \in 0 .. all] == IF n = 0 THEN <<>> ELSE Keep(out[n - 1], in[n], good)
    IN out[all]

ResultsOf(kind, items) ==
    LET found == [k \in DOMAIN items |-> ResultOf(kind, items[k])]
    IN Kept(found, {r \in ToSet(found) : Usable(r)})

-----------------------------------------------------------------------------
(* Every word of the query is in the title.                                *)
FilterByQuery(in, query) == Kept(in, {r \in ToSet(in) : query \subseteq r.title})

(* Sanity variant: the spelling of the hash tells torrents apart.          *)
Key_Spelled(r) == <<r.hash, IF r.hash = Nil THEN r.title ELSE {}>>

(* The lower-cased hash, or the title when there is none.                  *)
Key(r) == <<Lower(r.hash), IF r.hash = Nil THEN r.title ELSE {}>>

Or(field, other, empty) == IF field = empty THEN other ELSE field

(* mergeResult, mergeSources: "a" is the base, "b" fills what it lacks.    *)
MergeResult(a, b) ==
    [a EXCEPT !.magnet = Or(@, b.magnet, Nil), !.hash = Or(@, b.hash, Nil),
              !.size = Or(@, b.size, 0), !.sources = @ \cup b.sources]

(* The loop of DedupAndRank: r joins the entry of its key, the one with    *)
(* more seeders being the base, or opens an entry.                         *)
Insert(out, r) ==
    LET same == {i \in DOMAIN out : Key(out[i]) = Key(r)}
    IN IF same = {} THEN Append(out, r)
       ELSE [out EXCEPT ![CHOOSE i \in same : TRUE] =
                IF r.seeders > @.seeders THEN MergeResult(r, @) ELSE MergeResult(@, r)]

Dedup(in) ==
    LET all == Len(in)
        out[n \in 0 .. all] == IF n = 0 THEN <<>> ELSE Insert(out[n - 1], in[n])
    IN out[all]

Ranked(out) == \A i, j \in DOMAIN out : i < j => out[i].seeders >= out[j].seeders

(* DedupAndRank.  sort.Slice is not stable: any order by seeders will do.  *)
DedupAndRank(in) ==
    LET out == Dedup(in) IN {p \in SetToSeqs(ToSet(out)) : Ranked(p)}

-----------------------------------------------------------------------------
(***************************************************************************)
(* What the user is promised of the rows "out" shown for the results "in"  *)
(* (a set): best first, one row for each torrent, and on that row the most *)
(* seeders anyone saw, everyone who saw it, and a magnet and a size if     *)
(* anyone had them.                                                        *)
(***************************************************************************)
SameTorrent(r, s) ==
    IF r.hash # Nil /\ s.hash # Nil THEN r.hash.torrent = s.hash.torrent
    ELSE r.hash = s.hash /\ r.title = s.title

RowFaithful(in, row) ==
    LET same == {r \in in : SameTorrent(r, row)} IN
    /\ \E r \in same : r.seeders = row.seeders
    /\ \A r \in same : r.seeders <= row.seeders
    /\ row.sources = UNION {r.sources : r \in same}
    /\ row.magnet \in {r.magnet : r \in same}
    /\ row.magnet = Nil => \A r \in same : r.magnet = Nil
    /\ row.size = 0 => \A r \in same : r.size = 0

Faithful(in, out) ==
    /\ Ranked(out)
    /\ \A r \in in : Cardinality({i \in DOMAIN out : SameTorrent(r, out[i])}) = 1
    /\ \A i \in DOMAIN out : RowFaithful(in, out[i])
=============================================================================
