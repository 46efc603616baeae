------------------------------ MODULE MCP2pget ------------------------------
(* P2pget on small sets, for TLC.                                          *)
EXTENDS P2pget

(***************************************************************************)
(* What the servers may send: one torrent (t1) in both spellings of its    *)
(* hash and with different seeders, titles with one or both words asked    *)
(* for, a torrent (t3) known only by a base32 magnet, one whose hash is    *)
(* malformed (t4) but which has a magnet, and one (t3) in whose link the   *)
(* first 40 hex digits are another's (t2), and an item with nothing to     *)
(* start from.                                                             *)
(***************************************************************************)
Item(title, hash, links, size, seeders) ==
    [title |-> title, hash |-> hash, links |-> links, size |-> size, seeders |-> seeders]

Hash(torrent, upper) == [torrent |-> torrent, upper |-> upper]

Link(torrent, digits) == [torrent |-> torrent, digits |-> digits]

Answers ==
    [i \in Indexers |->
        IF i = "piratebay"
        THEN {<<Item({"w1"}, Hash("t2", TRUE), <<>>, 0, 3),
                Item({"w1", "w2"}, Hash("t1", TRUE), <<>>, 5, 2)>>}
        ELSE {<<Item({"w1", "w2"}, Hash("t1", FALSE), <<Nil>>, 0, 3),
                Item({"w1"}, Nil, <<Nil, Nil>>, 1, 1),
                Item({"w1"}, Nil, <<Link("t3", Nil)>>, 4, 0)>>,
              <<Item({"w1"}, Nil, <<Link("t3", "t2"), Nil>>, 1, 1),
                Item({"w1"}, Hash("t4", FALSE), <<Nil, Link("t4", "t4")>>, 1, 1)>>}]

AskedFor == {{"w1"}, {"w1", "w2"}}
Asked1   == {"w1"}
AnyPage  == {0, 1, 2, 3, 31}
AnySize  == {0, 1, 2, 20, 31}
=============================================================================
