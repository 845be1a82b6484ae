---------------------------- MODULE MCReadParsed ----------------------------
(* Small instances of ReadParsed: two threads, texts of up to three blocks   *)
(* of two kinds.                                                             *)
EXTENDS ReadParsed

CONSTANTS w1, w2, a, b

MCWorkers == {w1, w2}
MCBlocks == {a, b}

\* Whole files that their lengths tell apart: an empty one, one that does not
\* parse, and one over the limit among them.
DistinctLengths == {<<>>, <<a>>, <<b, a>>, <<b, b, b>>}
MCMalformed == {<<b, a>>}

Replaced == [texts |-> DistinctLengths, kinds |-> {"replace"}, calls |-> 3]
\* A file an edit starts from.
Edited == [texts |-> {<<a>>}, kinds |-> {"replace", "append", "truncate", "overwrite"},
           calls |-> 2]
Resized == [texts |-> {<<a>>}, kinds |-> {"append", "truncate"}, calls |-> 2]

AllWorlds == {Replaced, Edited}
ResizedWorld == {Resized}

MCCaps == {0, 3}
=============================================================================
