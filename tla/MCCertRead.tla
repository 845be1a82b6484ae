----------------------------- MODULE MCCertRead -----------------------------
(* Small instances of CertRead: LOCA is standard, XMON is the file's own.    *)
EXTENDS CertRead

CONSTANTS LOCA, XMON, declare, key, r1, r2, reader

MCStandard == {DICT, LOCA}
MCCustom == {XMON}
MCOthers == {reader}
MCRows == {declare, key, r1, r2}
MCDeclares(r) == IF r = declare THEN {XMON} ELSE {}
MCKeyFor(r) == IF r = key THEN {XMON} ELSE {}

Plain == <<LOCA, r1>>
Undeclared == <<XMON, r1, r2>>
Redeclared == <<LOCA, r1, LOCA, r2>>
Keyless == <<DICT, declare, XMON, r1, r2>>
SplitDict == <<DICT, declare, DICT, key, XMON, r1>>
Keyed == <<DICT, declare, key, XMON, r1, LOCA, r2>>

\* Files replaced by files that their lengths tell apart, and certified.
Large == <<LOCA, r1, r1, r2, r1, r2, r2, r1>>
Replaced(some) ==
  [texts |-> some, kinds |-> {"replace", "mint"}, lines |-> {}, calls |-> 1,
   encodings |-> {TRUE}, others |-> {}]

\* A file that is edited in place.
Edited(t, with) ==
  [texts |-> {t}, kinds |-> {"truncate", "overwrite"}, lines |-> with, calls |-> 1,
   encodings |-> {TRUE}, others |-> {}]

\* The same, read twice: in either encoding, or by another thread too.
Again(w) == [w EXCEPT !.calls = 2, !.encodings = BOOLEAN]
Shared(w) == [w EXCEPT !.calls = 2, !.others = MCOthers]
Overwritten(t, with) == [Edited(t, with) EXCEPT !.kinds = {"overwrite"}]

Rewritten == [Overwritten(Keyed, Lines) EXCEPT !.texts = {SplitDict, Keyed}]
Certified == [Replaced({SplitDict, Keyed}) EXCEPT !.kinds = {"mint"}]

AllWorlds ==
  {Replaced({Plain, Redeclared, Keyless, Keyed}),
   Replaced({Undeclared, Keyless, SplitDict, Large}),
   Edited(<<DICT, declare, XMON, r1>>, {DICT, LOCA, r1}),
   Edited(<<LOCA, r1, r1>>, {LOCA, XMON, r2}),
   Again(Replaced({Plain, Undeclared})),
   Shared(Replaced({Plain, Undeclared})),
   Shared(Overwritten(Plain, {XMON}))}
RewrittenWorld == {Rewritten}
CertifiedWorld == {Certified}
=============================================================================
