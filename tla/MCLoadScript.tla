---------------------------- MODULE MCLoadScript ----------------------------
(* Small instances of LoadScript: PROJ is the root, LOCA its child, XMON a   *)
(* group of the file's own under PROJ.                                       *)
EXTENDS LoadScript, TLC

CONSTANTS s1, s2, PROJ, LOCA, XMON

MCSessions == {s1, s2}
MCRegistry == (PROJ :> NoParent) @@ (LOCA :> PROJ)

Standard == [order |-> <<PROJ, LOCA>>, declared |-> {},
             pgrp |-> (PROJ :> NoParent) @@ (LOCA :> NoParent)]
Bespoke == [order |-> <<PROJ, XMON>>, declared |-> {XMON},
            pgrp |-> (PROJ :> NoParent) @@ (XMON :> PROJ)]
\* A file that does not declare the group it uses.
Undeclared == [order |-> <<PROJ, XMON>>, declared |-> {},
               pgrp |-> (PROJ :> NoParent) @@ (XMON :> NoParent)]

MCFiles == {Standard, Bespoke, Undeclared}

Symmetry == Permutations(MCSessions)
=============================================================================
