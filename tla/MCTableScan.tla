----------------------------- MODULE MCTableScan -----------------------------
(* Small instances of TableScan.  PROJ, LOCA and SAMP are standard groups;   *)
(* XMON, XTXT and XUND are a file's own.                                     *)
EXTENDS TableScan

Heading(name, status, type, unit) ==
  [name |-> name, status |-> status, type |-> type, unit |-> unit, description |-> ""]
Group(code, parent, headings) == [code |-> code, parent |-> parent, headings |-> headings]

\* LOCA shares no KEY heading with its parent, SAMP does.
MCRegistry ==
  <<Group("PROJ", "", <<Heading("proj", "KEY", "text", "")>>),
    Group("LOCA", "PROJ", <<Heading("loca", "KEY", "text", ""), Heading("level", "OTHER", "decimal", "m")>>),
    Group("SAMP", "LOCA", <<Heading("loca", "KEY", "text", ""), Heading("top", "KEY+REQUIRED", "decimal", "m")>>)>>
MCBundled == [e \in {"4.2"} |-> SubSeq(MCRegistry, 1, 2)]
MCRules ==
  <<[texts |-> <<"1", "t", "c", "">>, fixable |-> <<TRUE>>, observations |-> <<"O-1", "", "O-2">>],
    [texts |-> <<"2", "t", "", "e">>, fixable |-> <<>>, observations |-> <<>>]>>
MCCanonical(arg) ==
  CASE arg = " loca" -> "LOCA"
    [] arg = "  "    -> ""
    [] arg = " 4.2 " -> "4.2"
    [] OTHER         -> arg

Section(headings, units, types, rows) ==
  [headings |-> headings, units |-> units, types |-> types, rows |-> rows]
NoDeclarations == [g \in {} |-> {}]

\* One group of n rows, one heading.
Plain(n) ==
  [order |-> <<"LOCA">>, dict |-> NoDeclarations,
   groups |-> [g \in {"LOCA"} |->
     Section(<<"loca">>, <<>>, <<"text">>, [r \in 1..n |-> <<"string">>])]]

\* One heading of each type, the temporal one under each kind of UNIT, and a
\* row of each kind of value.
Types == <<"decimal", "integer", "bool", "text", "datetime", "datetime">>
Mixed ==
  [order |-> <<"LOCA">>, dict |-> NoDeclarations,
   groups |-> [g \in {"LOCA"} |->
     Section(<<"level", "n", "b", "loca", "at", "on">>, <<"m", "", "", "", "hh:mm", "yyyy-mm">>, Types,
             [r \in 1..6 |-> [i \in 1..6 |-> SetToSeq(Json)[r]]])]]

\* Groups the file declares, with KEY headings and a parent, without, and not
\* at all; standard ones it declares otherwise; short UNIT, TYPE and DATA rows.
Declaring ==
  [order |-> <<"PROJ", "XMON", "XTXT", "XUND", "LOCA", "SAMP">>,
   groups |-> [g \in {"PROJ", "XMON", "XTXT", "XUND", "LOCA", "SAMP"} |->
     CASE g = "XMON" -> Section(<<"loca", "depth", "note">>, <<"", "m">>, <<"text", "decimal">>,
                                <<<<"string", "int">>, <<"string", "bool", "string">>>>)
       [] g = "LOCA" -> Section(<<"loca", "extra", "level">>, <<>>, <<>>, <<<<"string">>>>)
       [] g = "SAMP" -> Section(<<"top", "loca">>, <<"m">>, <<"decimal", "text">>, <<<<"float", "string">>>>)
       [] OTHER      -> Section(<<"note">>, <<>>, <<"text">>, <<<<"string">>>>)],
   dict |-> [g \in {"PROJ", "XMON", "XTXT", "LOCA"} |->
     CASE g = "PROJ" -> [parent |-> "XTXT", status |-> [h \in {"note"} |-> "KEY"]]
       [] g = "XMON" -> [parent |-> "LOCA", status |-> [h \in {"loca", "depth"} |->
                           IF h = "loca" THEN "KEY" ELSE "OTHER"]]
       [] g = "XTXT" -> [parent |-> "-", status |-> [h \in {"note"} |-> "OTHER"]]
       [] g = "LOCA" -> [parent |-> "", status |-> [h \in {"loca", "extra"} |->
                           IF h = "extra" THEN "REQUIRED" ELSE "OTHER"]]]]

Read(g) == [fn |-> "read_ags", arg |-> g]
Whole(fn) == [fn |-> fn, arg |-> ""]
Reads == {Read(g) : g \in {" loca", "PROJ", "SAMP", "XMON", "XTXT", "XUND", "NONE"}}
           \cup {[fn |-> "read_ags_text", arg |-> "LOCA"]}
Others == {Whole(fn) : fn \in {"ags_groups", "ags_headings", "ags_relationships", "ags_rules"}}
            \cup {[fn |-> "ags_dictionary", arg |-> e] : e \in {"  ", " 4.2 ", "9.9"}}

MCStatements == {"q1", "q2"}
Session(f, c1, c2, n) ==
  [file |-> f, call |-> [q \in MCStatements |-> IF q = "q1" THEN c1 ELSE c2], scans |-> n]

\* Scans of one table and of two, and every pair of functions over each file.
MCSessions ==
  {Session(Plain(n), Read("LOCA"), c, 3) : n \in 0..5, c \in {Read("NONE"), Read("LOCA")}}
    \cup {Session(Mixed, Read("LOCA"), c, 1) : c \in Others}
    \cup {Session(Declaring, c, d, 1) : c \in Reads, d \in Others}
    \cup {Session(Declaring, Whole("ags_groups"), Whole("ags_headings"), 1)}
    \cup {Session(Declaring, c, d, 1) : c \in {[fn |-> "ags_dictionary", arg |-> "  "]}, d \in Others}
=============================================================================
