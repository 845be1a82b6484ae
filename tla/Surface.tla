------------------------------- MODULE Surface -------------------------------
(***************************************************************************)
(* What each table function answers: the producers of read_ags and         *)
(* read_ags_text (src/src/read_ags.rs), ags_groups and ags_headings        *)
(* (src/src/meta.rs), ags_dictionary, ags_relationships and ags_rules      *)
(* (src/src/dict_fns.rs), over one parsed file, the bundled dictionaries   *)
(* and the rule catalogue.  A cell is the store it is written through and  *)
(* its value; an Option<String> that is None is "".                        *)
(***************************************************************************)
EXTENDS Integers, SequencesExt

CONSTANTS
  Registry,      \* the union registry: sequence of [code, parent, headings],
                 \* a heading being [name, status, type, unit, description]
  Bundled,       \* edition -> the same, of that edition alone, in code order
  Rules,         \* the rule catalogue, in order
  NulNames,      \* heading names that hold a NUL
  Canonical(_)   \* an argument trimmed, and a group's in upper case

IsSeq(s) == s \in Seq(ToSet(s))

\* A dictionary is a list of groups and a group a list of headings.
ASSUME DictionariesAssumption ==
  \A entries \in {Registry} \cup {Bundled[edition] : edition \in DOMAIN Bundled} :
    IsSeq(entries) /\ \A e \in ToSet(entries) : IsSeq(e.headings)

\* The registry has a group once, and a heading once in a group; none is unnamed.
ASSUME RegistryAssumption ==
  /\ \A i, j \in DOMAIN Registry : Registry[i].code = Registry[j].code => i = j
  /\ \A e \in ToSet(Registry) :
       e.code # "" /\ \A h, k \in ToSet(e.headings) : h.name = k.name => h = k

ASSUME RulesAssumption == IsSeq(Rules)

\* The names the functions give their own columns.
FixedNames ==
  {"_id", "_parent_id", "_content_hash", "group", "n_rows", "n_headings", "parent", "heading", "unit",
   "ags_type", "sql_type", "status", "is_key", "ordinal", "description", "child", "shared_keys",
   "rule", "title", "checks", "severity", "fixable", "observations"}

ASSUME FixedNamesAssumption == FixedNames \cap NulNames = {}

\* The elements of s that are in T, in order.
Keep(s, T) == FlattenSeq([i \in DOMAIN s |-> IF s[i] \in T THEN <<s[i]>> ELSE <<>>])

Null == <<"Null", "">>
Str(s) == <<"Varchar", s>>
Num(n) == <<"BigInt", n>>
Flag(b) == <<"Boolean", b>>
Opt(s) == IF s = "" THEN Null ELSE Str(s)

Refused == [refused |-> TRUE]
Answer(columns, rows) == [columns |-> columns, rows |-> rows]
Columns(names, types) == [i \in DOMAIN names |-> <<names[i], types[i]>>]

-----------------------------------------------------------------------------
(* The dictionaries: the registry, and what the file's own DICT declares *)

Entries(code) == {e \in ToSet(Registry) : e.code = code}
InRegistry(code) == Entries(code) # {}
Entry(code) == CHOOSE e \in Entries(code) : TRUE

IsKey(status) == status \in {"KEY", "KEY+REQUIRED"}

\* A file is [order, groups, dict]; dict is the FileDict: the groups it
\* declares, each with its parent and the status of its headings.
NoParent == {"", "-"}
FileParent(f, code) ==
  IF code \in DOMAIN f.dict /\ f.dict[code].parent \notin NoParent THEN f.dict[code].parent ELSE ""

DeclaredStatus(f, code, heading) ==
  IF code \in DOMAIN f.dict /\ heading \in DOMAIN f.dict[code].status
  THEN {f.dict[code].status[heading]} ELSE {}

RegistryStatus(code, heading) ==
  {h.status : h \in {h \in UNION {ToSet(e.headings) : e \in Entries(code)} : h.name = heading}}

RegistryKeys(code) ==
  {h.name : h \in {h \in UNION {ToSet(e.headings) : e \in Entries(code)} : IsKey(h.status)}}

DeclaredKeys(f, code) ==
  IF code \notin DOMAIN f.dict THEN {}
  ELSE {h \in DOMAIN f.dict[code].status : IsKey(f.dict[code].status[h])}

SharedKeys(e) ==
  Keep([i \in DOMAIN e.headings |-> e.headings[i].name], RegistryKeys(e.code) \cap RegistryKeys(e.parent))

-----------------------------------------------------------------------------
(* typing.rs *)

\* What parse_value may make of a cell: a JSON value of one of these kinds; a
\* bare time of day is one that it makes null of.
Json == {"null", "time", "int", "float", "bool", "string"}

\* The emit kind of a canonical AGS type, which is also its column's type.
Emit(type) ==
  CASE type = "decimal" -> "Double"
    [] type = "integer" -> "BigInt"
    [] type = "bool"    -> "Boolean"
    [] OTHER            -> "Varchar"

\* The kinds of JSON value a column's accessor (as_f64, ...) returns something for.
Accepts(kind) ==
  CASE kind = "Double"  -> {"int", "float"}
    [] kind = "BigInt"  -> {"int"}
    [] kind = "Boolean" -> {"bool"}
    [] kind = "Varchar" -> {"string"}

\* What sql_type_for_unit names a type.
SqlType(type, unit) ==
  IF type = "datetime" THEN IF unit = "hh:mm" THEN "Time" ELSE "Timestamp" ELSE Emit(type)

\* Mutant: the cell follows the value and not the column.
CellByValue(json, type, unit, kind) ==
  CASE json \in {"null", "time"} -> Null
    [] json = "int"    -> <<"BigInt", json>>
    [] json = "float"  -> <<"Double", json>>
    [] json = "bool"   -> <<"Boolean", json>>
    [] json = "string" -> <<"Varchar", json>>

\* The store a cell is written through.  A temporal cell is a canonical string:
\* of a time where the UNIT is a time of day, of a date and time elsewhere.
CellFor(json, type, unit, kind) ==
  IF type = "datetime"
  THEN IF json = (IF unit = "hh:mm" THEN "time" ELSE "string") THEN Str(json) ELSE Null
  ELSE IF json \in Accepts(kind) THEN <<kind, json>> ELSE Null

-----------------------------------------------------------------------------
(* read_ags, read_ags_text *)

\* A heading past the end of the TYPE row is free text, and has no UNIT.
TypeOf(g, i) == IF i \in DOMAIN g.types THEN g.types[i] ELSE "text"
UnitOf(g, i) == IF i \in DOMAIN g.units THEN g.units[i] ELSE ""

\* A short row lends empty cells for its missing tail.
CellOf(g, r, i) == IF i \in DOMAIN g.rows[r] THEN g.rows[r][i] ELSE "null"

\* The keychain: a row's id, and its parent's where the parent has KEY headings
\* that the row's group shares.  No KEY headings declared: NULL ids.
ParentKeys(f, parent) ==
  IF parent = "" THEN {} ELSE IF InRegistry(parent) THEN RegistryKeys(parent) ELSE DeclaredKeys(f, parent)
Linked(keys, parentKeys) == IF keys \cap parentKeys # {} THEN Str("parent") ELSE Null
Ids(f, code) ==
  IF InRegistry(code)
  THEN <<Str("id"), Linked(RegistryKeys(code), RegistryKeys(Entry(code).parent))>>
  ELSE LET keys == DeclaredKeys(f, code)
       IN IF keys = {} THEN <<Null, Null>>
          ELSE <<Str("id"), Linked(keys, ParentKeys(f, FileParent(f, code)))>>

BuildTable(f, code) ==
  LET g == f.groups[code]
      column(i) == <<g.headings[i], Emit(TypeOf(g, i))>>
      cell(r, i) == CellFor(CellOf(g, r, i), TypeOf(g, i), UnitOf(g, i), Emit(TypeOf(g, i)))
  IN Answer(
       Columns(<<"_id", "_parent_id">>, <<"Varchar", "Varchar">>)
         \o [i \in DOMAIN g.headings |-> column(i)]
         \o Columns(<<"_content_hash">>, <<"Varchar">>),
       [r \in DOMAIN g.rows |->
          Ids(f, code) \o [i \in DOMAIN g.headings |-> cell(r, i)] \o <<Str("hash")>>])

\* resolve_group, binding_for: a group must be in the file, and declared by the
\* registry or by the file.
ReadGroup(f, code) ==
  IF code \in DOMAIN f.groups /\ (InRegistry(code) \/ code \in DOMAIN f.dict)
  THEN BuildTable(f, code)
  ELSE Refused

-----------------------------------------------------------------------------
(* ags_groups, ags_headings *)

\* Mutant: only the registry is asked.
RegistryParent(f, code) == IF InRegistry(code) THEN Entry(code).parent ELSE ""

\* The registry's parent, or else the file's, also for a group that the
\* registry knows without a parent.
ParentOf(f, code) ==
  IF InRegistry(code) /\ Entry(code).parent # "" THEN Entry(code).parent ELSE FileParent(f, code)

AgsGroups(f) ==
  Answer(
    Columns(<<"group", "n_rows", "n_headings", "parent">>, <<"Varchar", "BigInt", "BigInt", "Varchar">>),
    [n \in DOMAIN f.order |->
       LET g == f.groups[f.order[n]]
       IN <<Str(f.order[n]), Num(Len(g.rows)), Num(Len(g.headings)), Opt(ParentOf(f, f.order[n]))>>])

\* Mutant: the file's declaration comes before the registry.
DeclaredFirst(f, code, heading) ==
  LET registry == RegistryStatus(code, heading)
      file == DeclaredStatus(f, code, heading)
  IN CHOOSE s \in IF file # {} THEN file ELSE IF registry # {} THEN registry ELSE {"OTHER"} : TRUE

\* The registry's status, else the declared one, else OTHER.
StatusOf(f, code, heading) ==
  LET registry == RegistryStatus(code, heading)
      file == DeclaredStatus(f, code, heading)
  IN CHOOSE s \in IF registry # {} THEN registry ELSE IF file # {} THEN file ELSE {"OTHER"} : TRUE

\* Mutant: ordinals count the id columns.
HeadingFromOne(f, code, i) ==
  LET g == f.groups[code]
      status == StatusOf(f, code, g.headings[i])
  IN <<Str(code), Str(g.headings[i]), Opt(UnitOf(g, i)), Str(TypeOf(g, i)),
       Str(SqlType(TypeOf(g, i), UnitOf(g, i))), Str(status), Flag(IsKey(status)), Num(i)>>

\* One heading of a group.  Past the end of the TYPE row its ags_type is "".
HeadingRow(f, code, i) ==
  LET g == f.groups[code]
      type == IF i \in DOMAIN g.types THEN g.types[i] ELSE ""
      status == StatusOf(f, code, g.headings[i])
  IN <<Str(code), Str(g.headings[i]), Opt(UnitOf(g, i)), Str(type), Str(SqlType(type, UnitOf(g, i))),
       Str(status), Flag(IsKey(status)), Num(i - 1)>>

AgsHeadings(f) ==
  Answer(
    Columns(<<"group", "heading", "unit", "ags_type", "sql_type", "status", "is_key", "ordinal">>,
            <<"Varchar", "Varchar", "Varchar", "Varchar", "Varchar", "Varchar", "Boolean", "BigInt">>),
    FlattenSeq([n \in DOMAIN f.order |->
      [i \in DOMAIN f.groups[f.order[n]].headings |-> HeadingRow(f, f.order[n], i)]]))

-----------------------------------------------------------------------------
(* ags_dictionary, ags_relationships, ags_rules *)

DictionaryRow(e, i) ==
  LET h == e.headings[i]
  IN <<Str(e.code), Opt(e.parent), Str(h.name), Str(h.status), Str(h.type),
       Str(SqlType(h.type, "")), Opt(h.unit), Opt(h.description), Num(i - 1)>>

Dictionary(entries) ==
  Answer(
    Columns(<<"group", "parent", "heading", "status", "ags_type", "sql_type", "unit", "description",
              "ordinal">>,
            <<"Varchar", "Varchar", "Varchar", "Varchar", "Varchar", "Varchar", "Varchar", "Varchar",
              "BigInt">>),
    FlattenSeq([n \in DOMAIN entries |->
      [i \in DOMAIN entries[n].headings |-> DictionaryRow(entries[n], i)]]))

\* parse_edition: the bundled editions and no other.
ParseEdition(edition) == edition \in DOMAIN Bundled

\* No edition, or a blank one: the union registry.
AgsDictionary(edition) ==
  IF edition = "" THEN Dictionary(Registry)
  ELSE IF ParseEdition(edition) THEN Dictionary(Bundled[edition]) ELSE Refused

AgsRelationships ==
  LET children == Keep(Registry, {e \in ToSet(Registry) : e.parent # ""})
  IN Answer(Columns(<<"child", "parent", "shared_keys">>, <<"Varchar", "Varchar", "Varchar">>),
            [n \in DOMAIN children |->
               <<Str(children[n].code), Str(children[n].parent), Str(SharedKeys(children[n]))>>])

\* A rule is [texts, fixable, observations]: its four texts, a Boolean or no
\* more than one, and the ids of its observations, "" for an entry without one.
RuleRow(r) ==
  LET ids == Keep(r.observations, ToSet(r.observations) \ {""})
  IN <<Opt(r.texts[1]), Opt(r.texts[2]), Opt(r.texts[3]), Opt(r.texts[4]),
       IF r.fixable = <<>> THEN Null ELSE Flag(r.fixable[1]),
       IF ids = <<>> THEN Null ELSE Str(ids)>>

AgsRules ==
  Answer(Columns(<<"rule", "title", "checks", "severity", "fixable", "observations">>,
                 <<"Varchar", "Varchar", "Varchar", "Varchar", "Boolean", "Varchar">>),
         [n \in DOMAIN Rules |-> RuleRow(Rules[n])])

-----------------------------------------------------------------------------
\* The producer of a call [fn, arg] over a file.
Producer(f, call) ==
  CASE call.fn \in {"read_ags", "read_ags_text"} -> ReadGroup(f, Canonical(call.arg))
    [] call.fn = "ags_groups"        -> AgsGroups(f)
    [] call.fn = "ags_headings"      -> AgsHeadings(f)
    [] call.fn = "ags_dictionary"    -> AgsDictionary(Canonical(call.arg))
    [] call.fn = "ags_relationships" -> AgsRelationships
    [] call.fn = "ags_rules"         -> AgsRules
=============================================================================
