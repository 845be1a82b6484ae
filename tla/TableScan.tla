------------------------------ MODULE TableScan ------------------------------
(***************************************************************************)
(* The table-function harness (src/src/ffi_table.rs) under the functions   *)
(* of Surface: bind runs the producer once and keeps its whole table; each *)
(* scan of a bound statement has a cursor of its own, and every call of    *)
(* func writes the next chunk of rows into the vectors DuckDB declared at  *)
(* bind.                                                                   *)
(***************************************************************************)
EXTENDS Surface

CONSTANTS
  Statements,
  Scans,
  Sessions,    \* what a session does: [file, call, scans], the parsed file its
               \* calls name, statement -> [fn, arg], and a bound on scans opened
  VectorSize,  \* duckdb_vector_size()
  NoData       \* a statement that is not bound

ASSUME VectorAssumption == VectorSize \in Nat \ {0}

TableFunctions ==
  {"read_ags", "read_ags_text", "ags_groups", "ags_headings", "ags_dictionary", "ags_relationships",
   "ags_rules"}

ASSUME SessionsAssumption ==
  /\ Statements # {}
  /\ \A w \in Sessions : w.scans \in Nat /\ \A q \in Statements : w.call[q].fn \in TableFunctions

\* A parsed file lists the groups it has; a group is its headings and its rows,
\* and no heading holds a NUL (ffi_table.rs counts on it).
WellFormed(f) ==
  /\ IsSeq(f.order) /\ ToSet(f.order) = DOMAIN f.groups
  /\ \A code \in DOMAIN f.groups :
       LET g == f.groups[code]
       IN IsSeq(g.headings) /\ IsSeq(g.rows) /\ ToSet(g.headings) \cap NulNames = {}

ASSUME FilesAssumption == \A w \in Sessions : WellFormed(w.file)

VARIABLES
  session,
  data,     \* statement -> NoData, Refused, or BindData: columns and rows
  of,       \* scan -> its statement
  pc,       \* scan -> closed, ready, writing, ended
  cursor,   \* scan -> rows emitted so far
  start,    \* scan -> the cursor its call of func loaded
  chunk,    \* scan -> the rows of its last chunk
  emitted,  \* history: scan -> row numbers written, in order
  scans

vars == <<session, data, of, pc, cursor, start, chunk, emitted, scans>>
bindVars == <<session, data>>

File == session.file
CallOf(q) == session.call[q]

Init ==
  /\ session \in Sessions
  /\ data = [q \in Statements |-> NoData]
  /\ of = [s \in Scans |-> CHOOSE q \in Statements : TRUE]
  /\ pc = [s \in Scans |-> "closed"]
  /\ cursor = [s \in Scans |-> 0]
  /\ start = [s \in Scans |-> 0]
  /\ chunk = [s \in Scans |-> <<>>]
  /\ emitted = [s \in Scans |-> <<>>]
  /\ scans = 0

\* A column whose name holds a NUL is not declared; its cells stay in the rows.
Declared(columns) == Keep(columns, {c \in ToSet(columns) : c[1] \notin NulNames})

\* bind: the producer answers with a table or refuses.
Bind(q) ==
  /\ data[q] = NoData
  /\ data' = [data EXCEPT ![q] = Producer(File, CallOf(q))]
  /\ UNCHANGED <<session, of, pc, cursor, start, chunk, emitted, scans>>

Answered(q) == data[q] \notin {NoData, Refused}
Rows(s) == data[of[s]].rows

\* init: a scan of a statement that has an answer.
Open(s, q) ==
  /\ Answered(q)
  /\ pc[s] = "closed"
  /\ scans < session.scans
  /\ scans' = scans + 1
  /\ of' = [of EXCEPT ![s] = q]
  /\ pc' = [pc EXCEPT ![s] = "ready"]
  /\ cursor' = [cursor EXCEPT ![s] = 0]
  /\ chunk' = [chunk EXCEPT ![s] = <<>>]
  /\ emitted' = [emitted EXCEPT ![s] = <<>>]
  /\ UNCHANGED <<bindVars, start>>

\* Mutant: one cursor for all the scans of a bind.
SharedCursor(s) == Max({cursor[t] : t \in {t \in Scans : of[t] = of[s]}})
Cursor(s) == cursor[s]

\* func loads its cursor.
Func(s) ==
  /\ pc[s] = "ready"
  /\ pc' = [pc EXCEPT ![s] = "writing"]
  /\ start' = [start EXCEPT ![s] = Cursor(s)]
  /\ UNCHANGED <<bindVars, of, cursor, chunk, emitted, scans>>

Left(s) == Len(Rows(s)) - start[s]

\* Mutant: the vector's capacity is ignored.
AllLeft(s) == Left(s)

\* saturating_sub(start).min(cap)
ChunkSize(s) == Min({Max({Left(s), 0}), VectorSize})

Chunk(s) == SubSeq(Rows(s), start[s] + 1, start[s] + ChunkSize(s))

\* Mutant: the cursor is not advanced.
WriteAgain(s) ==
  /\ pc[s] = "writing"
  /\ ChunkSize(s) > 0
  /\ chunk' = [chunk EXCEPT ![s] = Chunk(s)]
  /\ emitted' = emitted
  /\ pc' = [pc EXCEPT ![s] = "ready"]
  /\ UNCHANGED <<bindVars, of, cursor, start, scans>>

\* func writes every column of its rows, sets the chunk's size, and advances.
Write(s) ==
  /\ pc[s] = "writing"
  /\ ChunkSize(s) > 0
  /\ chunk' = [chunk EXCEPT ![s] = Chunk(s)]
  /\ emitted' = [emitted EXCEPT ![s] = @ \o [i \in 1..ChunkSize(s) |-> start[s] + i]]
  /\ cursor' = [cursor EXCEPT ![s] = start[s] + ChunkSize(s)]
  /\ pc' = [pc EXCEPT ![s] = "ready"]
  /\ UNCHANGED <<bindVars, of, start, scans>>

\* An empty chunk ends the scan.
End(s) ==
  /\ pc[s] = "writing"
  /\ ChunkSize(s) = 0
  /\ chunk' = [chunk EXCEPT ![s] = <<>>]
  /\ pc' = [pc EXCEPT ![s] = "ended"]
  /\ UNCHANGED <<bindVars, of, cursor, start, emitted, scans>>

\* DuckDB drops a scan: at its end, or before it when a LIMIT is satisfied.
Close(s) ==
  /\ pc[s] \in {"ready", "ended"}
  /\ pc' = [pc EXCEPT ![s] = "closed"]
  /\ UNCHANGED <<bindVars, of, cursor, start, chunk, emitted, scans>>

Pull(s) == Func(s) \/ Write(s) \/ End(s)

\* The bound is spent, or every statement was refused.
Done ==
  /\ \A q \in Statements : data[q] # NoData
  /\ \A s \in Scans : pc[s] = "closed"
  /\ scans = session.scans \/ \A q \in Statements : ~Answered(q)
  /\ UNCHANGED vars

Next ==
  \/ \E q \in Statements : Bind(q)
  \/ \E s \in Scans : (\E q \in Statements : Open(s, q)) \/ Pull(s) \/ Close(s)
  \/ Done

\* DuckDB pulls a scan that it has not dropped.
Fairness == \A s \in Scans : WF_vars(Pull(s))

Spec == Init /\ [][Next]_vars /\ Fairness

-----------------------------------------------------------------------------
(* Properties *)

\* No chunk is larger than the vectors it is written to.
TypeOK ==
  /\ session \in Sessions
  /\ \A s \in Scans :
       /\ pc[s] \in {"closed", "ready", "writing", "ended"}
       /\ cursor[s] \in Nat /\ start[s] \in Nat
       /\ Len(chunk[s]) \in 0..VectorSize
  /\ scans \in 0..session.scans

\* Every cell func writes goes through the store of its column's declared type,
\* or through the validity mask, and no row is wider than the declared columns:
\* func follows the cell and does not look at the type, so a disagreement of
\* any producer would write a value of one size over a vector of another.
StoresFit ==
  \A s \in Scans : \A i \in DOMAIN chunk[s] :
    LET row == chunk[s][i]
        declared == Declared(data[of[s]].columns)
    IN /\ Len(row) = Len(declared)
       /\ \A c \in DOMAIN row : row[c][1] \in {"Null", declared[c][2]}

\* However the scans of one bind or of two interleave, and whatever the number
\* of rows is to the vector size, each scan emits the rows once, in order,
\* without a gap, and ends only when it has emitted them all.
RowsOnceInOrder ==
  \A s \in Scans :
    /\ emitted[s] = [i \in 1..Len(emitted[s]) |-> i]
    /\ pc[s] = "ended" => Len(emitted[s]) = Len(Rows(s))

\* A statement answered by a function, and its rows about a group.
Is(q, fn) == Answered(q) /\ CallOf(q).fn = fn
IsTable(q) == Is(q, "read_ags") \/ Is(q, "read_ags_text")
GroupOf(q) == Canonical(CallOf(q).arg)
About(q, code) == {row \in ToSet(data[q].rows) : row[1] = Str(code)}

\* What ags_groups and ags_headings say of a group is what a scan of its table
\* finds: the number of its rows and columns, and each heading's name and SQL
\* type at its ordinal past the two id columns, however short the UNIT and TYPE
\* rows are; only a temporal column, carried as its text, has another type.
StructureDescribesTables ==
  \A q, t \in Statements : IsTable(t) =>
    LET columns == data[t].columns
    IN /\ Is(q, "ags_groups") =>
            \A row \in About(q, GroupOf(t)) :
              row[2] = Num(Len(data[t].rows)) /\ row[3] = Num(Len(columns) - 3)
       /\ Is(q, "ags_headings") =>
            /\ Cardinality(About(q, GroupOf(t))) = Len(columns) - 3
            /\ \A row \in About(q, GroupOf(t)) :
                 LET column == columns[row[8][2] + 3]
                 IN /\ row[2] = Str(column[1])
                    /\ IF row[4] = Str("datetime") THEN column[2] = "Varchar"
                                                   ELSE row[5] = Str(column[2])

\* The ids of a group's rows follow the declarations the structure functions
\* show: rows without an _id are of a group no heading of which is_key, and rows
\* that link to a parent are of a group for which ags_groups names one, whether
\* the registry or the file's own DICT declares it.
IdsFollowDeclarations ==
  \A q, t \in Statements : IsTable(t) =>
    /\ Is(q, "ags_headings") /\ (\E row \in About(q, GroupOf(t)) : row[7] = Flag(TRUE)) =>
         \A row \in ToSet(data[t].rows) : row[1] # Null
    /\ Is(q, "ags_groups") /\ (\E row \in ToSet(data[t].rows) : row[2] # Null) =>
         \A row \in About(q, GroupOf(t)) : row[4] # Null

\* The dictionary functions and the structure of a file agree on what the
\* standard says: a heading of the union registry has the status there that
\* ags_headings gives it whatever the file's DICT declares, and the parent
\* ags_dictionary names for a group is the one ags_relationships links it to.
DictionaryAgrees ==
  \A q, t \in Statements : Is(q, "ags_dictionary") /\ GroupOf(q) = "" =>
    \A row \in ToSet(data[q].rows) :
      /\ Is(t, "ags_headings") =>
           \A r \in ToSet(data[t].rows) : r[1] = row[1] /\ r[2] = row[3] => r[6] = row[4]
      /\ Is(t, "ags_relationships") /\ row[2] # Null =>
           \E r \in ToSet(data[t].rows) : r[1] = row[1] /\ r[2] = row[2]

\* Every scan ends or is dropped.
ScansEnd == \A s \in Scans : pc[s] = "ready" ~> pc[s] \in {"ended", "closed"}
=============================================================================
