--------------------------- MODULE TableScanProofs ---------------------------
(***************************************************************************)
(* Theorems about TableScan, for every set of statements, scans and        *)
(* sessions, every vector size and every table a producer may answer with. *)
(***************************************************************************)
EXTENDS TableScan, SequenceLemmas, FiniteSetTheorems

-----------------------------------------------------------------------------
(* Sequences *)

\* A function on 1..n is a sequence.
LEMMA SequenceOf ==
  ASSUME NEW n \in Nat, NEW s, s = [i \in 1..n |-> s[i]]
  PROVE  IsSeq(s) /\ Len(s) = n /\ ToSet(s) = {s[i] : i \in 1..n}
<1>1. s \in [1..n -> ToSet(s)] /\ DOMAIN s = 1..n
  BY DEF ToSet
<1> QED
  BY <1>1 DEF IsSeq, ToSet

LEMMA SequenceIs ==
  ASSUME NEW s, IsSeq(s)
  PROVE  Len(s) \in Nat /\ DOMAIN s = 1..Len(s) /\ s = [i \in 1..Len(s) |-> s[i]]
BY DEF IsSeq

\* Flattening a sequence of sequences.
LEMMA FlattenAll ==
  ASSUME NEW seqs, IsSeq(seqs), \A i \in DOMAIN seqs : IsSeq(seqs[i])
  PROVE  /\ IsSeq(FlattenSeq(seqs))
         /\ ToSet(FlattenSeq(seqs)) = UNION {ToSet(seqs[i]) : i \in DOMAIN seqs}
<1> DEFINE S == UNION {ToSet(seqs[i]) : i \in DOMAIN seqs}
<1>1. Len(seqs) \in Nat /\ DOMAIN seqs = 1..Len(seqs) /\ seqs = [i \in 1..Len(seqs) |-> seqs[i]]
  BY SequenceIs
<1>2. ASSUME NEW i \in 1..Len(seqs) PROVE seqs[i] \in Seq(S)
  <2>1. /\ Len(seqs[i]) \in Nat /\ DOMAIN seqs[i] = 1..Len(seqs[i])
        /\ seqs[i] = [j \in 1..Len(seqs[i]) |-> seqs[i][j]]
    BY <1>1, SequenceIs
  <2>2. ToSet(seqs[i]) \subseteq S
    BY <1>1
  <2>3. \A j \in 1..Len(seqs[i]) : seqs[i][j] \in ToSet(seqs[i])
    BY <2>1 DEF ToSet
  <2>4. \A j \in 1..Len(seqs[i]) : seqs[i][j] \in S
    BY <2>2, <2>3
  <2> HIDE DEF S
  <2> QED
    BY <2>1, <2>4
<1>3. seqs \in Seq(Seq(S))
  <2> HIDE DEF S
  <2> QED
    BY <1>1, <1>2
<1>4. /\ FlattenSeq(seqs) \in Seq(S)
      /\ ToSet(FlattenSeq(seqs)) = UNION {ToSet(seqs[i]) : i \in 1..Len(seqs)}
  <2> HIDE DEF S
  <2> QED
    BY <1>3, FlattenElements
<1>5. IsSeq(FlattenSeq(seqs))
  <2> DEFINE t == FlattenSeq(seqs)
  <2>1. Len(t) \in Nat /\ t = [i \in 1..Len(t) |-> t[i]]
    <3> HIDE DEF S
    <3> QED
      BY <1>4
  <2> HIDE DEF t
  <2>2. IsSeq(t)
    BY <2>1, SequenceOf
  <2> QED
    BY <2>2 DEF t
<1> QED
  BY <1>1, <1>4, <1>5

\* Keep keeps the elements in T, and keeps the sequence if all are.
LEMMA KeepElements ==
  ASSUME NEW s, IsSeq(s), NEW T
  PROVE  IsSeq(Keep(s, T)) /\ ToSet(Keep(s, T)) = ToSet(s) \cap T
<1> DEFINE pieces == [i \in DOMAIN s |-> IF s[i] \in T THEN <<s[i]>> ELSE <<>>]
<1>1. Len(s) \in Nat /\ DOMAIN s = 1..Len(s)
  BY SequenceIs
<1>2. IsSeq(pieces) /\ DOMAIN pieces = DOMAIN s
  BY <1>1, SequenceOf
<1>3. ASSUME NEW i \in DOMAIN s
      PROVE  IsSeq(pieces[i]) /\ ToSet(pieces[i]) = {s[i]} \cap T
  <2> DEFINE x == s[i]
  <2>1. pieces[i] = IF x \in T THEN <<x>> ELSE <<>>
    BY <1>1
  <2> HIDE DEF x, pieces
  <2>2. ToSet(<<x>>) = {x} /\ IsSeq(<<x>>) /\ ToSet(<<>>) = {} /\ IsSeq(<<>>)
    BY DEF IsSeq, ToSet
  <2>3. CASE x \in T
    BY <2>1, <2>2, <2>3 DEF x
  <2>4. CASE x \notin T
    BY <2>1, <2>2, <2>4 DEF x
  <2> QED
    BY <2>3, <2>4
<1>4. IsSeq(Keep(s, T)) /\ ToSet(Keep(s, T)) = UNION {ToSet(pieces[i]) : i \in DOMAIN s}
  <2> HIDE DEF pieces
  <2>1. IsSeq(FlattenSeq(pieces)) /\ ToSet(FlattenSeq(pieces)) = UNION {ToSet(pieces[i]) : i \in DOMAIN s}
    BY <1>2, <1>3, FlattenAll
  <2> QED
    BY <2>1 DEF Keep, pieces
<1> HIDE DEF pieces
<1>5. ToSet(s) = UNION {{s[i]} : i \in DOMAIN s}
  BY DEF ToSet
<1> QED
  BY <1>3, <1>4, <1>5

LEMMA KeepAll ==
  ASSUME NEW s, IsSeq(s), NEW T, ToSet(s) \subseteq T
  PROVE  Keep(s, T) = s
<1> DEFINE pieces == [i \in DOMAIN s |-> IF s[i] \in T THEN <<s[i]>> ELSE <<>>]
           S == ToSet(s)
<1>1. Len(s) \in Nat /\ DOMAIN s = 1..Len(s) /\ s = [i \in 1..Len(s) |-> s[i]]
  BY SequenceIs
<1>2. s \in Seq(S)
  BY DEF IsSeq
<1>3. \A i \in 1..Len(s) : s[i] \in T /\ s[i] \in S
  BY <1>1 DEF ToSet
<1>4. pieces \in Seq(Seq(S)) /\ Len(pieces) = Len(s)
  <2> HIDE DEF S
  <2> QED
    BY <1>1, <1>3
<1>5. \A i \in 1..Len(s) : pieces[i] = IF 0 < i /\ i <= Len(s) THEN <<s[i]>> ELSE <<>>
  BY <1>1, <1>3
<1>6. 0 \in 0..Len(s) /\ Len(s) \in 0..Len(s)
  BY <1>1
<1>7. FlattenSeq(pieces) = SubSeq(s, 0 + 1, Len(s))
  <2> HIDE DEF S, pieces
  <2> QED
    BY <1>2, <1>4, <1>5, <1>6, FlattenWindow
<1>8. SubSeq(s, 0 + 1, Len(s)) = s
  <2>1. 0 + 1 = 1
    OBVIOUS
  <2> HIDE DEF S
  <2> QED
    BY <1>2, <2>1, SubSeqFull
<1> QED
  BY <1>7, <1>8 DEF Keep

\* Counting on from c continues the count to c.
LEMMA CountOn ==
  ASSUME NEW c \in Nat, NEW n \in Nat
  PROVE  [i \in 1..c |-> i] \o [i \in 1..n |-> c + i] = [i \in 1..(c + n) |-> i]
<1> DEFINE f == [i \in 1..c |-> i]
           g == [i \in 1..n |-> c + i]
<1>1. f \in Seq(Nat) /\ Len(f) = c /\ g \in Seq(Nat) /\ Len(g) = n
  OBVIOUS
<1>2. f \o g \in Seq(Nat) /\ Len(f \o g) = c + n
  BY <1>1
<1>3. ASSUME NEW i \in 1..(c + n) PROVE (f \o g)[i] = i
  <2>1. CASE i \in 1..c
    BY <2>1, <1>1
  <2>2. CASE i \in (c + 1)..(c + n)
    BY <2>2, <1>1
  <2> QED
    BY <2>1, <2>2
<1> QED
  BY <1>2, <1>3

-----------------------------------------------------------------------------
(* The answers *)

\* The row's cells go through the stores of the columns, or through the mask.
RowFits(row, columns) ==
  /\ Len(row) = Len(columns)
  /\ \A c \in DOMAIN row : row[c][1] \in {"Null", columns[c][2]}

Fits(answer) ==
  /\ IsSeq(answer.columns) /\ IsSeq(answer.rows)
  /\ \A c \in ToSet(answer.columns) : c[1] \notin NulNames
  /\ \A row \in ToSet(answer.rows) : RowFits(row, answer.columns)

\* The columns a function names itself.
LEMMA FixedColumns ==
  ASSUME NEW names \in Seq(FixedNames), NEW types
  PROVE  /\ IsSeq(Columns(names, types)) /\ Len(Columns(names, types)) = Len(names)
         /\ \A c \in ToSet(Columns(names, types)) : c[1] \notin NulNames
         /\ \A i \in 1..Len(names) : Columns(names, types)[i] = <<names[i], types[i]>>
<1> DEFINE columns == Columns(names, types)
<1>1. Len(names) \in Nat /\ DOMAIN names = 1..Len(names) /\ \A i \in 1..Len(names) : names[i] \in FixedNames
  OBVIOUS
<1>2. columns = [i \in 1..Len(names) |-> columns[i]] /\ \A i \in 1..Len(names) : columns[i] = <<names[i], types[i]>>
  BY <1>1 DEF Columns
<1> HIDE DEF columns
<1>3. IsSeq(columns) /\ Len(columns) = Len(names) /\ ToSet(columns) = {columns[i] : i \in 1..Len(names)}
  BY <1>1, <1>2, SequenceOf
<1>4. \A c \in ToSet(columns) : c[1] \notin NulNames
  BY <1>1, <1>2, <1>3, FixedNamesAssumption
<1> QED
  BY <1>2, <1>3, <1>4 DEF columns

\* An answer under such columns, row by row.
LEMMA FixedAnswer ==
  ASSUME NEW names \in Seq(FixedNames), NEW types, NEW rows, IsSeq(rows),
         \A row \in ToSet(rows) :
           /\ Len(row) = Len(names) /\ DOMAIN row = 1..Len(names)
           /\ \A c \in 1..Len(names) : row[c][1] \in {"Null", types[c]}
  PROVE  Fits(Answer(Columns(names, types), rows))
<1> DEFINE columns == Columns(names, types)
<1>1. /\ IsSeq(columns) /\ Len(columns) = Len(names)
      /\ \A c \in ToSet(columns) : c[1] \notin NulNames
      /\ \A i \in 1..Len(names) : columns[i] = <<names[i], types[i]>>
  BY FixedColumns
<1> HIDE DEF columns
<1>2. ASSUME NEW row \in ToSet(rows) PROVE RowFits(row, columns)
  BY <1>1, <1>2 DEF RowFits
<1>3. Fits(Answer(columns, rows))
  BY <1>1, <1>2 DEF Fits, Answer
<1> QED
  BY <1>3 DEF columns

LEMMA OptFits == \A s : Opt(s)[1] \in {"Null", "Varchar"}
BY DEF Opt, Null, Str

LEMMA GroupsFit ==
  ASSUME NEW f, WellFormed(f)
  PROVE  Fits(AgsGroups(f))
<1> DEFINE names == <<"group", "n_rows", "n_headings", "parent">>
           types == <<"Varchar", "BigInt", "BigInt", "Varchar">>
           rows == AgsGroups(f).rows
<1>1. AgsGroups(f) = Answer(Columns(names, types), rows)
  BY DEF AgsGroups, Answer
<1>2. names \in Seq(FixedNames) /\ Len(names) = 4
  BY DEF FixedNames
<1>3. Len(f.order) \in Nat /\ DOMAIN f.order = 1..Len(f.order)
  BY SequenceIs DEF WellFormed
<1>4. rows = [n \in 1..Len(f.order) |-> rows[n]]
  BY <1>3 DEF AgsGroups, Answer
<1>5. ASSUME NEW n \in 1..Len(f.order)
      PROVE  /\ Len(rows[n]) = 4 /\ DOMAIN rows[n] = 1..4
             /\ \A c \in 1..4 : rows[n][c][1] \in {"Null", types[c]}
  <2> DEFINE g == f.groups[f.order[n]]
  <2>1. rows[n] = <<Str(f.order[n]), Num(Len(g.rows)), Num(Len(g.headings)), Opt(ParentOf(f, f.order[n]))>>
    BY <1>3 DEF AgsGroups, Answer
  <2> HIDE DEF rows
  <2> QED
    BY <2>1, OptFits DEF Str, Num
<1> HIDE DEF rows, names, types
<1>6. IsSeq(rows) /\ ToSet(rows) = {rows[n] : n \in 1..Len(f.order)}
  BY <1>3, <1>4, SequenceOf
<1>7. \A row \in ToSet(rows) :
        /\ Len(row) = Len(names) /\ DOMAIN row = 1..Len(names)
        /\ \A c \in 1..Len(names) : row[c][1] \in {"Null", types[c]}
  BY <1>2, <1>5, <1>6
<1> QED
  BY <1>1, <1>2, <1>6, <1>7, FixedAnswer

\* The rows of ags_headings: one for each heading of each group.
LEMMA HeadingRows ==
  ASSUME NEW f, WellFormed(f)
  PROVE  /\ IsSeq(AgsHeadings(f).rows)
         /\ ToSet(AgsHeadings(f).rows) =
              UNION {{HeadingRow(f, code, i) : i \in 1..Len(f.groups[code].headings)} : code \in ToSet(f.order)}
<1> DEFINE pieces == [n \in DOMAIN f.order |->
                        [i \in DOMAIN f.groups[f.order[n]].headings |-> HeadingRow(f, f.order[n], i)]]
           Of(code) == {HeadingRow(f, code, i) : i \in 1..Len(f.groups[code].headings)}
<1>1. AgsHeadings(f).rows = FlattenSeq(pieces)
  BY DEF AgsHeadings, Answer
<1>2. Len(f.order) \in Nat /\ DOMAIN f.order = 1..Len(f.order)
  BY SequenceIs DEF WellFormed
<1>3. IsSeq(pieces) /\ DOMAIN pieces = DOMAIN f.order
  BY <1>2, SequenceOf
<1>4. ASSUME NEW n \in DOMAIN f.order
      PROVE  IsSeq(pieces[n]) /\ ToSet(pieces[n]) = Of(f.order[n])
  <2> DEFINE h == f.groups[f.order[n]].headings
  <2>1. f.order[n] \in DOMAIN f.groups
    BY DEF WellFormed, ToSet
  <2>2. Len(h) \in Nat /\ DOMAIN h = 1..Len(h)
    BY <2>1, SequenceIs DEF WellFormed
  <2>3. /\ pieces[n] = [i \in 1..Len(h) |-> pieces[n][i]]
        /\ \A i \in 1..Len(h) : pieces[n][i] = HeadingRow(f, f.order[n], i)
    BY <2>2
  <2> HIDE DEF h, pieces
  <2>4. IsSeq(pieces[n]) /\ ToSet(pieces[n]) = {pieces[n][i] : i \in 1..Len(h)}
    BY <2>2, <2>3, SequenceOf
  <2> QED
    BY <2>2, <2>3, <2>4 DEF h
<1> HIDE DEF pieces, Of
<1>5. /\ IsSeq(FlattenSeq(pieces))
      /\ ToSet(FlattenSeq(pieces)) = UNION {ToSet(pieces[n]) : n \in DOMAIN f.order}
  BY <1>3, <1>4, FlattenAll
<1>6. UNION {ToSet(pieces[n]) : n \in DOMAIN f.order} = UNION {Of(code) : code \in ToSet(f.order)}
  BY <1>4 DEF ToSet
<1> QED
  BY <1>1, <1>5, <1>6 DEF Of

LEMMA HeadingsFit ==
  ASSUME NEW f, WellFormed(f)
  PROVE  Fits(AgsHeadings(f))
<1> DEFINE names == <<"group", "heading", "unit", "ags_type", "sql_type", "status", "is_key", "ordinal">>
           types == <<"Varchar", "Varchar", "Varchar", "Varchar", "Varchar", "Varchar", "Boolean", "BigInt">>
           rows == AgsHeadings(f).rows
<1>1. AgsHeadings(f) = Answer(Columns(names, types), rows)
  BY DEF AgsHeadings, Answer
<1>2. names \in Seq(FixedNames) /\ Len(names) = 8
  BY DEF FixedNames
<1>3. IsSeq(rows) /\ \A row \in ToSet(rows) : \E code, i : row = HeadingRow(f, code, i)
  <2> HIDE DEF rows
  <2> QED
    BY HeadingRows DEF rows
<1>4. ASSUME NEW code, NEW i
      PROVE  LET row == HeadingRow(f, code, i)
             IN /\ Len(row) = 8 /\ DOMAIN row = 1..8
                /\ \A c \in 1..8 : row[c][1] \in {"Null", types[c]}
  BY OptFits DEF HeadingRow, Str, Num, Flag
<1> HIDE DEF rows, names, types
<1>5. \A row \in ToSet(rows) :
        /\ Len(row) = Len(names) /\ DOMAIN row = 1..Len(names)
        /\ \A c \in 1..Len(names) : row[c][1] \in {"Null", types[c]}
  BY <1>2, <1>3, <1>4
<1> QED
  BY <1>1, <1>2, <1>3, <1>5, FixedAnswer

IsDictionary(entries) == IsSeq(entries) /\ \A e \in ToSet(entries) : IsSeq(e.headings)

\* The rows of ags_dictionary: one for each heading of each group.
LEMMA DictionaryRows ==
  ASSUME NEW entries, IsDictionary(entries)
  PROVE  /\ IsSeq(Dictionary(entries).rows)
         /\ ToSet(Dictionary(entries).rows) =
              UNION {{DictionaryRow(e, i) : i \in DOMAIN e.headings} : e \in ToSet(entries)}
<1> DEFINE pieces == [n \in DOMAIN entries |->
                        [i \in DOMAIN entries[n].headings |-> DictionaryRow(entries[n], i)]]
           Of(e) == {DictionaryRow(e, i) : i \in DOMAIN e.headings}
<1>1. Dictionary(entries).rows = FlattenSeq(pieces)
  BY DEF Dictionary, Answer
<1>2. Len(entries) \in Nat /\ DOMAIN entries = 1..Len(entries)
  BY SequenceIs DEF IsDictionary
<1>3. IsSeq(pieces) /\ DOMAIN pieces = DOMAIN entries
  BY <1>2, SequenceOf
<1>4. ASSUME NEW n \in DOMAIN entries
      PROVE  IsSeq(pieces[n]) /\ ToSet(pieces[n]) = Of(entries[n])
  <2> DEFINE h == entries[n].headings
  <2>1. entries[n] \in ToSet(entries)
    BY DEF ToSet
  <2>2. Len(h) \in Nat /\ DOMAIN h = 1..Len(h)
    BY <2>1, SequenceIs DEF IsDictionary
  <2>3. /\ pieces[n] = [i \in 1..Len(h) |-> pieces[n][i]]
        /\ \A i \in 1..Len(h) : pieces[n][i] = DictionaryRow(entries[n], i)
    BY <2>2
  <2> HIDE DEF h, pieces
  <2>4. IsSeq(pieces[n]) /\ ToSet(pieces[n]) = {pieces[n][i] : i \in 1..Len(h)}
    BY <2>2, <2>3, SequenceOf
  <2> QED
    BY <2>2, <2>3, <2>4 DEF h
<1> HIDE DEF pieces, Of
<1>5. /\ IsSeq(FlattenSeq(pieces))
      /\ ToSet(FlattenSeq(pieces)) = UNION {ToSet(pieces[n]) : n \in DOMAIN entries}
  BY <1>3, <1>4, FlattenAll
<1>6. UNION {ToSet(pieces[n]) : n \in DOMAIN entries} = UNION {Of(e) : e \in ToSet(entries)}
  BY <1>4 DEF ToSet
<1> QED
  BY <1>1, <1>5, <1>6 DEF Of

LEMMA DictionaryFits ==
  ASSUME NEW entries, IsDictionary(entries)
  PROVE  Fits(Dictionary(entries))
<1> DEFINE names == <<"group", "parent", "heading", "status", "ags_type", "sql_type", "unit", "description",
                      "ordinal">>
           types == <<"Varchar", "Varchar", "Varchar", "Varchar", "Varchar", "Varchar", "Varchar",
                      "Varchar", "BigInt">>
           rows == Dictionary(entries).rows
<1>1. Dictionary(entries) = Answer(Columns(names, types), rows)
  BY DEF Dictionary, Answer
<1>2. names \in Seq(FixedNames) /\ Len(names) = 9
  BY DEF FixedNames
<1>3. IsSeq(rows) /\ \A row \in ToSet(rows) : \E e, i : row = DictionaryRow(e, i)
  <2> HIDE DEF rows
  <2> QED
    BY DictionaryRows DEF rows
<1>4. ASSUME NEW e, NEW i
      PROVE  LET row == DictionaryRow(e, i)
             IN /\ Len(row) = 9 /\ DOMAIN row = 1..9
                /\ \A c \in 1..9 : row[c][1] \in {"Null", types[c]}
  BY OptFits DEF DictionaryRow, Str, Num
<1> HIDE DEF rows, names, types
<1>5. \A row \in ToSet(rows) :
        /\ Len(row) = Len(names) /\ DOMAIN row = 1..Len(names)
        /\ \A c \in 1..Len(names) : row[c][1] \in {"Null", types[c]}
  BY <1>2, <1>3, <1>4
<1> QED
  BY <1>1, <1>2, <1>3, <1>5, FixedAnswer

Children == Keep(Registry, {e \in ToSet(Registry) : e.parent # ""})
ChildRow(e) == <<Str(e.code), Str(e.parent), Str(SharedKeys(e))>>

\* The rows of ags_relationships: one for each group of the registry with a parent.
LEMMA RelationshipRows ==
  /\ IsSeq(AgsRelationships.rows)
  /\ ToSet(AgsRelationships.rows) = {ChildRow(e) : e \in {e \in ToSet(Registry) : e.parent # ""}}
<1> DEFINE rows == [n \in DOMAIN Children |-> ChildRow(Children[n])]
<1>1. AgsRelationships.rows = rows
  BY DEF AgsRelationships, Answer, Children, ChildRow
<1>2. IsSeq(Registry)
  BY DictionariesAssumption
<1>3. IsSeq(Children) /\ ToSet(Children) = {e \in ToSet(Registry) : e.parent # ""}
  <2> DEFINE T == {e \in ToSet(Registry) : e.parent # ""}
  <2>1. ToSet(Registry) \cap T = T
    OBVIOUS
  <2>2. Children = Keep(Registry, T)
    BY DEF Children
  <2> HIDE DEF T
  <2>3. IsSeq(Keep(Registry, T)) /\ ToSet(Keep(Registry, T)) = ToSet(Registry) \cap T
    BY <1>2, KeepElements
  <2>4. IsSeq(Children) /\ ToSet(Children) = T
    BY <2>1, <2>2, <2>3
  <2> QED
    BY <2>4 DEF T
<1>4. Len(Children) \in Nat /\ DOMAIN Children = 1..Len(Children)
  BY <1>3, SequenceIs
<1>5. /\ rows = [n \in 1..Len(Children) |-> rows[n]]
      /\ \A n \in 1..Len(Children) : rows[n] = ChildRow(Children[n])
  BY <1>4
<1> HIDE DEF rows
<1>6. IsSeq(rows) /\ ToSet(rows) = {rows[n] : n \in 1..Len(Children)}
  BY <1>4, <1>5, SequenceOf
<1>7. ToSet(rows) = {ChildRow(e) : e \in ToSet(Children)}
  BY <1>4, <1>5, <1>6 DEF ToSet
<1> QED
  BY <1>1, <1>3, <1>6, <1>7

LEMMA RelationshipsFit == Fits(AgsRelationships)
<1> DEFINE names == <<"child", "parent", "shared_keys">>
           types == <<"Varchar", "Varchar", "Varchar">>
           rows == AgsRelationships.rows
<1>1. AgsRelationships = Answer(Columns(names, types), rows)
  BY DEF AgsRelationships, Answer
<1>2. names \in Seq(FixedNames) /\ Len(names) = 3
  BY DEF FixedNames
<1>3. ASSUME NEW e
      PROVE  /\ Len(ChildRow(e)) = 3 /\ DOMAIN ChildRow(e) = 1..3
             /\ \A c \in 1..3 : ChildRow(e)[c][1] \in {"Null", types[c]}
  BY DEF ChildRow, Str
<1> HIDE DEF rows, names, types
<1>4. IsSeq(rows) /\ \A row \in ToSet(rows) : \E e : row = ChildRow(e)
  BY RelationshipRows DEF rows
<1>5. \A row \in ToSet(rows) :
        /\ Len(row) = Len(names) /\ DOMAIN row = 1..Len(names)
        /\ \A c \in 1..Len(names) : row[c][1] \in {"Null", types[c]}
  BY <1>2, <1>3, <1>4
<1> QED
  BY <1>1, <1>2, <1>4, <1>5, FixedAnswer

LEMMA RulesFit == Fits(AgsRules)
<1> DEFINE names == <<"rule", "title", "checks", "severity", "fixable", "observations">>
           types == <<"Varchar", "Varchar", "Varchar", "Varchar", "Boolean", "Varchar">>
           rows == [n \in DOMAIN Rules |-> RuleRow(Rules[n])]
<1>1. AgsRules = Answer(Columns(names, types), rows)
  BY DEF AgsRules
<1>2. names \in Seq(FixedNames) /\ Len(names) = 6
  BY DEF FixedNames
<1>3. ASSUME NEW r
      PROVE  /\ Len(RuleRow(r)) = 6 /\ DOMAIN RuleRow(r) = 1..6
             /\ \A c \in 1..6 : RuleRow(r)[c][1] \in {"Null", types[c]}
  BY OptFits DEF RuleRow, Str, Flag, Null
<1>4. Len(Rules) \in Nat /\ DOMAIN Rules = 1..Len(Rules)
  BY RulesAssumption, SequenceIs
<1>5. /\ rows = [n \in 1..Len(Rules) |-> rows[n]]
      /\ \A n \in 1..Len(Rules) : rows[n] = RuleRow(Rules[n])
  BY <1>4
<1> HIDE DEF rows, names, types
<1>6. IsSeq(rows) /\ ToSet(rows) = {rows[n] : n \in 1..Len(Rules)}
  BY <1>4, <1>5, SequenceOf
<1>7. \A row \in ToSet(rows) :
        /\ Len(row) = Len(names) /\ DOMAIN row = 1..Len(names)
        /\ \A c \in 1..Len(names) : row[c][1] \in {"Null", types[c]}
  BY <1>2, <1>3, <1>5, <1>6
<1> QED
  BY <1>1, <1>2, <1>6, <1>7, FixedAnswer

\* The sequence t is a, of two elements, then b, then c, of one.
Between(t, a, b, c) ==
  /\ IsSeq(t) /\ Len(t) = Len(b) + 3 /\ DOMAIN t = 1..Len(b) + 3
  /\ t[1] = a[1] /\ t[2] = a[2] /\ t[Len(b) + 3] = c[1]
  /\ \A i \in 1..Len(b) : t[i + 2] = b[i]

LEMMA Sandwich ==
  ASSUME NEW a, IsSeq(a), Len(a) = 2, NEW b, IsSeq(b), NEW c, IsSeq(c), Len(c) = 1
  PROVE  Between(a \o b \o c, a, b, c)
<1> DEFINE S == ToSet(a) \cup ToSet(b) \cup ToSet(c)
           n == Len(b)
           s == a \o b \o c
<1>1. a \in Seq(ToSet(a)) /\ b \in Seq(ToSet(b)) /\ c \in Seq(ToSet(c)) /\ n \in Nat
  BY DEF IsSeq
<1>2. ToSet(a) \subseteq S /\ ToSet(b) \subseteq S /\ ToSet(c) \subseteq S
  OBVIOUS
<1> HIDE DEF S
<1>3. a \in Seq(S) /\ b \in Seq(S) /\ c \in Seq(S)
  BY <1>1, <1>2
<1>4. /\ a \o b \in Seq(S) /\ Len(a \o b) = n + 2
      /\ \A i \in 1..n + 2 : (a \o b)[i] = IF i <= 2 THEN a[i] ELSE b[i - 2]
  <2>1. /\ a \o b \in Seq(S) /\ Len(a \o b) = Len(a) + Len(b)
        /\ \A i \in 1..Len(a) + Len(b) : (a \o b)[i] = IF i <= Len(a) THEN a[i] ELSE b[i - Len(a)]
    BY <1>3, ConcatProperties
  <2> QED
    BY <1>1, <2>1
<1>5. /\ s \in Seq(S) /\ Len(s) = n + 3
      /\ \A i \in 1..n + 3 : s[i] = IF i <= n + 2 THEN (a \o b)[i] ELSE c[i - (n + 2)]
  <2> DEFINE ab == a \o b
  <2>1. /\ ab \o c \in Seq(S) /\ Len(ab \o c) = Len(ab) + Len(c)
        /\ \A i \in 1..Len(ab) + Len(c) : (ab \o c)[i] = IF i <= Len(ab) THEN ab[i] ELSE c[i - Len(ab)]
    <3> HIDE DEF ab
    <3>1. ab \in Seq(S)
      BY <1>4 DEF ab
    <3> QED
      BY <1>3, <3>1, ConcatProperties
  <2>2. Len(ab) = n + 2
    BY <1>4
  <2>3. s = ab \o c
    OBVIOUS
  <2> HIDE DEF ab, s, n
  <2>4. Len(ab) + Len(c) = n + 3
    BY <1>1, <2>2
  <2>5. /\ s \in Seq(S) /\ Len(s) = n + 3
        /\ \A i \in 1..n + 3 : s[i] = IF i <= n + 2 THEN ab[i] ELSE c[i - (n + 2)]
    BY <2>1, <2>2, <2>3, <2>4
  <2> QED
    BY <2>5 DEF ab
<1>6. DOMAIN s = 1..n + 3 /\ s = [i \in 1..n + 3 |-> s[i]]
  <2> HIDE DEF s, n
  <2> QED
    BY <1>5
<1>7. IsSeq(s)
  <2>1. n + 3 \in Nat
    BY <1>1
  <2> HIDE DEF s, n
  <2> QED
    BY <1>6, <2>1, SequenceOf
<1>8. s[1] = a[1] /\ s[2] = a[2] /\ s[n + 3] = c[1]
  <2> HIDE DEF s, n
  <2>1. 1 \in 1..n + 3 /\ 2 \in 1..n + 3 /\ n + 3 \in 1..n + 3 /\ 1 \in 1..n + 2 /\ 2 \in 1..n + 2
        /\ 1 <= n + 2 /\ 2 <= n + 2 /\ ~(n + 3 <= n + 2) /\ (n + 3) - (n + 2) = 1
    BY <1>1
  <2>2. s[1] = (a \o b)[1] /\ s[2] = (a \o b)[2]
    BY <1>5, <2>1
  <2>3. (a \o b)[1] = a[1] /\ (a \o b)[2] = a[2]
    BY <1>4, <2>1
  <2>4. s[n + 3] = c[(n + 3) - (n + 2)]
    <3> DEFINE m == n + 3
    <3>1. m \in 1..n + 3 /\ ~(m <= n + 2)
      BY <2>1
    <3> HIDE DEF m
    <3>2. s[m] = c[m - (n + 2)]
      BY <1>5, <3>1
    <3> QED
      BY <3>2 DEF m
  <2> QED
    BY <2>1, <2>2, <2>3, <2>4
<1>9. ASSUME NEW i \in 1..n PROVE s[i + 2] = b[i]
  <2> HIDE DEF s, n
  <2>1. i + 2 \in 1..n + 3 /\ i + 2 \in 1..n + 2 /\ ~(i + 2 <= 2) /\ (i + 2) - 2 = i
    BY <1>1
  <2> QED
    BY <1>4, <1>5, <2>1
<1> QED
  BY <1>5, <1>6, <1>7, <1>8, <1>9 DEF Between

LEMMA CellFits ==
  ASSUME NEW json, NEW type, NEW unit
  PROVE  CellFor(json, type, unit, Emit(type))[1] \in {"Null", Emit(type)}
BY DEF CellFor, Emit, Null, Str

\* The columns of a group's table and its rows.
LEMMA TableIs ==
  ASSUME NEW f, WellFormed(f), NEW code \in DOMAIN f.groups
  PROVE  LET g == f.groups[code]
             n == Len(g.headings)
             columns == BuildTable(f, code).columns
             rows == BuildTable(f, code).rows
         IN /\ n \in Nat /\ DOMAIN g.headings = 1..n
            /\ IsSeq(columns) /\ Len(columns) = n + 3 /\ DOMAIN columns = 1..n + 3
            /\ columns[1] = <<"_id", "Varchar">> /\ columns[2] = <<"_parent_id", "Varchar">>
            /\ columns[n + 3] = <<"_content_hash", "Varchar">>
            /\ \A i \in 1..n : columns[i + 2] = <<g.headings[i], Emit(TypeOf(g, i))>>
            /\ IsSeq(rows) /\ Len(rows) = Len(g.rows)
            /\ \A row \in ToSet(rows) :
                 /\ Len(row) = n + 3 /\ DOMAIN row = 1..n + 3
                 /\ row[1] = Ids(f, code)[1] /\ row[2] = Ids(f, code)[2] /\ row[n + 3] = Str("hash")
                 /\ \A i \in 1..n : row[i + 2][1] \in {"Null", Emit(TypeOf(g, i))}
<1> DEFINE g == f.groups[code]
           n == Len(g.headings)
           columns == BuildTable(f, code).columns
           rows == BuildTable(f, code).rows
           front == Columns(<<"_id", "_parent_id">>, <<"Varchar", "Varchar">>)
           middle == [i \in DOMAIN g.headings |-> <<g.headings[i], Emit(TypeOf(g, i))>>]
           back == Columns(<<"_content_hash">>, <<"Varchar">>)
           cell(r, i) == CellFor(CellOf(g, r, i), TypeOf(g, i), UnitOf(g, i), Emit(TypeOf(g, i)))
           cells(r) == [i \in DOMAIN g.headings |-> cell(r, i)]
<1>1. n \in Nat /\ DOMAIN g.headings = 1..n /\ Len(g.rows) \in Nat /\ DOMAIN g.rows = 1..Len(g.rows)
  BY SequenceIs DEF WellFormed
<1>2. /\ columns = front \o middle \o back
      /\ rows = [r \in DOMAIN g.rows |-> Ids(f, code) \o cells(r) \o <<Str("hash")>>]
  BY DEF BuildTable, Answer
<1>3. /\ IsSeq(front) /\ Len(front) = 2
      /\ front[1] = <<"_id", "Varchar">> /\ front[2] = <<"_parent_id", "Varchar">>
      /\ IsSeq(back) /\ Len(back) = 1 /\ back[1] = <<"_content_hash", "Varchar">>
  <2> DEFINE a == <<"_id", "_parent_id">>
             b == <<"_content_hash">>
             ta == <<"Varchar", "Varchar">>
             tb == <<"Varchar">>
  <2>1. a \in Seq(FixedNames) /\ b \in Seq(FixedNames)
    BY DEF FixedNames
  <2>2. Len(a) = 2 /\ Len(b) = 1 /\ a[1] = "_id" /\ a[2] = "_parent_id" /\ b[1] = "_content_hash"
        /\ ta[1] = "Varchar" /\ ta[2] = "Varchar" /\ tb[1] = "Varchar"
    OBVIOUS
  <2> HIDE DEF a, b, ta, tb
  <2>3. /\ IsSeq(Columns(a, ta)) /\ Len(Columns(a, ta)) = 2
        /\ \A i \in 1..2 : Columns(a, ta)[i] = <<a[i], ta[i]>>
        /\ IsSeq(Columns(b, tb)) /\ Len(Columns(b, tb)) = 1
        /\ \A i \in 1..1 : Columns(b, tb)[i] = <<b[i], tb[i]>>
    BY <2>1, <2>2, FixedColumns
  <2>4. 1 \in 1..2 /\ 2 \in 1..2 /\ 1 \in 1..1
    OBVIOUS
  <2>5. /\ Columns(a, ta)[1] = <<"_id", "Varchar">> /\ Columns(a, ta)[2] = <<"_parent_id", "Varchar">>
        /\ Columns(b, tb)[1] = <<"_content_hash", "Varchar">>
    BY <2>2, <2>3, <2>4
  <2> QED
    BY <2>3, <2>5 DEF a, b, ta, tb
<1>4. IsSeq(middle) /\ Len(middle) = n
  <2>1. middle = [i \in 1..n |-> middle[i]]
    BY <1>1
  <2> HIDE DEF middle, n
  <2> QED
    BY <1>1, <2>1, SequenceOf
<1>5. \A i \in 1..n : middle[i] = <<g.headings[i], Emit(TypeOf(g, i))>>
  BY <1>1
<1>6. /\ IsSeq(columns) /\ Len(columns) = n + 3 /\ DOMAIN columns = 1..n + 3
      /\ columns[1] = front[1] /\ columns[2] = front[2] /\ columns[n + 3] = back[1]
      /\ \A i \in 1..n : columns[i + 2] = middle[i]
  <2> HIDE DEF columns, front, middle, back, n
  <2>1. Between(front \o middle \o back, front, middle, back)
    BY <1>3, <1>4, Sandwich
  <2> QED
    BY <1>2, <1>4, <2>1 DEF Between
<1>7. ASSUME NEW r \in 1..Len(g.rows)
      PROVE  /\ Len(rows[r]) = n + 3 /\ DOMAIN rows[r] = 1..n + 3
             /\ rows[r][1] = Ids(f, code)[1] /\ rows[r][2] = Ids(f, code)[2]
             /\ rows[r][n + 3] = Str("hash")
             /\ \A i \in 1..n : rows[r][i + 2][1] \in {"Null", Emit(TypeOf(g, i))}
  <2> DEFINE ids == Ids(f, code)
             hash == <<Str("hash")>>
  <2>1. rows[r] = ids \o cells(r) \o hash
    <3> HIDE DEF ids, hash, cells, rows
    <3>1. rows = [k \in DOMAIN g.rows |-> ids \o cells(k) \o hash]
      BY <1>2 DEF ids, hash
    <3> QED
      BY <1>1, <3>1
  <2>2. IsSeq(ids) /\ Len(ids) = 2
    <3>1. \E x, y : Ids(f, code) = <<x, y>>
      BY DEF Ids
    <3>2. ASSUME NEW x, NEW y PROVE IsSeq(<<x, y>>) /\ Len(<<x, y>>) = 2
      BY DEF IsSeq, ToSet
    <3> HIDE DEF ids
    <3>3. PICK x, y : ids = <<x, y>>
      BY <3>1 DEF ids
    <3> QED
      BY <3>2, <3>3
  <2>3. IsSeq(hash) /\ Len(hash) = 1 /\ hash[1] = Str("hash")
    <3>1. ASSUME NEW x PROVE IsSeq(<<x>>) /\ Len(<<x>>) = 1
      BY DEF IsSeq, ToSet
    <3> QED
      BY <3>1
  <2>4. IsSeq(cells(r)) /\ Len(cells(r)) = n
    <3> DEFINE these == cells(r)
    <3>1. these = [i \in 1..n |-> these[i]]
      BY <1>1
    <3> HIDE DEF these, n
    <3>2. IsSeq(these) /\ Len(these) = n
      BY <1>1, <3>1, SequenceOf
    <3> QED
      BY <3>2 DEF these
  <2>5. \A i \in 1..n : cells(r)[i] = cell(r, i)
    BY <1>1
  <2>6. \A i \in 1..n : cells(r)[i][1] \in {"Null", Emit(TypeOf(g, i))}
    BY <2>5, CellFits
  <2> DEFINE these == cells(r)
             row == rows[r]
  <2> HIDE DEF ids, hash, these, row, n
  <2>7. row = ids \o these \o hash
    BY <2>1 DEF these, row
  <2>8. IsSeq(these) /\ Len(these) = n /\ \A i \in 1..n : these[i][1] \in {"Null", Emit(TypeOf(g, i))}
    BY <2>4, <2>6 DEF these
  <2>9. Between(ids \o these \o hash, ids, these, hash)
    BY <2>2, <2>3, <2>8, Sandwich
  <2>10. /\ Len(row) = n + 3 /\ DOMAIN row = 1..n + 3
         /\ row[1] = ids[1] /\ row[2] = ids[2] /\ row[n + 3] = Str("hash")
         /\ \A i \in 1..n : row[i + 2] = these[i]
    BY <2>3, <2>7, <2>8, <2>9 DEF Between
  <2>11. \A i \in 1..n : row[i + 2][1] \in {"Null", Emit(TypeOf(g, i))}
    BY <2>8, <2>10
  <2> QED
    BY <2>10, <2>11 DEF row, ids
<1>8. IsSeq(rows) /\ Len(rows) = Len(g.rows) /\ ToSet(rows) = {rows[r] : r \in 1..Len(g.rows)}
  <2>1. rows = [r \in 1..Len(g.rows) |-> rows[r]]
    BY <1>1, <1>2
  <2> HIDE DEF rows
  <2> QED
    BY <1>1, <2>1, SequenceOf
<1> HIDE DEF rows, columns, n, front, middle, back
<1>9. \A row \in ToSet(rows) :
        /\ Len(row) = n + 3 /\ DOMAIN row = 1..n + 3
        /\ row[1] = Ids(f, code)[1] /\ row[2] = Ids(f, code)[2] /\ row[n + 3] = Str("hash")
        /\ \A i \in 1..n : row[i + 2][1] \in {"Null", Emit(TypeOf(g, i))}
  BY <1>7, <1>8
<1>10. /\ columns[1] = <<"_id", "Varchar">> /\ columns[2] = <<"_parent_id", "Varchar">>
       /\ columns[n + 3] = <<"_content_hash", "Varchar">>
       /\ \A i \in 1..n : columns[i + 2] = <<g.headings[i], Emit(TypeOf(g, i))>>
  BY <1>3, <1>5, <1>6
<1> QED
  BY <1>1, <1>6, <1>8, <1>9, <1>10 DEF n, columns, rows

LEMMA IdsFit ==
  ASSUME NEW f, NEW code
  PROVE  Ids(f, code)[1][1] \in {"Null", "Varchar"} /\ Ids(f, code)[2][1] \in {"Null", "Varchar"}
<1>1. ASSUME NEW k, NEW p PROVE Linked(k, p)[1] \in {"Null", "Varchar"}
  BY DEF Linked, Null, Str
<1>2. CASE InRegistry(code)
  BY <1>1, <1>2 DEF Ids, Str
<1>3. CASE ~InRegistry(code)
  BY <1>1, <1>3 DEF Ids, Null, Str
<1> QED
  BY <1>2, <1>3

LEMMA TableFits ==
  ASSUME NEW f, WellFormed(f), NEW code \in DOMAIN f.groups
  PROVE  Fits(BuildTable(f, code))
<1> DEFINE g == f.groups[code]
           n == Len(g.headings)
           columns == BuildTable(f, code).columns
           rows == BuildTable(f, code).rows
<1>1. /\ n \in Nat /\ DOMAIN g.headings = 1..n
      /\ IsSeq(columns) /\ Len(columns) = n + 3 /\ DOMAIN columns = 1..n + 3
      /\ columns[1] = <<"_id", "Varchar">> /\ columns[2] = <<"_parent_id", "Varchar">>
      /\ columns[n + 3] = <<"_content_hash", "Varchar">>
      /\ \A i \in 1..n : columns[i + 2] = <<g.headings[i], Emit(TypeOf(g, i))>>
      /\ IsSeq(rows)
      /\ \A row \in ToSet(rows) :
           /\ Len(row) = n + 3 /\ DOMAIN row = 1..n + 3
           /\ row[1] = Ids(f, code)[1] /\ row[2] = Ids(f, code)[2] /\ row[n + 3] = Str("hash")
           /\ \A i \in 1..n : row[i + 2][1] \in {"Null", Emit(TypeOf(g, i))}
  BY TableIs
<1>2. ToSet(g.headings) \cap NulNames = {}
  BY DEF WellFormed
<1> HIDE DEF n, columns, rows
<1>3. ASSUME NEW i \in 1..n + 3
      PROVE  i = 1 \/ i = 2 \/ i = n + 3 \/ \E j \in 1..n : i = j + 2
  <2>1. CASE i > 2 /\ i # n + 3
    <3>1. i - 2 \in 1..n /\ i = (i - 2) + 2
      BY <1>1, <2>1
    <3> QED
      BY <3>1
  <2> QED
    BY <2>1
<1>4. ASSUME NEW i \in 1..n + 3 PROVE columns[i][1] \notin NulNames
  <2>1. "_id" \notin NulNames /\ "_parent_id" \notin NulNames /\ "_content_hash" \notin NulNames
    BY FixedNamesAssumption DEF FixedNames
  <2>2. ASSUME NEW j \in 1..n PROVE columns[j + 2][1] \notin NulNames
    <3>1. columns[j + 2][1] = g.headings[j] /\ g.headings[j] \in ToSet(g.headings)
      <4>1. columns[j + 2] = <<g.headings[j], Emit(TypeOf(g, j))>> /\ j \in DOMAIN g.headings
        BY <1>1
      <4>2. g.headings[j] \in ToSet(g.headings)
        BY <4>1 DEF ToSet
      <4> QED
        BY <4>1, <4>2
    <3> QED
      BY <1>2, <3>1
  <2>3. columns[1][1] \notin NulNames /\ columns[2][1] \notin NulNames /\ columns[n + 3][1] \notin NulNames
    BY <1>1, <2>1
  <2> QED
    BY <1>3, <2>2, <2>3
<1>5. ASSUME NEW row \in ToSet(rows), NEW i \in 1..n + 3 PROVE row[i][1] \in {"Null", columns[i][2]}
  <2>1. row[1][1] \in {"Null", columns[1][2]} /\ row[2][1] \in {"Null", columns[2][2]}
    BY <1>1, IdsFit
  <2>2. row[n + 3][1] \in {"Null", columns[n + 3][2]}
    BY <1>1 DEF Str
  <2>3. ASSUME NEW j \in 1..n PROVE row[j + 2][1] \in {"Null", columns[j + 2][2]}
    <3>1. row[j + 2][1] \in {"Null", Emit(TypeOf(g, j))} /\ columns[j + 2][2] = Emit(TypeOf(g, j))
      BY <1>1
    <3> QED
      BY <3>1
  <2> QED
    BY <1>3, <2>1, <2>2, <2>3
<1>6. \A c \in ToSet(columns) : c[1] \notin NulNames
  BY <1>1, <1>4 DEF ToSet
<1>7. \A row \in ToSet(rows) : RowFits(row, columns)
  BY <1>1, <1>5 DEF RowFits
<1> QED
  BY <1>1, <1>6, <1>7 DEF Fits, columns, rows

\* Whatever function is called, and over whatever file: the answer's rows fit
\* the answer's columns.
LEMMA ProducerFits ==
  ASSUME NEW f, WellFormed(f), NEW call, call.fn \in TableFunctions, Producer(f, call) # Refused
  PROVE  Fits(Producer(f, call))
<1>1. CASE call.fn \in {"read_ags", "read_ags_text"}
  <2> DEFINE code == Canonical(call.arg)
  <2>1. Producer(f, call) = ReadGroup(f, code)
    BY <1>1 DEF Producer
  <2>2. code \in DOMAIN f.groups /\ ReadGroup(f, code) = BuildTable(f, code)
    BY <2>1 DEF ReadGroup
  <2> QED
    BY <2>1, <2>2, TableFits
<1>2. CASE call.fn = "ags_groups"
  BY <1>2, GroupsFit DEF Producer
<1>3. CASE call.fn = "ags_headings"
  BY <1>3, HeadingsFit DEF Producer
<1>4. CASE call.fn = "ags_dictionary"
  <2> DEFINE edition == Canonical(call.arg)
  <2>1. Producer(f, call) = AgsDictionary(edition)
    BY <1>4 DEF Producer
  <2>2. \E entries \in {Registry} \cup {Bundled[e] : e \in DOMAIN Bundled} : AgsDictionary(edition) = Dictionary(entries)
    BY <2>1 DEF AgsDictionary, ParseEdition
  <2> QED
    BY <2>1, <2>2, DictionaryFits, DictionariesAssumption DEF IsDictionary
<1>5. CASE call.fn = "ags_relationships"
  BY <1>5, RelationshipsFit DEF Producer
<1>6. CASE call.fn = "ags_rules"
  BY <1>6, RulesFit DEF Producer
<1> QED
  BY <1>1, <1>2, <1>3, <1>4, <1>5, <1>6 DEF TableFunctions

-----------------------------------------------------------------------------
\* The inductive invariant: a scan that is open is of a statement with an
\* answer, its cursor is what it has emitted and within the rows, and while
\* func writes, the position it loaded is still the cursor; the rows of its
\* last chunk are rows of its statement's answer.
ScanInv(s) ==
  /\ emitted[s] = [i \in 1..cursor[s] |-> i]
  /\ pc[s] # "closed" => Answered(of[s]) /\ cursor[s] <= Len(Rows(s))
  /\ pc[s] = "writing" => start[s] = cursor[s]
  /\ pc[s] = "ended" => cursor[s] = Len(Rows(s))

Served(s) ==
  \A i \in DOMAIN chunk[s] : Answered(of[s]) /\ chunk[s][i] \in ToSet(Rows(s))

Shape ==
  /\ session \in Sessions
  /\ data \in [Statements -> {NoData} \cup {Producer(File, CallOf(q)) : q \in Statements}]
  /\ \A q \in Statements : data[q] = NoData \/ data[q] = Producer(File, CallOf(q))
  /\ of \in [Scans -> Statements]
  /\ pc \in [Scans -> {"closed", "ready", "writing", "ended"}]
  /\ cursor \in [Scans -> Nat]
  /\ start \in [Scans -> Nat]
  /\ DOMAIN chunk = Scans
  /\ \A s \in Scans : Len(chunk[s]) \in 0..VectorSize
  /\ DOMAIN emitted = Scans
  /\ scans \in 0..session.scans

IInv == Shape /\ \A s \in Scans : ScanInv(s) /\ Served(s)

-----------------------------------------------------------------------------
(* What the answers say of each other *)

\* A statement with an answer has the answer of its function.
LEMMA AnswerOf ==
  ASSUME Shape, NEW q \in Statements, Answered(q)
  PROVE  /\ data[q] = Producer(File, CallOf(q)) /\ data[q] # Refused
         /\ WellFormed(File) /\ CallOf(q).fn \in TableFunctions
<1>1. session \in Sessions /\ data[q] = Producer(File, CallOf(q)) /\ data[q] # Refused
  BY DEF Shape, Answered
<1> QED
  BY <1>1, FilesAssumption, SessionsAssumption DEF File, CallOf

LEMMA TableOf ==
  ASSUME Shape, NEW t \in Statements, IsTable(t)
  PROVE  /\ WellFormed(File) /\ GroupOf(t) \in DOMAIN File.groups
         /\ data[t] = BuildTable(File, GroupOf(t))
<1>1. data[t] = Producer(File, CallOf(t)) /\ data[t] # Refused /\ WellFormed(File)
  BY AnswerOf DEF IsTable, Is
<1>2. data[t] = ReadGroup(File, GroupOf(t))
  BY <1>1 DEF IsTable, Is, Producer, GroupOf
<1> QED
  BY <1>1, <1>2 DEF ReadGroup

\* The rows of ags_groups: one for each group.
LEMMA GroupRows ==
  ASSUME NEW f, WellFormed(f), NEW row \in ToSet(AgsGroups(f).rows)
  PROVE  \E code \in DOMAIN f.groups :
           row = <<Str(code), Num(Len(f.groups[code].rows)), Num(Len(f.groups[code].headings)),
                   Opt(ParentOf(f, code))>>
<1> DEFINE Row(code) == <<Str(code), Num(Len(f.groups[code].rows)), Num(Len(f.groups[code].headings)),
                          Opt(ParentOf(f, code))>>
<1>1. AgsGroups(f).rows = [n \in DOMAIN f.order |-> Row(f.order[n])]
  BY DEF AgsGroups, Answer
<1> HIDE DEF Row
<1>2. PICK n \in DOMAIN f.order : row = Row(f.order[n])
  BY <1>1 DEF ToSet
<1>3. f.order[n] \in DOMAIN f.groups
  BY DEF WellFormed, ToSet
<1> QED
  BY <1>2, <1>3 DEF Row

\* The rows of ags_headings that are about one group.
LEMMA RowsAbout ==
  ASSUME NEW f, WellFormed(f), NEW code \in DOMAIN f.groups
  PROVE  {row \in ToSet(AgsHeadings(f).rows) : row[1] = Str(code)} =
           {HeadingRow(f, code, i) : i \in 1..Len(f.groups[code].headings)}
<1> DEFINE Of(c) == {HeadingRow(f, c, i) : i \in 1..Len(f.groups[c].headings)}
<1>1. ToSet(AgsHeadings(f).rows) = UNION {Of(c) : c \in ToSet(f.order)}
  BY HeadingRows
<1>2. ASSUME NEW c, NEW row \in Of(c) PROVE row[1] = Str(c)
  <2>1. PICK i \in 1..Len(f.groups[c].headings) : row = HeadingRow(f, c, i)
    BY <1>2
  <2>2. HeadingRow(f, c, i)[1] = Str(c)
    BY DEF HeadingRow
  <2> QED
    BY <2>1, <2>2
<1>3. \A c : Str(c) = Str(code) => c = code
  BY DEF Str
<1>4. code \in ToSet(f.order)
  BY DEF WellFormed
<1> HIDE DEF Of
<1>5. {row \in ToSet(AgsHeadings(f).rows) : row[1] = Str(code)} = Of(code)
  BY <1>1, <1>2, <1>3, <1>4
<1> QED
  BY <1>5 DEF Of

\* s numbers the elements of T from 1 to n.
Numbers(s, n, T) == T = {s[i] : i \in 1..n} /\ \A i, j \in 1..n : s[i] = s[j] => i = j

LEMMA Counted ==
  ASSUME NEW n \in Nat, NEW s, NEW T, Numbers(s, n, T)
  PROVE  Cardinality(T) = n
<1> DEFINE b == [i \in 1..n |-> s[i]]
<1>1. b \in Bijection(1..n, T)
  <2>1. b \in [1..n -> T]
    BY DEF Numbers
  <2>2. \A i, j \in 1..n : b[i] = b[j] => i = j
    BY DEF Numbers
  <2>3. \A x \in T : \E i \in 1..n : b[i] = x
    BY DEF Numbers
  <2> HIDE DEF b
  <2> QED
    BY <2>1, <2>2, <2>3 DEF Bijection, Injection, Surjection, IsInjective
<1>2. IsFiniteSet(1..n) /\ Cardinality(1..n) = n
  BY FS_Interval
<1> HIDE DEF b
<1>3. Cardinality(T) = Cardinality(1..n)
  BY <1>1, <1>2, FS_Bijection DEF ExistsBijection
<1> QED
  BY <1>2, <1>3

\* One row of ags_headings beside its column.
LEMMA HeadingIsColumn ==
  ASSUME NEW f, WellFormed(f), NEW code \in DOMAIN f.groups,
         NEW i \in 1..Len(f.groups[code].headings)
  PROVE  LET row == HeadingRow(f, code, i)
             column == BuildTable(f, code).columns[row[8][2] + 3]
         IN /\ row[2] = Str(column[1])
            /\ IF row[4] = Str("datetime") THEN column[2] = "Varchar" ELSE row[5] = Str(column[2])
<1> DEFINE g == f.groups[code]
           row == HeadingRow(f, code, i)
           columns == BuildTable(f, code).columns
           type == IF i \in DOMAIN g.types THEN g.types[i] ELSE ""
<1>1. /\ row[2] = Str(g.headings[i]) /\ row[4] = Str(type) /\ row[5] = Str(SqlType(type, UnitOf(g, i)))
      /\ row[8] = <<"BigInt", i - 1>>
  BY DEF HeadingRow, Num
<1>2. Len(g.headings) \in Nat /\ \A j \in 1..Len(g.headings) : columns[j + 2] = <<g.headings[j], Emit(TypeOf(g, j))>>
  BY TableIs
<1> HIDE DEF row, columns, g, type
<1>3. row[8][2] + 3 = i + 2
  BY <1>1, <1>2 DEF g
<1>4. columns[row[8][2] + 3] = <<g.headings[i], Emit(TypeOf(g, i))>>
  BY <1>2, <1>3 DEF g
<1>5. Emit(TypeOf(g, i)) = Emit(type)
  BY DEF TypeOf, Emit, type
<1>6. IF type = "datetime" THEN Emit(type) = "Varchar" ELSE SqlType(type, UnitOf(g, i)) = Emit(type)
  BY DEF Emit, SqlType
<1>7. row[4] = Str("datetime") <=> type = "datetime"
  BY <1>1 DEF Str
<1>8. /\ row[2] = Str(g.headings[i])
      /\ IF row[4] = Str("datetime") THEN Emit(TypeOf(g, i)) = "Varchar"
                                     ELSE row[5] = Str(Emit(TypeOf(g, i)))
  BY <1>1, <1>5, <1>6, <1>7
<1> QED
  BY <1>4, <1>8 DEF row, columns

LEMMA StructureDescribes ==
  Shape => StructureDescribesTables
<1> SUFFICES ASSUME Shape, NEW q \in Statements, NEW t \in Statements, IsTable(t)
             PROVE  LET columns == data[t].columns
                    IN /\ Is(q, "ags_groups") =>
                            \A row \in About(q, GroupOf(t)) :
                              row[2] = Num(Len(data[t].rows)) /\ row[3] = Num(Len(columns) - 3)
                       /\ Is(q, "ags_headings") =>
                            /\ Cardinality(About(q, GroupOf(t))) = Len(columns) - 3
                            /\ \A row \in About(q, GroupOf(t)) :
                                 LET column == columns[row[8][2] + 3]
                                 IN /\ row[2] = Str(column[1])
                                    /\ IF row[4] = Str("datetime") THEN column[2] = "Varchar"
                                                                   ELSE row[5] = Str(column[2])
  BY DEF StructureDescribesTables
<1> DEFINE f == File
           code == GroupOf(t)
           n == Len(f.groups[code].headings)
<1>1. WellFormed(f) /\ code \in DOMAIN f.groups /\ data[t] = BuildTable(f, code)
  BY TableOf
<1>2. n \in Nat /\ Len(data[t].columns) = n + 3 /\ Len(data[t].rows) = Len(f.groups[code].rows)
  BY <1>1, TableIs
<1> HIDE DEF f, code
<1>3. Len(data[t].columns) - 3 = n
  BY <1>2
<1>4. ASSUME Is(q, "ags_groups"), NEW row \in About(q, code)
      PROVE  row[2] = Num(Len(data[t].rows)) /\ row[3] = Num(Len(data[t].columns) - 3)
  <2>1. data[q] = AgsGroups(f)
    BY <1>4, AnswerOf DEF Is, Producer, f
  <2>2. PICK c \in DOMAIN f.groups :
          row = <<Str(c), Num(Len(f.groups[c].rows)), Num(Len(f.groups[c].headings)), Opt(ParentOf(f, c))>>
    BY <1>1, <2>1, GroupRows DEF About
  <2>3. c = code
    BY <2>2 DEF About, Str
  <2> QED
    BY <1>2, <1>3, <2>2, <2>3
<1>5. ASSUME Is(q, "ags_headings")
      PROVE  About(q, code) = {HeadingRow(f, code, i) : i \in 1..n}
  <2>1. data[q] = AgsHeadings(f)
    BY <1>5, AnswerOf DEF Is, Producer, f
  <2> QED
    BY <1>1, <2>1, RowsAbout DEF About
<1>6. Cardinality({HeadingRow(f, code, i) : i \in 1..n}) = n
  <2> DEFINE s == [i \in 1..n |-> HeadingRow(f, code, i)]
             T == {HeadingRow(f, code, i) : i \in 1..n}
  <2>1. ASSUME NEW i \in 1..n, NEW j \in 1..n, s[i] = s[j] PROVE i = j
    <3>1. HeadingRow(f, code, i)[8] = <<"BigInt", i - 1>> /\ HeadingRow(f, code, j)[8] = <<"BigInt", j - 1>>
      BY DEF HeadingRow, Num
    <3>2. i - 1 = j - 1
      BY <2>1, <3>1
    <3> QED
      BY <3>2
  <2>2. T = {s[i] : i \in 1..n}
    OBVIOUS
  <2>3. \A i, j \in 1..n : s[i] = s[j] => i = j
    BY <2>1
  <2> HIDE DEF s, n, T
  <2>4. Numbers(s, n, T)
    BY <2>2, <2>3 DEF Numbers
  <2>5. Cardinality(T) = n
    BY <1>2, <2>4, Counted
  <2> QED
    BY <2>5 DEF T
<1>7. ASSUME Is(q, "ags_headings"), NEW row \in About(q, code)
      PROVE  LET column == data[t].columns[row[8][2] + 3]
             IN /\ row[2] = Str(column[1])
                /\ IF row[4] = Str("datetime") THEN column[2] = "Varchar" ELSE row[5] = Str(column[2])
  <2>1. PICK i \in 1..n : row = HeadingRow(f, code, i)
    BY <1>5, <1>7
  <2> QED
    BY <1>1, <2>1, HeadingIsColumn
<1> HIDE DEF n
<1> QED
  BY <1>3, <1>4, <1>5, <1>6, <1>7 DEF code

\* A group's entry is the only one of its code, and no code is empty.
LEMMA EntryIs ==
  ASSUME NEW e \in ToSet(Registry)
  PROVE  /\ Entries(e.code) = {e} /\ InRegistry(e.code) /\ Entry(e.code) = e
         /\ e.code # "" /\ ~InRegistry("")
<1>1. ASSUME NEW d \in ToSet(Registry), d.code = e.code PROVE d = e
  <2>1. PICK i \in DOMAIN Registry : Registry[i] = e
    BY DEF ToSet
  <2>2. PICK j \in DOMAIN Registry : Registry[j] = d
    BY DEF ToSet
  <2>3. i = j
    BY <1>1, <2>1, <2>2, RegistryAssumption
  <2> QED
    BY <2>1, <2>2, <2>3
<1>2. Entries(e.code) = {e}
  BY <1>1 DEF Entries
<1>3. \A d \in ToSet(Registry) : d.code # ""
  BY RegistryAssumption
<1> QED
  BY <1>2, <1>3 DEF InRegistry, Entry, Entries

\* Only a heading with KEY status is shown as a key, and its group has an id.
LEMMA KeyHasId ==
  ASSUME NEW f, NEW code, NEW i, HeadingRow(f, code, i)[7] = Flag(TRUE)
  PROVE  Ids(f, code)[1] = Str("id")
<1> DEFINE heading == f.groups[code].headings[i]
           status == StatusOf(f, code, heading)
<1>1. HeadingRow(f, code, i)[7] = Flag(IsKey(status))
  BY DEF HeadingRow
<1>2. IsKey(status)
  <2> HIDE DEF status
  <2> SUFFICES ASSUME ~IsKey(status) PROVE FALSE
    OBVIOUS
  <2>1. IsKey(status) = FALSE
    BY DEF IsKey
  <2>2. Flag(FALSE) = Flag(TRUE)
    BY <1>1, <2>1
  <2>3. Flag(FALSE)[2] = FALSE /\ Flag(TRUE)[2] = TRUE
    BY DEF Flag
  <2> QED
    BY <2>2, <2>3
<1>3. CASE InRegistry(code)
  BY <1>3 DEF Ids
<1>4. CASE ~InRegistry(code)
  <2> DEFINE declared == DeclaredStatus(f, code, heading)
  <2>1. RegistryStatus(code, heading) = {}
    <3>1. Entries(code) = {}
      BY <1>4 DEF InRegistry
    <3> QED
      BY <3>1 DEF RegistryStatus
  <2>2. declared # {}
    <3>1. CASE declared = {}
      <4>1. status \in {"OTHER"}
        BY <2>1, <3>1 DEF StatusOf
      <4> HIDE DEF status
      <4> QED
        BY <1>2, <4>1 DEF IsKey
    <3> QED
      BY <3>1
  <2>3. status \in declared
    BY <2>1, <2>2 DEF StatusOf
  <2>4. /\ code \in DOMAIN f.dict /\ heading \in DOMAIN f.dict[code].status
        /\ declared = {f.dict[code].status[heading]}
    BY <2>2 DEF DeclaredStatus
  <2>5. IsKey(f.dict[code].status[heading])
    <3> HIDE DEF status, declared
    <3> QED
      BY <1>2, <2>3, <2>4
  <2>6. heading \in DeclaredKeys(f, code)
    <3> HIDE DEF heading
    <3> QED
      BY <2>4, <2>5 DEF DeclaredKeys
  <2> QED
    BY <1>4, <2>6 DEF Ids
<1> QED
  BY <1>3, <1>4

\* A group whose rows link to a parent has a parent that ags_groups names.
LEMMA LinkHasParent ==
  ASSUME NEW f, NEW code, Ids(f, code)[2] # Null
  PROVE  ParentOf(f, code) # ""
<1>1. ASSUME NEW k PROVE Linked(k, {}) = Null
  BY DEF Linked
<1>2. CASE InRegistry(code)
  <2> DEFINE e == Entry(code)
  <2>1. e \in ToSet(Registry) /\ e.code = code
    BY <1>2 DEF InRegistry, Entry, Entries
  <2>2. Ids(f, code)[2] = Linked(RegistryKeys(code), RegistryKeys(e.parent))
    BY <1>2 DEF Ids
  <2>3. RegistryKeys("") = {}
    <3>1. Entries("") = {}
      BY <2>1, EntryIs DEF InRegistry
    <3> QED
      BY <3>1 DEF RegistryKeys
  <2>4. e.parent # ""
    BY <1>1, <2>2, <2>3
  <2> QED
    BY <1>2, <2>4 DEF ParentOf
<1>3. CASE ~InRegistry(code)
  <2>1. DeclaredKeys(f, code) # {}
    BY <1>3 DEF Ids
  <2>2. Ids(f, code)[2] = Linked(DeclaredKeys(f, code), ParentKeys(f, FileParent(f, code)))
    BY <1>3, <2>1 DEF Ids
  <2>3. FileParent(f, code) # ""
    BY <1>1, <2>2 DEF ParentKeys
  <2> QED
    BY <1>3, <2>3 DEF ParentOf
<1> QED
  BY <1>2, <1>3

LEMMA IdsFollow ==
  Shape => IdsFollowDeclarations
<1> SUFFICES ASSUME Shape, NEW q \in Statements, NEW t \in Statements, IsTable(t)
             PROVE  /\ Is(q, "ags_headings") /\ (\E row \in About(q, GroupOf(t)) : row[7] = Flag(TRUE)) =>
                         \A row \in ToSet(data[t].rows) : row[1] # Null
                    /\ Is(q, "ags_groups") /\ (\E row \in ToSet(data[t].rows) : row[2] # Null) =>
                         \A row \in About(q, GroupOf(t)) : row[4] # Null
  BY DEF IdsFollowDeclarations
<1> DEFINE f == File
           code == GroupOf(t)
<1>1. WellFormed(f) /\ code \in DOMAIN f.groups /\ data[t] = BuildTable(f, code)
  BY TableOf
<1>2. \A row \in ToSet(data[t].rows) : row[1] = Ids(f, code)[1] /\ row[2] = Ids(f, code)[2]
  BY <1>1, TableIs
<1> HIDE DEF f, code
<1>3. ASSUME Is(q, "ags_headings"), NEW h \in About(q, code), h[7] = Flag(TRUE),
             NEW row \in ToSet(data[t].rows)
      PROVE  row[1] # Null
  <2>1. data[q] = AgsHeadings(f)
    BY <1>3, AnswerOf DEF Is, Producer, f
  <2>2. PICK i \in 1..Len(f.groups[code].headings) : h = HeadingRow(f, code, i)
    BY <1>1, <2>1, RowsAbout DEF About
  <2>3. Ids(f, code)[1] = Str("id")
    BY <1>3, <2>2, KeyHasId
  <2>4. Str("id") # Null
    BY DEF Str, Null
  <2> QED
    BY <1>2, <2>3, <2>4
<1>4. ASSUME Is(q, "ags_groups"), NEW linked \in ToSet(data[t].rows), linked[2] # Null,
             NEW row \in About(q, code)
      PROVE  row[4] # Null
  <2>1. data[q] = AgsGroups(f)
    BY <1>4, AnswerOf DEF Is, Producer, f
  <2>2. PICK c \in DOMAIN f.groups :
          row = <<Str(c), Num(Len(f.groups[c].rows)), Num(Len(f.groups[c].headings)), Opt(ParentOf(f, c))>>
    BY <1>1, <2>1, GroupRows DEF About
  <2>3. c = code
    BY <2>2 DEF About, Str
  <2>4. ParentOf(f, code) # ""
    BY <1>2, <1>4, LinkHasParent
  <2>5. row[4] = Opt(ParentOf(f, code))
    BY <2>2, <2>3
  <2>6. row[4] = Str(ParentOf(f, code))
    BY <2>4, <2>5 DEF Opt
  <2>7. Str(ParentOf(f, code))[1] = "Varchar" /\ Null[1] = "Null"
    BY DEF Str, Null
  <2> QED
    BY <2>6, <2>7
<1> QED
  BY <1>3, <1>4 DEF code

\* The status of a heading that the registry has is the registry's.
LEMMA RegistryFirst ==
  ASSUME NEW f, NEW e \in ToSet(Registry), NEW i \in DOMAIN e.headings
  PROVE  StatusOf(f, e.code, e.headings[i].name) = e.headings[i].status
<1> DEFINE h == e.headings[i]
           named == {k \in ToSet(e.headings) : k.name = h.name}
<1>1. h \in ToSet(e.headings)
  BY DEF ToSet
<1>2. named = {h}
  <2> HIDE DEF h
  <2> QED
    BY <1>1, RegistryAssumption
<1>3. UNION {ToSet(d.headings) : d \in Entries(e.code)} = ToSet(e.headings)
  <2>1. Entries(e.code) = {e}
    BY EntryIs
  <2> QED
    BY <2>1
<1>4. RegistryStatus(e.code, h.name) = {h.status}
  <2>1. RegistryStatus(e.code, h.name) = {k.status : k \in named}
    BY <1>3 DEF RegistryStatus
  <2> HIDE DEF h, named
  <2> QED
    BY <1>2, <2>1
<1> HIDE DEF h, named
<1>5. StatusOf(f, e.code, h.name) = h.status
  BY <1>4 DEF StatusOf
<1> QED
  BY <1>5 DEF h

LEMMA DictionaryAgreesWith ==
  Shape => DictionaryAgrees
<1> SUFFICES ASSUME Shape, NEW q \in Statements, NEW t \in Statements,
                    Is(q, "ags_dictionary"), GroupOf(q) = "", NEW row \in ToSet(data[q].rows)
             PROVE  /\ Is(t, "ags_headings") =>
                         \A r \in ToSet(data[t].rows) : r[1] = row[1] /\ r[2] = row[3] => r[6] = row[4]
                    /\ Is(t, "ags_relationships") /\ row[2] # Null =>
                         \E r \in ToSet(data[t].rows) : r[1] = row[1] /\ r[2] = row[2]
  BY DEF DictionaryAgrees
<1>1. data[q] = Dictionary(Registry)
  <2>1. data[q] = Producer(File, CallOf(q))
    BY AnswerOf DEF Is
  <2>2. CallOf(q).fn = "ags_dictionary" /\ Canonical(CallOf(q).arg) = ""
    BY DEF Is, GroupOf
  <2>3. data[q] = AgsDictionary("")
    BY <2>1, <2>2 DEF Producer
  <2> QED
    BY <2>3 DEF AgsDictionary
<1>2. PICK e \in ToSet(Registry) : \E i \in DOMAIN e.headings : row = DictionaryRow(e, i)
  <2>1. IsDictionary(Registry)
    BY DictionariesAssumption DEF IsDictionary
  <2>2. row \in UNION {{DictionaryRow(e, i) : i \in DOMAIN e.headings} : e \in ToSet(Registry)}
    BY <1>1, <2>1, DictionaryRows
  <2> QED
    BY <2>2
<1>0. PICK i \in DOMAIN e.headings : row = DictionaryRow(e, i)
  BY <1>2
<1> DEFINE h == e.headings[i]
<1>3. row[1] = Str(e.code) /\ row[2] = Opt(e.parent) /\ row[3] = Str(h.name) /\ row[4] = Str(h.status)
  BY <1>0 DEF DictionaryRow
<1> HIDE DEF h
<1>4. ASSUME Is(t, "ags_headings"), NEW r \in ToSet(data[t].rows), r[1] = row[1], r[2] = row[3]
      PROVE  r[6] = row[4]
  <2>1. data[t] = AgsHeadings(File) /\ WellFormed(File)
    BY <1>4, AnswerOf DEF Is, Producer
  <2>2. PICK code, j : r = HeadingRow(File, code, j)
    <3>1. r \in UNION {{HeadingRow(File, code, j) : j \in 1..Len(File.groups[code].headings)} :
                       code \in ToSet(File.order)}
      BY <1>4, <2>1, HeadingRows
    <3> QED
      BY <3>1
  <2> DEFINE name == File.groups[code].headings[j]
  <2>3. r[1] = Str(code) /\ r[2] = Str(name) /\ r[6] = Str(StatusOf(File, code, name))
    BY <2>2 DEF HeadingRow
  <2> HIDE DEF name
  <2>4. code = e.code /\ name = h.name
    <3>1. Str(code) = Str(e.code) /\ Str(name) = Str(h.name)
      BY <1>3, <1>4, <2>3
    <3> QED
      BY <3>1 DEF Str
  <2>5. StatusOf(File, code, name) = h.status
    BY <2>4, RegistryFirst DEF h
  <2> QED
    BY <1>3, <2>3, <2>5
<1>5. ASSUME Is(t, "ags_relationships"), row[2] # Null
      PROVE  \E r \in ToSet(data[t].rows) : r[1] = row[1] /\ r[2] = row[2]
  <2>1. data[t] = AgsRelationships
    BY <1>5, AnswerOf DEF Is, Producer
  <2>2. e.parent # "" /\ row[2] = Str(e.parent)
    BY <1>3, <1>5 DEF Opt
  <2>3. ChildRow(e) \in ToSet(data[t].rows)
    BY <2>1, <2>2, RelationshipRows
  <2>4. ChildRow(e)[1] = Str(e.code) /\ ChildRow(e)[2] = Str(e.parent)
    BY DEF ChildRow
  <2> QED
    BY <1>3, <2>2, <2>3, <2>4
<1> QED
  BY <1>4, <1>5

-----------------------------------------------------------------------------
LEMMA MaxOfTwo ==
  ASSUME NEW a \in Int, NEW b \in Int
  PROVE  Max({a, b}) = IF a >= b THEN a ELSE b
<1> DEFINE m == IF a >= b THEN a ELSE b
<1>1. m \in {a, b} /\ \A y \in {a, b} : m >= y
  OBVIOUS
<1>2. ASSUME NEW x \in {a, b}, \A y \in {a, b} : x >= y PROVE x = m
  BY <1>2
<1> QED
  BY <1>1, <1>2 DEF Max

LEMMA MinOfTwo ==
  ASSUME NEW a \in Int, NEW b \in Int
  PROVE  Min({a, b}) = IF a <= b THEN a ELSE b
<1> DEFINE m == IF a <= b THEN a ELSE b
<1>1. m \in {a, b} /\ \A y \in {a, b} : m <= y
  OBVIOUS
<1>2. ASSUME NEW x \in {a, b}, \A y \in {a, b} : x <= y PROVE x = m
  BY <1>2
<1> QED
  BY <1>1, <1>2 DEF Min

\* A chunk is a vector full of what is left, or all of it.
LEMMA ChunkSizeIs ==
  ASSUME NEW s \in Scans, Left(s) \in Nat
  PROVE  /\ ChunkSize(s) \in Nat
         /\ ChunkSize(s) <= VectorSize
         /\ ChunkSize(s) <= Left(s)
         /\ ChunkSize(s) = 0 => Left(s) = 0
<1>1. Max({Left(s), 0}) = Left(s)
  BY MaxOfTwo
<1>2. ChunkSize(s) = IF Left(s) <= VectorSize THEN Left(s) ELSE VectorSize
  BY <1>1, MinOfTwo, VectorAssumption DEF ChunkSize
<1> QED
  BY <1>2, VectorAssumption

\* What a statement answers fits its columns, and its rows are a sequence.
LEMMA AnswerFits ==
  ASSUME Shape, NEW q \in Statements, Answered(q)
  PROVE  Fits(data[q]) /\ data[q].rows \in Seq(ToSet(data[q].rows)) /\ Len(data[q].rows) \in Nat
<1>1. Fits(data[q])
  BY AnswerOf, ProducerFits
<1>2. IsSeq(data[q].rows)
  BY <1>1 DEF Fits
<1> QED
  BY <1>1, <1>2, SequenceIs DEF IsSeq

-----------------------------------------------------------------------------
LEMMA InitInv ==
  Init => IInv
<1> SUFFICES ASSUME Init PROVE IInv
  OBVIOUS
<1>1. (CHOOSE q \in Statements : TRUE) \in Statements
  BY SessionsAssumption
<1>2. session.scans \in Nat
  BY SessionsAssumption DEF Init
<1>3. Shape
  BY <1>1, <1>2, VectorAssumption DEF Init, Shape
<1>4. ASSUME NEW s \in Scans PROVE ScanInv(s) /\ Served(s)
  <2>1. [i \in 1..0 |-> i] = <<>> /\ DOMAIN <<>> = {}
    OBVIOUS
  <2> QED
    BY <2>1 DEF Init, ScanInv, Served
<1> QED
  BY <1>3, <1>4 DEF IInv

\* A step of one scan leaves the others as they are.
LEMMA OtherScans ==
  ASSUME NEW s \in Scans, NEW t \in Scans, ScanInv(t), UNCHANGED bindVars,
         of'[t] = of[t], pc'[t] = pc[t], cursor'[t] = cursor[t], start'[t] = start[t],
         emitted'[t] = emitted[t]
  PROVE  ScanInv(t)'
BY DEF ScanInv, bindVars, Answered, Rows

LEMMA SameChunk ==
  ASSUME NEW t \in Scans, Served(t), UNCHANGED bindVars, of'[t] = of[t], chunk'[t] = chunk[t]
  PROVE  Served(t)'
BY DEF Served, bindVars, Answered, Rows

LEMMA NextInv ==
  IInv /\ [Next]_vars => IInv'
<1> SUFFICES ASSUME IInv, [Next]_vars PROVE IInv'
  OBVIOUS
<1> USE DEF IInv
<1>1. ASSUME NEW q \in Statements, Bind(q) PROVE IInv'
  <2>1. Shape'
    BY <1>1 DEF Bind, Shape, File, CallOf
  <2>2. ASSUME NEW s \in Scans PROVE ScanInv(s)'
    <3>1. CASE pc[s] = "closed"
      BY <1>1, <3>1 DEF Bind, ScanInv
    <3>2. CASE pc[s] # "closed"
      <4>1. of[s] # q
        BY <1>1, <3>2 DEF Bind, ScanInv, Answered
      <4>2. data'[of[s]] = data[of[s]]
        BY <1>1, <4>1 DEF Bind, Shape
      <4> QED
        BY <1>1, <4>2 DEF Bind, ScanInv, Answered, Rows
    <3> QED
      BY <3>1, <3>2
  <2>3. ASSUME NEW s \in Scans PROVE Served(s)'
    <3>1. CASE DOMAIN chunk[s] = {}
      BY <1>1, <3>1 DEF Bind, Served
    <3>2. CASE DOMAIN chunk[s] # {}
      <4>1. of[s] # q
        BY <1>1, <3>2 DEF Bind, Served, Answered
      <4>2. data'[of[s]] = data[of[s]]
        BY <1>1, <4>1 DEF Bind, Shape
      <4> QED
        BY <1>1, <4>2 DEF Bind, Served, Answered, Rows
    <3> QED
      BY <3>1, <3>2
  <2> QED
    BY <2>1, <2>2, <2>3
<1>2. ASSUME NEW s \in Scans, NEW q \in Statements, Open(s, q) PROVE IInv'
  <2>1. Shape'
    BY <1>2, VectorAssumption, SessionsAssumption DEF Open, Shape, bindVars, File, CallOf
  <2>2. ScanInv(s)'
    <3>1. Len(data[q].rows) \in Nat
      BY <1>2, AnswerFits DEF Open
    <3>2. [i \in 1..0 |-> i] = <<>>
      OBVIOUS
    <3> QED
      BY <1>2, <3>1, <3>2 DEF Open, ScanInv, Shape, bindVars, Answered, Rows
  <2>3. ASSUME NEW t \in Scans, t # s PROVE ScanInv(t)'
    BY <1>2, <2>3, OtherScans DEF Open, Shape
  <2>4. ASSUME NEW t \in Scans, t # s PROVE Served(t)'
    BY <1>2, <2>4, SameChunk DEF Open, Shape
  <2>5. Served(s)'
    <3>1. chunk'[s] = <<>> /\ DOMAIN <<>> = {}
      BY <1>2 DEF Open, Shape
    <3> QED
      BY <3>1 DEF Served
  <2> QED
    BY <2>1, <2>2, <2>3, <2>4, <2>5
<1>3. ASSUME NEW s \in Scans, Func(s) PROVE IInv'
  <2>1. Shape'
    BY <1>3 DEF Func, Shape, bindVars, File, CallOf, Cursor
  <2>2. ScanInv(s)'
    BY <1>3 DEF Func, ScanInv, Shape, bindVars, Answered, Rows, Cursor
  <2>3. ASSUME NEW t \in Scans, t # s PROVE ScanInv(t)'
    BY <1>3, <2>3, OtherScans DEF Func, Shape
  <2>4. ASSUME NEW t \in Scans PROVE Served(t)'
    BY <1>3, SameChunk DEF Func, Shape
  <2> QED
    BY <2>1, <2>2, <2>3, <2>4
<1>4. ASSUME NEW s \in Scans, Write(s) PROVE IInv'
  <2> DEFINE n == ChunkSize(s)
  <2>1. /\ Rows(s) \in Seq(ToSet(Rows(s)))
        /\ cursor[s] \in Nat /\ start[s] = cursor[s] /\ cursor[s] <= Len(Rows(s))
    BY <1>4, AnswerFits DEF Write, ScanInv, Shape, Rows
  <2>2. Left(s) \in Nat /\ Left(s) = Len(Rows(s)) - cursor[s]
    BY <2>1 DEF Left
  <2>3. n \in Nat /\ n <= VectorSize /\ cursor[s] + n <= Len(Rows(s))
    BY <2>1, <2>2, ChunkSizeIs
  <2>4. Len(Chunk(s)) = n
    <3> DEFINE rows == Rows(s)
               from == cursor[s] + 1
               to == cursor[s] + n
    <3>1. rows \in Seq(ToSet(rows)) /\ Chunk(s) = SubSeq(rows, from, to)
      BY <2>1 DEF Chunk
    <3> HIDE DEF rows, n
    <3>2. \A i \in from..to : rows[i] \in {rows[j] : j \in DOMAIN rows}
      BY <2>1, <2>3, <3>1 DEF rows
    <3>3. from \in Int /\ to \in Int /\ (IF from <= to THEN to - from + 1 ELSE 0) = n
      <4> DEFINE c == cursor[s]
      <4>1. c \in Nat
        BY <2>1
      <4>2. n \in Nat
        BY <2>3
      <4>3. from = c + 1 /\ to = c + n
        OBVIOUS
      <4> HIDE DEF c, from, to
      <4> QED
        BY <4>1, <4>2, <4>3
    <3> HIDE DEF from, to
    <3>4. Len(SubSeq(rows, from, to)) = IF from <= to THEN to - from + 1 ELSE 0
      BY <3>2, <3>3, SubSeqProperties
    <3> QED
      BY <3>1, <3>3, <3>4
  <2>5. emitted'[s] = [i \in 1..(cursor[s] + n) |-> i]
    <3> HIDE DEF n
    <3>1. emitted'[s] = emitted[s] \o [i \in 1..n |-> cursor[s] + i]
      BY <1>4, <2>1 DEF Write, Shape, n
    <3>2. emitted[s] = [i \in 1..cursor[s] |-> i]
      BY DEF ScanInv
    <3> QED
      BY <3>1, <3>2, <2>1, <2>3, CountOn
  <2>6. cursor'[s] = cursor[s] + n /\ cursor'[s] \in Nat
    BY <1>4, <2>1, <2>3 DEF Write, Shape
  <2>7. Shape'
    <3>1. UNCHANGED <<session, data, of, scans, start>>
      BY <1>4 DEF Write, bindVars
    <3>2. pc' = [pc EXCEPT ![s] = "ready"] /\ cursor' = [cursor EXCEPT ![s] = cursor'[s]]
      BY <1>4, <2>1, <2>6 DEF Write, Shape
    <3>3. DOMAIN chunk' = Scans /\ DOMAIN emitted' = Scans
      BY <1>4 DEF Write, Shape
    <3>4. \A t \in Scans : Len(chunk'[t]) \in 0..VectorSize
      <4>1. Len(Chunk(s)) \in 0..VectorSize
        BY <2>3, <2>4, VectorAssumption
      <4> QED
        BY <1>4, <4>1 DEF Write, Shape
    <3>5. cursor' \in [Scans -> Nat]
      BY <2>6, <3>2 DEF Shape
    <3>6. pc' \in [Scans -> {"closed", "ready", "writing", "ended"}]
      BY <3>2 DEF Shape
    <3> QED
      BY <3>1, <3>3, <3>4, <3>5, <3>6 DEF Shape, File, CallOf
  <2>8. ScanInv(s)'
    BY <1>4, <2>3, <2>5, <2>6 DEF Write, ScanInv, Shape, bindVars, Answered, Rows
  <2>9. ASSUME NEW t \in Scans, t # s PROVE ScanInv(t)'
    BY <1>4, <2>9, OtherScans DEF Write, Shape
  <2>10. ASSUME NEW t \in Scans, t # s PROVE Served(t)'
    BY <1>4, <2>10, SameChunk DEF Write, Shape
  <2>11. Served(s)'
    <3> DEFINE rows == Rows(s)
    <3>1. chunk'[s] = Chunk(s) /\ Chunk(s) = SubSeq(rows, cursor[s] + 1, cursor[s] + n)
      BY <1>4, <2>1 DEF Write, Shape, Chunk
    <3>2. Rows(s)' = rows /\ Answered(of[s]) /\ Answered(of[s])'
      BY <1>4 DEF Write, ScanInv, bindVars, Answered, Rows
    <3> HIDE DEF rows, n
    <3>3. ASSUME NEW i \in DOMAIN Chunk(s) PROVE Chunk(s)[i] \in ToSet(rows)
      <4>1. rows \in Seq(ToSet(rows)) /\ cursor[s] \in Nat /\ cursor[s] + n <= Len(rows) /\ n \in Nat
        BY <2>1, <2>3 DEF rows
      <4>2. SubSeq(rows, cursor[s] + 1, cursor[s] + n) \in Seq(ToSet(rows))
        BY <4>1
      <4> DEFINE part == Chunk(s)
                 T == ToSet(rows)
      <4>3. part \in Seq(T) /\ i \in DOMAIN part
        BY <3>1, <3>3, <4>2
      <4> HIDE DEF part, T
      <4>4. part[i] \in T
        BY <4>3
      <4> QED
        BY <4>4 DEF part, T
    <3> QED
      BY <3>1, <3>2, <3>3 DEF Served
  <2> QED
    BY <2>7, <2>8, <2>9, <2>10, <2>11
<1>5. ASSUME NEW s \in Scans, End(s) PROVE IInv'
  <2>1. Shape'
    BY <1>5, VectorAssumption DEF End, Shape, bindVars, File, CallOf
  <2>2. ScanInv(s)'
    <3>1. /\ Rows(s) \in Seq(ToSet(Rows(s)))
          /\ cursor[s] \in Nat /\ start[s] = cursor[s] /\ cursor[s] <= Len(Rows(s))
      BY <1>5, AnswerFits DEF End, ScanInv, Shape, Rows
    <3>2. Left(s) \in Nat /\ Left(s) = Len(Rows(s)) - cursor[s]
      BY <3>1 DEF Left
    <3>3. cursor[s] = Len(Rows(s))
      BY <1>5, <3>1, <3>2, ChunkSizeIs DEF End
    <3> QED
      BY <1>5, <3>1, <3>3 DEF End, ScanInv, Shape, bindVars, Answered, Rows
  <2>3. ASSUME NEW t \in Scans, t # s PROVE ScanInv(t)'
    BY <1>5, <2>3, OtherScans DEF End, Shape
  <2>4. ASSUME NEW t \in Scans, t # s PROVE Served(t)'
    BY <1>5, <2>4, SameChunk DEF End, Shape
  <2>5. Served(s)'
    <3>1. chunk'[s] = <<>> /\ DOMAIN <<>> = {}
      BY <1>5 DEF End, Shape
    <3> QED
      BY <3>1 DEF Served
  <2> QED
    BY <2>1, <2>2, <2>3, <2>4, <2>5
<1>6. ASSUME NEW s \in Scans, Close(s) PROVE IInv'
  <2>1. Shape'
    BY <1>6 DEF Close, Shape, bindVars, File, CallOf
  <2>2. ScanInv(s)'
    BY <1>6 DEF Close, ScanInv, Shape
  <2>3. ASSUME NEW t \in Scans, t # s PROVE ScanInv(t)'
    BY <1>6, <2>3, OtherScans DEF Close, Shape
  <2>4. ASSUME NEW t \in Scans PROVE Served(t)'
    BY <1>6, SameChunk DEF Close, Shape
  <2> QED
    BY <2>1, <2>2, <2>3, <2>4
<1>7. CASE UNCHANGED vars
  <2>1. Shape'
    BY <1>7 DEF vars, Shape, File, CallOf
  <2>2. ASSUME NEW s \in Scans PROVE ScanInv(s)'
    BY <1>7, OtherScans DEF vars, bindVars
  <2>3. ASSUME NEW s \in Scans PROVE Served(s)'
    BY <1>7, SameChunk DEF vars, bindVars
  <2> QED
    BY <2>1, <2>2, <2>3
<1> QED
  BY <1>1, <1>2, <1>3, <1>4, <1>5, <1>6, <1>7 DEF Next, Pull, Done

LEMMA Invariant ==
  Spec => []IInv
BY InitInv, NextInv, PTL DEF Spec

-----------------------------------------------------------------------------
\* Type correctness: in particular no chunk func writes is larger than the
\* vectors DuckDB handed it.
THEOREM TypeCorrect ==
  Spec => []TypeOK
<1>1. IInv => TypeOK
  BY DEF IInv, Shape, TypeOK
<1> QED
  BY <1>1, Invariant, PTL

\* Each scan of a bind emits its rows once, in order and without a gap, and
\* ends only when all are emitted (ffi_table.rs, func), however the scans of
\* one statement or of several interleave.
THEOREM EmitsRowsOnceInOrder ==
  Spec => []RowsOnceInOrder
<1>1. ASSUME IInv, NEW s \in Scans
      PROVE  /\ emitted[s] = [i \in 1..Len(emitted[s]) |-> i]
             /\ pc[s] = "ended" => Len(emitted[s]) = Len(Rows(s))
  <2>1. cursor[s] \in Nat /\ emitted[s] = [i \in 1..cursor[s] |-> i]
    BY <1>1 DEF IInv, Shape, ScanInv
  <2>2. Len(emitted[s]) = cursor[s]
    BY <2>1
  <2> QED
    BY <1>1, <2>1, <2>2 DEF IInv, ScanInv
<1>2. IInv => RowsOnceInOrder
  BY <1>1 DEF RowsOnceInOrder
<1> QED
  BY <1>2, Invariant, PTL
\* Every cell func writes goes through the store of its column's declared type
\* or through the validity mask, whatever producer answered: func follows the
\* cell (ffi_table.rs, write_cell) and bind the column, and no row is wider
\* than what bind declared.
THEOREM StoresFitHolds ==
  Spec => []StoresFit
<1>1. ASSUME IInv, NEW s \in Scans, NEW i \in DOMAIN chunk[s]
      PROVE  LET row == chunk[s][i]
                 declared == Declared(data[of[s]].columns)
             IN /\ Len(row) = Len(declared)
                /\ \A c \in DOMAIN row : row[c][1] \in {"Null", declared[c][2]}
  <2> DEFINE q == of[s]
             columns == data[q].columns
  <2>1. Shape /\ q \in Statements /\ Answered(q) /\ chunk[s][i] \in ToSet(data[q].rows)
    BY <1>1 DEF IInv, Served, Shape, Rows
  <2>2. Fits(data[q])
    BY <2>1, AnswerFits
  <2>3. IsSeq(columns) /\ \A c \in ToSet(columns) : c[1] \notin NulNames
    BY <2>2 DEF Fits
  <2>4. Declared(columns) = columns
    <3> HIDE DEF columns
    <3>1. ToSet(columns) \subseteq {c \in ToSet(columns) : c[1] \notin NulNames}
      BY <2>3
    <3> QED
      BY <2>3, <3>1, KeepAll DEF Declared
  <2>5. RowFits(chunk[s][i], columns)
    BY <2>1, <2>2 DEF Fits
  <2> QED
    BY <2>4, <2>5 DEF RowFits
<1>2. IInv => StoresFit
  BY <1>1 DEF StoresFit
<1> QED
  BY <1>2, Invariant, PTL

\* What ags_groups and ags_headings (meta.rs) say of a group is what a scan of
\* its table finds (read_ags.rs, build_table): its rows and columns counted,
\* each heading's name and SQL type at its ordinal past the id columns.
THEOREM StructureDescribesTablesHolds ==
  Spec => []StructureDescribesTables
<1>1. IInv => StructureDescribesTables
  BY StructureDescribes DEF IInv
<1> QED
  BY <1>1, Invariant, PTL

\* A table without ids is of a group with no heading shown as a key, and rows
\* that link to a parent are of a group for which ags_groups names one.
THEOREM IdsFollowDeclarationsHolds ==
  Spec => []IdsFollowDeclarations
<1>1. IInv => IdsFollowDeclarations
  BY IdsFollow DEF IInv
<1> QED
  BY <1>1, Invariant, PTL

\* ags_headings gives a standard heading the status ags_dictionary gives it,
\* whatever the file declares, and the parent ags_dictionary names is the one
\* ags_relationships links to (dict_fns.rs, meta.rs).
THEOREM DictionaryAgreesHolds ==
  Spec => []DictionaryAgrees
<1>1. IInv => DictionaryAgrees
  BY DictionaryAgreesWith DEF IInv
<1> QED
  BY <1>1, Invariant, PTL
=============================================================================
