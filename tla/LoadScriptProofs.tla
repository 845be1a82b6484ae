-------------------------- MODULE LoadScriptProofs --------------------------
(***************************************************************************)
(* Theorems about LoadScript, for any number of sessions, files, registry  *)
(* and destinations.  Nothing depends on the order of the statements of a  *)
(* group, only on where a script attaches and detaches: a statement that   *)
(* is still owed for a group is either in the script or done.              *)
(***************************************************************************)
EXTENDS LoadScript, SequenceTheorems, SequenceLemmas, TLAPS

Databases == {Main} \cup Outs
Names == UNION {Groups(f) : f \in Files}
Statements == [op : Ops, group : Names \cup {None}]
MaterialOps == {"create", "index_id", "index_parent"}
TableRecords == [from : Files, by : Databases, indexed : SUBSET {"index_id", "index_parent"}]

\* The types of the variables.
Types ==
  /\ disk \in Files
  /\ attached \in Outs \cup {NotAttached}
  /\ abandoned \in BOOLEAN
  /\ status \in [Sessions -> {"idle", "running", "finished", "failed"}]
  /\ out \in [Sessions -> Databases]
  /\ source \in [Sessions -> Files]
  /\ script \in [Sessions -> Seq(Statements)]
  /\ db \in [Databases -> UNION {[D -> TableRecords] : D \in SUBSET Names}]

\* A table was created from a file with its group, for the database it is in.
Filled ==
  \A place \in Databases : \A g \in Tables(place) :
    g \in Groups(db[place][g].from) /\ db[place][g].by = place

\* Only a running session has statements left.  A script of load_ags only
\* creates; one of to_duckdb attaches at most at its head and detaches last.
Shape(stmts, place) ==
  IF place = Main THEN \A i \in 1..Len(stmts) : stmts[i].op \in MaterialOps
  ELSE stmts # <<>> =>
         /\ stmts[Len(stmts)].op = "detach"
         /\ \A i \in 1..Len(stmts) - 1 :
              stmts[i].op \in MaterialOps \/ (i = 1 /\ stmts[i].op = "attach")

Shaped ==
  \A s \in Sessions :
    /\ status[s] # "running" => script[s] = <<>>
    /\ Shape(script[s], out[s])

\* One session at most is between its ATTACH and its DETACH, and the alias is
\* its destination.
OneHolder ==
  /\ \A s \in Sessions : Holding(s) => attached = out[s]
  /\ \A s, t \in Sessions : Holding(s) /\ Holding(t) => s = t
  /\ AliasReleased

\* What a script owes for a group is still to run or done.
Pending(s, op, g) == Statement(op, g) \in ToSet(script[s])
Indexed(s, op, g) == g \in Tables(out[s]) /\ op \in db[out[s]][g].indexed

Owed ==
  \A s \in Sessions : status[s] \in {"running", "finished"} =>
    \A g \in Groups(source[s]) :
      /\ Pending(s, "create", g) \/ g \in Tables(out[s])
      /\ Pending(s, "index_id", g) \/ Indexed(s, "index_id", g)
      /\ HasRegistryParent(g) => Pending(s, "index_parent", g) \/ Indexed(s, "index_parent", g)

Inv == Types /\ Filled /\ Shaped /\ OneHolder /\ Owed
-----------------------------------------------------------------------------
(* The scripts *)

\* The statements that materialise a file: each of its groups has its own.
LEMMA AllGroupsStatements ==
  ASSUME NEW f \in Files
  PROVE  /\ AllGroups(f) \in Seq(Statements)
         /\ \A i \in 1..Len(AllGroups(f)) : AllGroups(f)[i].op \in MaterialOps
         /\ \A g \in Groups(f) :
              /\ Statement("create", g) \in ToSet(AllGroups(f))
              /\ Statement("index_id", g) \in ToSet(AllGroups(f))
              /\ HasRegistryParent(g) => Statement("index_parent", g) \in ToSet(AllGroups(f))
<1> DEFINE Material == {x \in Statements : x.op \in MaterialOps}
           pieces == [i \in DOMAIN f.order |-> GroupStatements(f.order[i])]
<1>1. f.order \in Seq(Groups(f)) /\ Groups(f) \subseteq Names
  BY FilesAssumption DEF Names
<1>2. ASSUME NEW g \in Groups(f)
      PROVE  /\ GroupStatements(g) \in Seq(Material)
             /\ Statement("create", g) \in ToSet(GroupStatements(g))
             /\ Statement("index_id", g) \in ToSet(GroupStatements(g))
             /\ HasRegistryParent(g) => Statement("index_parent", g) \in ToSet(GroupStatements(g))
  <2> DEFINE a == <<Statement("create", g), Statement("index_id", g)>>
             b == IF HasRegistryParent(g) THEN <<Statement("index_parent", g)>> ELSE <<>>
  <2>1. \A op \in MaterialOps : Statement(op, g) \in Material
    BY <1>1 DEF Statement, Statements, MaterialOps, Ops
  <2>2. a \in Seq(Material) /\ b \in Seq(Material)
    <3>1. \A op \in {"create", "index_id", "index_parent"} : Statement(op, g) \in Material
      BY <2>1 DEF MaterialOps
    <3> HIDE DEF Material
    <3> QED
      BY <3>1
  <2>3. ToSet(a) = {Statement("create", g), Statement("index_id", g)}
    BY DEF ToSet
  <2>4. HasRegistryParent(g) => ToSet(b) = {Statement("index_parent", g)}
    BY DEF ToSet
  <2>5. GroupStatements(g) = a \o b
    BY DEF GroupStatements
  <2> HIDE DEF a, b, Material
  <2>6. a \o b \in Seq(Material) /\ ToSet(a \o b) = ToSet(a) \cup ToSet(b)
    BY <2>2, ConcatElements, ConcatProperties
  <2> QED
    BY <2>3, <2>4, <2>5, <2>6
<1>3. pieces \in Seq(Seq(Material)) /\ Len(pieces) = Len(f.order)
  <2>1. \A i \in DOMAIN f.order : f.order[i] \in Groups(f)
    BY <1>1
  <2>2. DOMAIN f.order = 1..Len(f.order) /\ Len(f.order) \in Nat
    BY <1>1
  <2> HIDE DEF Material
  <2> QED
    BY <1>2, <2>1, <2>2
<1>4. /\ AllGroups(f) \in Seq(Material)
      /\ ToSet(AllGroups(f)) = UNION {ToSet(pieces[i]) : i \in 1..Len(pieces)}
  <2> HIDE DEF Material, pieces
  <2>1. AllGroups(f) = FlattenSeq(pieces)
    BY DEF AllGroups, pieces
  <2> QED
    BY <1>3, <2>1, FlattenElements
<1>5. ASSUME NEW g \in Groups(f)
      PROVE  ToSet(GroupStatements(g)) \subseteq ToSet(AllGroups(f))
  <2>1. PICK i \in DOMAIN f.order : f.order[i] = g
    BY DEF Groups, ToSet
  <2>2. i \in 1..Len(pieces) /\ pieces[i] = GroupStatements(g)
    BY <1>1, <1>3, <2>1
  <2> HIDE DEF pieces
  <2> QED
    BY <1>4, <2>2
<1>6. AllGroups(f) \in Seq(Statements)
  BY <1>4
<1>7. \A i \in 1..Len(AllGroups(f)) : AllGroups(f)[i] \in Material
  BY <1>4
<1> HIDE DEF pieces
<1> QED
  BY <1>2, <1>5, <1>6, <1>7

LEMMA LoadAgsScript ==
  ASSUME NEW f \in Files
  PROVE  LoadAgs(f) = AllGroups(f) /\ Shape(LoadAgs(f), Main)
BY AllGroupsStatements DEF LoadAgs, Shape

LEMMA ToDuckdbScript ==
  ASSUME NEW f \in Files, NEW place \in Outs
  PROVE  /\ ToDuckdb(f) \in Seq(Statements)
         /\ ToSet(AllGroups(f)) \subseteq ToSet(ToDuckdb(f))
         /\ Shape(ToDuckdb(f), place)
         /\ ToDuckdb(f) # <<>>
         /\ Head(ToDuckdb(f)).op = "attach"
<1> DEFINE a == <<Statement("attach", None)>>
           m == AllGroups(f)
           z == <<Statement("detach", None)>>
           n == Len(m)
<1>1. m \in Seq(Statements) /\ \A i \in 1..Len(m) : m[i].op \in MaterialOps
  BY AllGroupsStatements
<1>2. /\ a \in Seq(Statements) /\ Len(a) = 1 /\ a[1].op = "attach"
      /\ z \in Seq(Statements) /\ Len(z) = 1 /\ z[1].op = "detach"
  <2>1. Statement("attach", None) \in Statements /\ Statement("detach", None) \in Statements
    BY DEF Statement, Statements, Ops
  <2>2. Statement("attach", None).op = "attach" /\ Statement("detach", None).op = "detach"
    BY DEF Statement
  <2> QED
    BY <2>1, <2>2
<1>3. ToDuckdb(f) = (a \o m) \o z
  BY DEF ToDuckdb
<1> HIDE DEF a, m, z
<1>4. /\ a \o m \in Seq(Statements) /\ Len(a \o m) = 1 + n
      /\ \A i \in 1..1 + n : (a \o m)[i] = IF i <= 1 THEN a[i] ELSE m[i - 1]
  <2>1. /\ a \o m \in Seq(Statements) /\ Len(a \o m) = Len(a) + Len(m)
        /\ \A i \in 1..Len(a) + Len(m) :
             (a \o m)[i] = IF i <= Len(a) THEN a[i] ELSE m[i - Len(a)]
    BY <1>1, <1>2, ConcatProperties
  <2> QED
    BY <1>2, <2>1
<1>5. /\ ToDuckdb(f) \in Seq(Statements) /\ Len(ToDuckdb(f)) = n + 2 /\ n \in Nat
      /\ \A i \in 1..n + 2 : ToDuckdb(f)[i] = IF i <= n + 1 THEN (a \o m)[i] ELSE z[i - (n + 1)]
  BY <1>1, <1>2, <1>3, <1>4, ConcatProperties
<1>6. ToDuckdb(f)[1].op = "attach"
  BY <1>2, <1>4, <1>5
<1>7. ToDuckdb(f)[n + 2].op = "detach"
  <2>1. n + 2 \in 1..n + 2 /\ ~(n + 2 <= n + 1) /\ (n + 2) - (n + 1) = 1
    BY <1>5
  <2>2. ToDuckdb(f)[n + 2] = z[(n + 2) - (n + 1)]
    BY <1>5, <2>1
  <2>3. ToDuckdb(f)[n + 2] = z[1]
    BY <2>1, <2>2
  <2> QED
    BY <1>2, <2>3
<1>8. ASSUME NEW i \in 1..(n + 2) - 1, i # 1 PROVE ToDuckdb(f)[i].op \in MaterialOps
  <2>1. i \in 1..n + 2 /\ i \in 1..1 + n /\ i - 1 \in 1..n /\ i <= n + 1 /\ ~(i <= 1)
    BY <1>5, <1>8
  <2>2. ToDuckdb(f)[i] = m[i - 1]
    BY <1>4, <1>5, <2>1
  <2> QED
    BY <1>1, <2>1, <2>2
<1>9. Shape(ToDuckdb(f), place)
  BY <1>5, <1>6, <1>7, <1>8, PlacesAssumption DEF Shape
<1>10. ToSet(m) \subseteq ToSet(ToDuckdb(f))
  <2>1. ToSet((a \o m) \o z) = ToSet(a \o m) \cup ToSet(z)
    <3> DEFINE am == a \o m
    <3>1. am \in Seq(Statements) /\ z \in Seq(Statements)
      BY <1>2, <1>4
    <3> HIDE DEF am
    <3>2. ToSet(am \o z) = ToSet(am) \cup ToSet(z)
      BY <3>1, ConcatElements
    <3> QED
      BY <3>2 DEF am
  <2>2. ToSet(a \o m) = ToSet(a) \cup ToSet(m)
    BY <1>1, <1>2, ConcatElements
  <2> QED
    BY <1>3, <2>1, <2>2
<1> QED
  BY <1>5, <1>6, <1>9, <1>10 DEF m

-----------------------------------------------------------------------------
(* What every step of a session shares *)

\* The head of a shaped script, and what is left of it.
LEMMA ShapedHead ==
  ASSUME NEW place, NEW stmts \in Seq(Statements), stmts # <<>>, Shape(stmts, place)
  PROVE  /\ Head(stmts) \in Statements
         /\ Tail(stmts) \in Seq(Statements)
         /\ ToSet(stmts) = {Head(stmts)} \cup ToSet(Tail(stmts))
         /\ Shape(Tail(stmts), place)
         /\ place = Main => Head(stmts).op \in MaterialOps
         /\ place # Main /\ Head(stmts).op = "detach" => Tail(stmts) = <<>>
         /\ place # Main /\ Head(stmts).op # "detach" => Tail(stmts) # <<>>
         /\ Tail(stmts) # <<>> => Head(Tail(stmts)).op # "attach"
<1> DEFINE n == Len(stmts)
<1>1. /\ n \in Nat /\ n >= 1 /\ Head(stmts) = stmts[1]
      /\ \A i \in 1..n : stmts[i] \in Statements
  BY EmptySeq
<1>2. /\ Tail(stmts) \in Seq(Statements)
      /\ Len(Tail(stmts)) = n - 1
      /\ \A i \in 1..n - 1 : Tail(stmts)[i] = stmts[i + 1]
      /\ ToSet(stmts) = {Head(stmts)} \cup ToSet(Tail(stmts))
  BY TailElements
<1>3. Tail(stmts) = <<>> <=> n = 1
  <2>1. Tail(stmts) = <<>> <=> Len(Tail(stmts)) = 0
    BY <1>2, EmptySeq
  <2> QED
    BY <1>1, <1>2, <2>1
<1>4. CASE place = Main
  <2>1. \A i \in 1..n - 1 : Tail(stmts)[i].op \in MaterialOps
    BY <1>1, <1>2, <1>4 DEF Shape
  <2>2. Head(stmts).op \in MaterialOps
    BY <1>1, <1>4 DEF Shape
  <2>3. ASSUME Tail(stmts) # <<>> PROVE Head(Tail(stmts)).op # "attach"
    <3>1. 1 \in 1..n - 1 /\ Head(Tail(stmts)) = Tail(stmts)[1]
      BY <1>1, <1>2, <1>3, <2>3
    <3> QED
      BY <2>1, <3>1 DEF MaterialOps
  <2> QED
    BY <1>1, <1>2, <1>4, <2>1, <2>2, <2>3 DEF Shape
<1>5. CASE place # Main
  <2>1. /\ stmts[n].op = "detach"
        /\ \A i \in 1..n - 1 : stmts[i].op \in MaterialOps \/ (i = 1 /\ stmts[i].op = "attach")
    BY <1>5 DEF Shape
  <2>2. ASSUME n # 1 PROVE Tail(stmts)[n - 1].op = "detach"
    <3>0. n \in Nat /\ n >= 2
      <4> HIDE DEF n
      <4> QED
        BY <1>1, <2>2
    <3>1. n - 1 \in 1..n - 1 /\ (n - 1) + 1 = n
      BY <3>0
    <3>2. Tail(stmts)[n - 1] = stmts[(n - 1) + 1]
      BY <1>2, <3>1
    <3>3. Tail(stmts)[n - 1] = stmts[n]
      BY <3>1, <3>2
    <3> QED
      BY <2>1, <3>3
  <2>3. ASSUME NEW i \in 1..(n - 1) - 1 PROVE Tail(stmts)[i].op \in MaterialOps
    <3>1. i \in 1..n - 1 /\ i + 1 \in 1..n - 1 /\ i + 1 # 1
      BY <1>1
    <3> QED
      BY <1>2, <2>1, <3>1
  <2>4. Shape(Tail(stmts), place)
    BY <1>2, <1>3, <1>5, <2>2, <2>3 DEF Shape
  <2>5. ASSUME n # 1 PROVE Head(stmts).op # "detach"
    <3>1. 1 \in 1..n - 1
      <4> HIDE DEF n
      <4> QED
        BY <1>1, <2>5
    <3>2. stmts[1].op \in MaterialOps \/ stmts[1].op = "attach"
      BY <2>1, <3>1
    <3> QED
      BY <1>1, <3>2 DEF MaterialOps
  <2>6. n = 1 => Head(stmts).op = "detach"
    BY <1>1, <2>1
  <2>7. ASSUME n # 1 PROVE Head(Tail(stmts)).op # "attach"
    <3>1. Head(Tail(stmts)) = stmts[2]
      BY <1>1, <1>2, <1>3, <2>7
    <3>2. CASE n = 2
      BY <2>1, <3>1, <3>2
    <3>3. CASE n # 2
      <4>1. 2 \in 1..n - 1
        <5> HIDE DEF n
        <5> QED
          BY <1>1, <2>7, <3>3
      <4>2. stmts[2].op \in MaterialOps
        BY <2>1, <4>1
      <4> QED
        BY <3>1, <4>2 DEF MaterialOps
    <3> QED
      BY <3>2, <3>3
  <2> QED
    BY <1>1, <1>2, <1>3, <1>5, <2>4, <2>5, <2>6, <2>7
<1> QED
  BY <1>4, <1>5

\* A statement that has run: nothing but its own script is shorter.
LEMMA AfterRan ==
  ASSUME Inv, NEW s \in Sessions, NEW op, Upcoming(s, op), Ran(s)
  PROVE  /\ Head(script[s]) \in Statements
         /\ script' \in [Sessions -> Seq(Statements)]
         /\ Shaped'
         /\ \A t \in Sessions : t # s => script'[t] = script[t]
         /\ \A t \in Sessions : t # s => (Holding(t)' <=> Holding(t))
         /\ Holding(s) <=> out[s] # Main /\ op # "attach"
         /\ Holding(s)' <=> out[s] # Main /\ op # "detach"
         /\ out[s] = Main => op \in MaterialOps
         /\ ToSet(script[s]) = {Head(script[s])} \cup ToSet(script'[s])
<1> DEFINE rest == Tail(script[s])
<1>1. /\ status[s] = "running" /\ script[s] # <<>> /\ Head(script[s]).op = op
      /\ script[s] \in Seq(Statements) /\ Shape(script[s], out[s])
  BY DEF Upcoming, Inv, Types, Shaped
<1>2. /\ Head(script[s]) \in Statements
      /\ rest \in Seq(Statements)
      /\ ToSet(script[s]) = {Head(script[s])} \cup ToSet(rest)
      /\ Shape(rest, out[s])
      /\ out[s] = Main => op \in MaterialOps
      /\ out[s] # Main /\ op = "detach" => rest = <<>>
      /\ out[s] # Main /\ op # "detach" => rest # <<>>
      /\ rest # <<>> => Head(rest).op # "attach"
  BY <1>1, ShapedHead
<1>3. /\ script' \in [Sessions -> Seq(Statements)] /\ script'[s] = rest
      /\ \A t \in Sessions : t # s => script'[t] = script[t]
      /\ status' = status /\ out' = out
  BY <1>2 DEF Ran, Inv, Types
<1> HIDE DEF rest
<1>4. Shaped'
  <2> SUFFICES ASSUME NEW t \in Sessions
               PROVE  (status[t] # "running" => script'[t] = <<>>) /\ Shape(script'[t], out[t])
    BY <1>3 DEF Shaped, Shape
  <2> QED
    BY <1>1, <1>2, <1>3 DEF Inv, Shaped
<1> QED
  BY <1>1, <1>2, <1>3, <1>4 DEF Holding

\* Only the Holding sessions matter to the alias.
LEMMA SameHolders ==
  ASSUME Inv, \A t \in Sessions : Holding(t)' <=> Holding(t),
         \A t \in Sessions : Holding(t) => out'[t] = out[t],
         attached' = attached, abandoned' = abandoned
  PROVE  OneHolder'
BY DEF Inv, OneHolder, AliasReleased

\* What is done for a group stays done.
Kept == \A place \in Databases : \A g \in Tables(place) :
          g \in Tables(place)' /\ db[place][g].indexed \subseteq db'[place][g].indexed

LEMMA OwedKept ==
  ASSUME Inv, NEW s \in Sessions, NEW op, NEW g, Head(script[s]) = Statement(op, g), Kept,
         Upcoming(s, op), Ran(s), op \in {"create", "index_id", "index_parent"} =>
           g \in Tables(out[s])' /\ (op # "create" => op \in db'[out[s]][g].indexed)
  PROVE  Owed'
<1> SUFFICES ASSUME NEW t \in Sessions, status[t] \in {"running", "finished"},
                    NEW h \in Groups(source[t])
             PROVE  /\ Pending(t, "create", h)' \/ h \in Tables(out[t])'
                    /\ Pending(t, "index_id", h)' \/ Indexed(t, "index_id", h)'
                    /\ HasRegistryParent(h) =>
                         Pending(t, "index_parent", h)' \/ Indexed(t, "index_parent", h)'
  BY DEF Owed, Ran, Pending, Indexed, Tables
<1>1. /\ Pending(t, "create", h) \/ h \in Tables(out[t])
      /\ Pending(t, "index_id", h) \/ Indexed(t, "index_id", h)
      /\ HasRegistryParent(h) => Pending(t, "index_parent", h) \/ Indexed(t, "index_parent", h)
  BY DEF Inv, Owed
<1>2. out' = out /\ out[t] \in Databases
  BY DEF Ran, Inv, Types
<1>3. ASSUME NEW p, Pending(t, p, h), ~Pending(t, p, h)' PROVE t = s /\ p = op /\ h = g
  <2>1. Statement(p, h) \in ToSet(script[t]) /\ Statement(p, h) \notin ToSet(script'[t])
    BY <1>3 DEF Pending
  <2>2. t = s
    BY <2>1, AfterRan
  <2>3. ToSet(script[s]) = {Head(script[s])} \cup ToSet(script'[s])
    BY AfterRan
  <2>4. Statement(p, h) = Statement(op, g)
    BY <2>1, <2>2, <2>3
  <2> QED
    BY <2>2, <2>4 DEF Statement
<1>4. h \in Tables(out[t]) => h \in Tables(out[t])'
  BY <1>2 DEF Kept, Tables
<1>5. ASSUME NEW p, Indexed(t, p, h) PROVE Indexed(t, p, h)'
  BY <1>2, <1>5 DEF Kept, Tables, Indexed
<1>6. ASSUME t = s, op \in {"create", "index_id", "index_parent"}, h = g
      PROVE  h \in Tables(out[t])' /\ (op # "create" => Indexed(t, op, h)')
  BY <1>2, <1>6 DEF Indexed, Tables
<1> QED
  BY <1>1, <1>3, <1>4, <1>5, <1>6

-----------------------------------------------------------------------------
(* The actions *)

LEMMA InitInv == Init => Inv
<1> SUFFICES ASSUME Init PROVE Inv
  OBVIOUS
<1>1. Types
  <2>1. <<>> \in Seq(Statements)
    OBVIOUS
  <2>2. [g \in {} |-> None] \in UNION {[D -> TableRecords] : D \in SUBSET Names}
    <3>1. [g \in {} |-> None] \in [{} -> TableRecords]
      OBVIOUS
    <3> QED
      BY <3>1
  <2> QED
    BY <2>1, <2>2 DEF Init, Types, Databases
<1>2. Filled
  BY DEF Init, Filled, Tables, Databases
<1>3. Shaped
  BY DEF Init, Shaped, Shape
<1>4. OneHolder
  BY DEF Init, OneHolder, AliasReleased, Holding
<1>5. Owed
  BY DEF Init, Owed
<1> QED
  BY <1>1, <1>2, <1>3, <1>4, <1>5 DEF Inv

LEMMA ReplaceInv ==
  ASSUME Inv, NEW f \in Files, Replace(f)
  PROVE  Inv'
BY DEF Inv, Replace, Types, Filled, Tables, Shaped, OneHolder, AliasReleased, Holding, Owed,
       Pending, Indexed, sessionVars

LEMMA GenerateInv ==
  ASSUME Inv, NEW s \in Sessions, NEW place \in Databases, NEW stmts \in Seq(Statements),
         Shape(stmts, place), place # Main => stmts # <<>> /\ Head(stmts).op = "attach",
         ToSet(AllGroups(disk)) \subseteq ToSet(stmts), Generate(s, place, stmts)
  PROVE  Inv'
<1>1. /\ script' = [script EXCEPT ![s] = stmts]
      /\ status' = [status EXCEPT ![s] = "running"]
      /\ out' = [out EXCEPT ![s] = place]
      /\ source' = [source EXCEPT ![s] = disk]
      /\ status[s] # "running"
      /\ UNCHANGED <<disk, attached, db, abandoned>>
  BY DEF Generate
<1>2. Types
  BY DEF Inv
<1>3. Types'
  <2> USE <1>1, <1>2 DEF Types
  <2>1. script' \in [Sessions -> Seq(Statements)]
    OBVIOUS
  <2>2. /\ status' \in [Sessions -> {"idle", "running", "finished", "failed"}]
        /\ out' \in [Sessions -> Databases]
        /\ source' \in [Sessions -> Files]
    OBVIOUS
  <2> QED
    BY <2>1, <2>2
<1>4. /\ script'[s] = stmts /\ status'[s] = "running" /\ out'[s] = place /\ source'[s] = disk
      /\ \A t \in Sessions : t # s => /\ script'[t] = script[t] /\ status'[t] = status[t]
                                     /\ out'[t] = out[t] /\ source'[t] = source[t]
  BY <1>1, <1>2 DEF Types
<1>5. Filled'
  BY <1>1 DEF Inv, Filled, Tables
<1>6. Shaped'
  <2> SUFFICES ASSUME NEW t \in Sessions
               PROVE  /\ status'[t] # "running" => script'[t] = <<>>
                      /\ Shape(script'[t], out'[t])
    BY DEF Shaped, Shape
  <2> QED
    BY <1>4 DEF Inv, Shaped
<1>7. OneHolder'
  <2>1. \A t \in Sessions : Holding(t)' <=> Holding(t)
    BY <1>1, <1>4 DEF Holding
  <2>2. \A t \in Sessions : Holding(t) => out'[t] = out[t]
    BY <1>1, <1>4 DEF Holding
  <2> QED
    BY <1>1, <2>1, <2>2, SameHolders
<1>8. Owed'
  <2>1. \A g \in Groups(disk) : /\ Pending(s, "create", g)' /\ Pending(s, "index_id", g)'
                                /\ HasRegistryParent(g) => Pending(s, "index_parent", g)'
    BY <1>2, <1>4, AllGroupsStatements DEF Types, Pending
  <2> SUFFICES ASSUME NEW t \in Sessions, status'[t] \in {"running", "finished"},
                      NEW h \in Groups(source'[t])
               PROVE  /\ Pending(t, "create", h)' \/ h \in Tables(out'[t])
                      /\ Pending(t, "index_id", h)' \/ Indexed(t, "index_id", h)'
                      /\ HasRegistryParent(h) =>
                           Pending(t, "index_parent", h)' \/ Indexed(t, "index_parent", h)'
    BY <1>1 DEF Owed, Tables
  <2>2. CASE t = s
    BY <1>4, <2>1, <2>2
  <2>3. CASE t # s
    <3>1. status[t] \in {"running", "finished"} /\ h \in Groups(source[t])
      BY <1>4, <2>3
    <3> QED
      BY <1>1, <1>4, <2>3, <3>1 DEF Inv, Owed, Pending, Indexed, Tables
  <2> QED
    BY <2>2, <2>3
<1> QED
  BY <1>3, <1>5, <1>6, <1>7, <1>8 DEF Inv

LEMMA AttachInv ==
  ASSUME Inv, NEW s \in Sessions, Attach(s)
  PROVE  Inv'
<1>1. /\ Upcoming(s, "attach") /\ Ran(s) /\ attached = NotAttached /\ attached' = out[s]
      /\ db' = db /\ UNCHANGED <<disk, status, out, source, abandoned>>
  BY DEF Attach, Ran
<1>2. /\ script' \in [Sessions -> Seq(Statements)] /\ Shaped'
      /\ \A t \in Sessions : t # s => (Holding(t)' <=> Holding(t))
      /\ out[s] # Main /\ Holding(s)' /\ Head(script[s]) \in Statements
  BY <1>1, AfterRan DEF MaterialOps
<1>3. out[s] \in Outs
  BY <1>2 DEF Inv, Types, Databases
<1>4. Types' /\ Filled'
  BY <1>1, <1>2, <1>3 DEF Inv, Types, Filled, Tables
<1>5. OneHolder'
  <2>1. \A t \in Sessions : ~Holding(t)
    <3>1. \A t \in Sessions : Holding(t) => attached = out[t] /\ out[t] \in Outs
      BY DEF Inv, OneHolder, Types, Databases, Holding
    <3> QED
      BY <1>1, <3>1, PlacesAssumption
  <2> QED
    BY <1>1, <1>2, <2>1 DEF OneHolder, AliasReleased
<1>6. Owed'
  <2>1. Head(script[s]) = Statement("attach", Head(script[s]).group)
    BY <1>1, <1>2 DEF Statements, Statement, Upcoming
  <2>2. Kept
    BY <1>1 DEF Kept, Tables
  <2> QED
    BY <1>1, <2>1, <2>2, OwedKept
<1> QED
  BY <1>2, <1>4, <1>5, <1>6 DEF Inv

LEMMA DetachInv ==
  ASSUME Inv, NEW s \in Sessions, Detach(s)
  PROVE  Inv'
<1>1. /\ Upcoming(s, "detach") /\ Ran(s) /\ attached' = NotAttached
      /\ db' = db /\ UNCHANGED <<disk, status, out, source, abandoned>>
  BY DEF Detach, Ran
<1>2. /\ script' \in [Sessions -> Seq(Statements)] /\ Shaped'
      /\ \A t \in Sessions : t # s => (Holding(t)' <=> Holding(t))
      /\ Holding(s) /\ ~Holding(s)' /\ Head(script[s]) \in Statements
  BY <1>1, AfterRan DEF MaterialOps
<1>3. Types' /\ Filled'
  BY <1>1, <1>2 DEF Inv, Types, Filled, Tables
<1>4. OneHolder'
  BY <1>1, <1>2 DEF Inv, OneHolder, AliasReleased
<1>5. Owed'
  <2>1. Head(script[s]) = Statement("detach", Head(script[s]).group)
    BY <1>1, <1>2 DEF Statements, Statement, Upcoming
  <2>2. Kept
    BY <1>1 DEF Kept, Tables
  <2> QED
    BY <1>1, <2>1, <2>2, OwedKept
<1> QED
  BY <1>2, <1>3, <1>4, <1>5 DEF Inv

\* A statement that materialises a group works on the session's own database.
LEMMA OwnPlace ==
  ASSUME Inv, NEW s \in Sessions, NEW op \in MaterialOps, Upcoming(s, op)
  PROVE  Place(s) = out[s] /\ out[s] \in Databases
<1>1. out[s] # Main => Holding(s)
  BY DEF Upcoming, Holding, MaterialOps
<1> QED
  BY <1>1 DEF Inv, OneHolder, Place, Types

\* The holders are the same after a statement that materialises a group.
LEMMA MaterialHolders ==
  ASSUME Inv, NEW s \in Sessions, NEW op \in MaterialOps, Upcoming(s, op), Ran(s),
         attached' = attached
  PROVE  OneHolder'
<1>1. \A t \in Sessions : Holding(t)' <=> Holding(t)
  BY AfterRan DEF MaterialOps
<1>2. out' = out /\ abandoned' = abandoned
  BY DEF Ran
<1> QED
  BY <1>1, <1>2, SameHolders

LEMMA CreateInv ==
  ASSUME Inv, NEW s \in Sessions, Create(s)
  PROVE  Inv'
<1> DEFINE g == Head(script[s]).group
           place == out[s]
           table == [from |-> disk, by |-> place, indexed |-> {}]
           grown == [h \in DOMAIN db[place] \cup {g} |-> IF h = g THEN table ELSE db[place][h]]
<1>1. /\ Upcoming(s, "create") /\ Ran(s) /\ attached' = attached
      /\ UNCHANGED <<disk, status, out, source, abandoned>>
  BY DEF Create, Ran
<1>2. Place(s) = place /\ place \in Databases
  BY <1>1, OwnPlace DEF MaterialOps
<1>3. /\ Binds(disk, g) /\ g \notin DOMAIN db[place]
      /\ db' = [db EXCEPT ![place] = grown]
  BY <1>2 DEF Create, CanCreate
<1>4. Types /\ disk \in Files /\ g \in Groups(disk) /\ g \in Names
  BY <1>3 DEF Inv, Types, Binds, Names
<1>5. PICK D \in SUBSET Names : db[place] \in [D -> TableRecords]
  BY <1>2, <1>4 DEF Types
<1>6. table \in TableRecords
  BY <1>2, <1>4 DEF TableRecords
<1>7. grown \in [D \cup {g} -> TableRecords]
  <2> HIDE DEF table, g, place
  <2> QED
    BY <1>5, <1>6
<1>8. /\ db' \in [Databases -> UNION {[X -> TableRecords] : X \in SUBSET Names}]
      /\ db'[place] = grown
      /\ \A p \in Databases : p # place => db'[p] = db[p]
  <2>1. grown \in UNION {[X -> TableRecords] : X \in SUBSET Names}
    <3>1. D \cup {g} \in SUBSET Names
      BY <1>4
    <3> HIDE DEF g, grown
    <3> QED
      BY <1>7, <3>1
  <2> HIDE DEF g, place, table, grown
  <2> QED
    BY <1>2, <1>3, <1>4, <2>1 DEF Types
<1> HIDE DEF g, place
<1>9. Types'
  BY <1>1, <1>4, <1>8, AfterRan DEF Types
<1>10. Filled'
  <2> SUFFICES ASSUME NEW p \in Databases, NEW h \in Tables(p)'
               PROVE  h \in Groups(db'[p][h].from) /\ db'[p][h].by = p
    BY DEF Filled, Tables
  <2>1. CASE p = place /\ h = g
    BY <1>4, <1>8, <2>1
  <2>2. CASE p = place /\ h # g
    BY <1>8, <2>2 DEF Inv, Filled, Tables
  <2>3. CASE p # place
    BY <1>8, <2>3 DEF Inv, Filled, Tables
  <2> QED
    BY <2>1, <2>2, <2>3
<1>11. Owed'
  <2>1. Head(script[s]) = Statement("create", g)
    BY <1>1, AfterRan DEF Statements, Statement, Upcoming, g
  <2>2. Kept
    <3> SUFFICES ASSUME NEW p \in Databases, NEW h \in Tables(p)
                 PROVE  h \in Tables(p)' /\ db[p][h].indexed \subseteq db'[p][h].indexed
      BY DEF Kept
    <3>1. CASE p = place
      BY <1>3, <1>8, <3>1 DEF Tables
    <3>2. CASE p # place
      BY <1>8, <3>2 DEF Tables
    <3> QED
      BY <3>1, <3>2
  <2>3. g \in Tables(out[s])'
    BY <1>1, <1>8 DEF Tables, place
  <2> QED
    BY <1>1, <2>1, <2>2, <2>3, OwedKept
<1> QED
  BY <1>1, <1>9, <1>10, <1>11, AfterRan, MaterialHolders DEF Inv, MaterialOps

LEMMA CreateIndexInv ==
  ASSUME Inv, NEW s \in Sessions, NEW op \in {"index_id", "index_parent"}, CreateIndex(s, op)
  PROVE  Inv'
<1> DEFINE g == Head(script[s]).group
           place == out[s]
           table == [db[place][g] EXCEPT !.indexed = @ \cup {op}]
           indexed == [db[place] EXCEPT ![g] = table]
<1>1. /\ Upcoming(s, op) /\ Ran(s) /\ attached' = attached /\ op \in MaterialOps
      /\ UNCHANGED <<disk, status, out, source, abandoned>>
  BY DEF CreateIndex, Ran, MaterialOps
<1>2. Place(s) = place /\ place \in Databases
  BY <1>1, OwnPlace
<1>3. g \in DOMAIN db[place] /\ db' = [db EXCEPT ![place] = indexed]
  BY <1>2 DEF CreateIndex, CanIndex
<1>4. Types
  BY DEF Inv
<1>5. PICK D \in SUBSET Names : db[place] \in [D -> TableRecords]
  BY <1>2, <1>4 DEF Types
<1>6. /\ table \in TableRecords /\ table.from = db[place][g].from
      /\ table.by = db[place][g].by /\ table.indexed = db[place][g].indexed \cup {op}
  <2>1. db[place][g] \in TableRecords
    BY <1>3, <1>5
  <2> QED
    BY <2>1 DEF TableRecords
<1>7. indexed \in [D -> TableRecords]
  <2> HIDE DEF table, g, place
  <2> QED
    BY <1>5, <1>6
<1>8. /\ db' \in [Databases -> UNION {[X -> TableRecords] : X \in SUBSET Names}]
      /\ db'[place] = indexed
      /\ \A p \in Databases : p # place => db'[p] = db[p]
  <2>1. indexed \in UNION {[X -> TableRecords] : X \in SUBSET Names}
    <3> HIDE DEF g, indexed
    <3> QED
      BY <1>5, <1>7
  <2> HIDE DEF g, place, table, indexed
  <2> QED
    BY <1>2, <1>3, <1>4, <2>1 DEF Types
<1>9. /\ DOMAIN db'[place] = DOMAIN db[place] /\ db'[place][g] = table
      /\ \A h \in DOMAIN db[place] : h # g => db'[place][h] = db[place][h]
  <2> HIDE DEF g, place, table
  <2> QED
    BY <1>3, <1>5, <1>8
<1> HIDE DEF g, place, table
<1>10. Types'
  BY <1>1, <1>4, <1>8, AfterRan DEF Types
<1>11. Filled'
  <2> SUFFICES ASSUME NEW p \in Databases, NEW h \in Tables(p)'
               PROVE  h \in Groups(db'[p][h].from) /\ db'[p][h].by = p
    BY DEF Filled, Tables
  <2>1. CASE p = place /\ h = g
    BY <1>3, <1>6, <1>9, <2>1 DEF Inv, Filled, Tables
  <2>2. CASE p = place /\ h # g
    BY <1>9, <2>2 DEF Inv, Filled, Tables
  <2>3. CASE p # place
    BY <1>8, <2>3 DEF Inv, Filled, Tables
  <2> QED
    BY <2>1, <2>2, <2>3
<1>12. Owed'
  <2>1. Head(script[s]) = Statement(op, g)
    BY <1>1, AfterRan DEF Statements, Statement, Upcoming, g
  <2>2. Kept
    <3> SUFFICES ASSUME NEW p \in Databases, NEW h \in Tables(p)
                 PROVE  h \in Tables(p)' /\ db[p][h].indexed \subseteq db'[p][h].indexed
      BY DEF Kept
    <3>1. CASE p = place /\ h = g
      BY <1>6, <1>9, <3>1 DEF Tables
    <3>2. CASE p = place /\ h # g
      BY <1>9, <3>2 DEF Tables
    <3>3. CASE p # place
      BY <1>8, <3>3 DEF Tables
    <3> QED
      BY <3>1, <3>2, <3>3
  <2>3. g \in Tables(out[s])' /\ op \in db'[out[s]][g].indexed
    BY <1>1, <1>3, <1>6, <1>9 DEF Tables, place
  <2> QED
    BY <1>1, <2>1, <2>2, <2>3, OwedKept
<1> QED
  BY <1>1, <1>10, <1>11, <1>12, AfterRan, MaterialHolders DEF Inv

LEMMA StopInv ==
  ASSUME Inv, NEW s \in Sessions, NEW how \in {"finished", "failed"}, Stop(s, how),
         status[s] = "running", how = "finished" => script[s] = <<>>,
         abandoned' = (abandoned \/ Holding(s))
  PROVE  Inv'
<1>1. /\ status' = [status EXCEPT ![s] = how]
      /\ script' = [script EXCEPT ![s] = <<>>]
      /\ UNCHANGED <<disk, attached, db, out, source>>
  BY DEF Stop
<1>2. /\ script' \in [Sessions -> Seq(Statements)] /\ script'[s] = <<>> /\ status'[s] = how
      /\ status' \in [Sessions -> {"idle", "running", "finished", "failed"}]
      /\ \A t \in Sessions : t # s => script'[t] = script[t] /\ status'[t] = status[t]
  BY <1>1 DEF Inv, Types
<1>3. Types' /\ Filled'
  BY <1>1, <1>2 DEF Inv, Types, Filled, Tables, Holding
<1>4. Shaped'
  <2> SUFFICES ASSUME NEW t \in Sessions
               PROVE  /\ status'[t] # "running" => script'[t] = <<>>
                      /\ Shape(script'[t], out[t])
    BY <1>1 DEF Shaped, Shape
  <2>1. Shape(<<>>, out[t])
    BY DEF Shape
  <2> QED
    BY <1>1, <1>2, <2>1 DEF Inv, Shaped
<1>5. OneHolder'
  <2>1. ~Holding(s)' /\ \A t \in Sessions : t # s => (Holding(t)' <=> Holding(t))
    BY <1>1, <1>2 DEF Holding
  <2> QED
    BY <1>1, <2>1 DEF Inv, OneHolder, AliasReleased
<1>6. Owed'
  <2> SUFFICES ASSUME NEW t \in Sessions, status'[t] \in {"running", "finished"},
                      NEW h \in Groups(source[t])
               PROVE  /\ Pending(t, "create", h)' \/ h \in Tables(out[t])
                      /\ Pending(t, "index_id", h)' \/ Indexed(t, "index_id", h)
                      /\ HasRegistryParent(h) =>
                           Pending(t, "index_parent", h)' \/ Indexed(t, "index_parent", h)
    BY <1>1 DEF Owed, Indexed, Tables
  <2>1. script'[t] = script[t] /\ status[t] \in {"running", "finished"}
    BY <1>2
  <2> QED
    BY <1>1, <2>1 DEF Inv, Owed, Pending
<1> QED
  BY <1>3, <1>4, <1>5, <1>6 DEF Inv

LEMMA CleanUpInv ==
  ASSUME Inv, CleanUp
  PROVE  Inv'
<1>1. \A s \in Sessions : ~Holding(s) /\ ~Holding(s)'
  BY DEF CleanUp, Holding, sessionVars
<1>2. OneHolder'
  BY <1>1 DEF CleanUp, OneHolder, AliasReleased
<1> QED
  BY <1>2 DEF Inv, CleanUp, Types, Filled, Tables, Shaped, Owed, Pending, Indexed, sessionVars

LEMMA CrashInv ==
  ASSUME Inv, Crash
  PROVE  Inv'
<1>1. /\ attached' = NotAttached /\ abandoned' = FALSE
      /\ script' = [s \in Sessions |-> <<>>] /\ status' = [s \in Sessions |-> "idle"]
      /\ UNCHANGED <<disk, db, out, source>>
  BY DEF Crash
<1>2. Types'
  <2>1. script' \in [Sessions -> Seq(Statements)]
    BY <1>1
  <2>2. status' \in [Sessions -> {"idle", "running", "finished", "failed"}]
    BY <1>1
  <2> QED
    BY <1>1, <2>1, <2>2 DEF Inv, Types
<1>3. Shaped' /\ OneHolder' /\ Owed'
  BY <1>1 DEF Shaped, Shape, OneHolder, AliasReleased, Holding, Owed
<1> QED
  BY <1>1, <1>2, <1>3 DEF Inv, Filled, Tables

LEMMA GenerateFailsInv ==
  ASSUME Inv, NEW s \in Sessions, GenerateFails(s)
  PROVE  Inv'
<1>1. /\ status' = [status EXCEPT ![s] = "failed"] /\ status[s] # "running"
      /\ UNCHANGED <<disk, attached, db, script, out, source, abandoned>>
  BY DEF GenerateFails
<1>2. Types'
  <2>1. status' \in [Sessions -> {"idle", "running", "finished", "failed"}]
    BY <1>1 DEF Inv, Types
  <2> QED
    BY <1>1, <2>1 DEF Inv, Types
<1>3. status'[s] = "failed" /\ \A t \in Sessions : t # s => status'[t] = status[t]
  BY <1>1 DEF Inv, Types
<1>4. \A t \in Sessions : Holding(t)' <=> Holding(t)
  BY <1>1, <1>3 DEF Holding
<1>5. Filled'
  BY <1>1 DEF Inv, Filled, Tables
<1>6. Shaped'
  BY <1>1, <1>3 DEF Inv, Shaped, Shape
<1>7. OneHolder' /\ AliasReleased'
  BY <1>1, <1>4 DEF Inv, OneHolder, AliasReleased
<1>8. Owed'
  BY <1>1, <1>3 DEF Inv, Owed, Pending, Indexed, Tables
<1> QED
  BY <1>2, <1>5, <1>6, <1>7, <1>8 DEF Inv

LEMMA NextInv ==
  ASSUME Inv, [Next]_vars
  PROVE  Inv'
<1>0. disk \in Files /\ Main \in Databases /\ Outs \subseteq Databases
  BY DEF Inv, Types, Databases
<1>1. ASSUME NEW f \in Files, Replace(f) PROVE Inv'
  BY <1>1, ReplaceInv
<1>2. ASSUME NEW s \in Sessions, Load(s) PROVE Inv'
  <2>1. LoadAgs(disk) = AllGroups(disk) /\ Shape(LoadAgs(disk), Main) /\ Generate(s, Main, LoadAgs(disk))
    BY <1>0, <1>2, LoadAgsScript DEF Load
  <2>2. AllGroups(disk) \in Seq(Statements)
    BY <1>0, AllGroupsStatements
  <2> QED
    BY <1>0, <2>1, <2>2, GenerateInv
<1>3. ASSUME NEW s \in Sessions, NEW place \in Outs, Persist(s, place) PROVE Inv'
  <2>1. Generate(s, place, ToDuckdb(disk))
    BY <1>3 DEF Persist
  <2>2. /\ ToDuckdb(disk) \in Seq(Statements) /\ ToSet(AllGroups(disk)) \subseteq ToSet(ToDuckdb(disk))
        /\ Shape(ToDuckdb(disk), place) /\ ToDuckdb(disk) # <<>>
        /\ Head(ToDuckdb(disk)).op = "attach"
    BY <1>0, ToDuckdbScript
  <2> QED
    BY <1>0, <2>1, <2>2, GenerateInv
<1>8. ASSUME NEW s \in Sessions, GenerateFails(s) PROVE Inv'
  BY <1>8, GenerateFailsInv
<1>4. ASSUME NEW s \in Sessions, Run(s) PROVE Inv'
  <2>1. CASE Attach(s)
    BY <2>1, AttachInv
  <2>2. CASE Detach(s)
    BY <2>2, DetachInv
  <2>3. CASE Create(s)
    BY <2>3, CreateInv
  <2>4. CASE \E op \in {"index_id", "index_parent"} : CreateIndex(s, op)
    BY <2>4, CreateIndexInv
  <2>5. CASE Fail(s)
    BY <2>5, StopInv DEF Fail, Refused, Upcoming
  <2>6. CASE Finish(s)
    <3>1. ~Holding(s)
      BY <2>6 DEF Finish, Holding
    <3> QED
      BY <2>6, <3>1, StopInv DEF Finish, Inv, Types
  <2> QED
    BY <1>4, <2>1, <2>2, <2>3, <2>4, <2>5, <2>6 DEF Run
<1>5. CASE CleanUp
  BY <1>5, CleanUpInv
<1>6. CASE Crash
  BY <1>6, CrashInv
<1>7. CASE UNCHANGED vars
  BY <1>7 DEF vars, Inv, Types, Filled, Tables, Shaped, OneHolder, AliasReleased, Holding, Owed,
              Pending, Indexed
<1> QED
  BY <1>1, <1>2, <1>3, <1>4, <1>5, <1>6, <1>7, <1>8 DEF Next, Done

THEOREM Invariance == Spec => []Inv
<1> QED
  BY InitInv, NextInv, PTL DEF Spec

-----------------------------------------------------------------------------
(* The theorems *)

\* Every table was read from a version of the file that has its group, and the
\* state has its types (load.rs, to_duckdb.rs).
THEOREM TypesHold == Spec => []TypeOK
<1>1. Inv => TypeOK
  <2> SUFFICES ASSUME Inv PROVE TypeOK
    OBVIOUS
  <2>1. ASSUME NEW s \in Sessions, NEW i \in DOMAIN script[s] PROVE script[s][i].op \in Ops
    <3>1. script[s][i] \in Statements
      BY DEF Inv, Types
    <3> QED
      BY <3>1 DEF Statements
  <2>2. ASSUME NEW place \in DOMAIN db, NEW g \in Tables(place)
        PROVE  db[place][g].from \in Files /\ g \in Groups(db[place][g].from)
    <3>1. place \in Databases
      BY DEF Inv, Types
    <3>2. PICK D \in SUBSET Names : db[place] \in [D -> TableRecords]
      BY <3>1 DEF Inv, Types
    <3>3. db[place][g] \in TableRecords
      BY <3>2 DEF Tables
    <3> QED
      BY <3>1, <3>3 DEF TableRecords, Inv, Filled
  <2> QED
    BY <2>1, <2>2 DEF Inv, Types, TypeOK, Databases
<1> QED
  BY <1>1, Invariance, PTL

\* What one session's script creates never lands in the destination of
\* another's, although they share one alias (to_duckdb.rs).
THEOREM OwnDestinationHolds == Spec => []OwnDestination
<1>1. Inv => OwnDestination
  BY DEF Inv, Types, Filled, OwnDestination
<1> QED
  BY <1>1, Invariance, PTL

\* A script that ran to its end left nothing out, whatever the file and the
\* other sessions did meanwhile (load.rs).
THEOREM FinishedIsCompleteHolds == Spec => []FinishedIsComplete
<1>1. Inv => FinishedIsComplete
  <2> SUFFICES ASSUME Inv, NEW s \in Sessions, status[s] = "finished", NEW g \in Groups(source[s])
               PROVE  /\ g \in Tables(out[s])
                      /\ "index_id" \in db[out[s]][g].indexed
                      /\ HasRegistryParent(g) => "index_parent" \in db[out[s]][g].indexed
    BY DEF FinishedIsComplete
  <2>1. ToSet(script[s]) = {}
    BY DEF Inv, Shaped, ToSet
  <2> QED
    BY <2>1 DEF Inv, Owed, Pending, Indexed
<1> QED
  BY <1>1, Invariance, PTL

\* The alias stays attached only under a script that still uses it, or after
\* one that failed half way (to_duckdb.rs).
THEOREM AliasReleasedHolds == Spec => []AliasReleased
<1>1. Inv => AliasReleased
  BY DEF Inv, OneHolder
<1> QED
  BY <1>1, Invariance, PTL

=============================================================================
