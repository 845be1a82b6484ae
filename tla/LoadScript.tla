----------------------------- MODULE LoadScript -----------------------------
(***************************************************************************)
(* load_ags (src/src/load.rs) and to_duckdb (src/src/to_duckdb.rs) do not  *)
(* run any DDL: they return statements, in order, that a session then      *)
(* executes one by one against the database.  Between two statements the   *)
(* file may be replaced and other sessions run scripts of their own; a     *)
(* session stops at the first statement that fails.                        *)
(***************************************************************************)
EXTENDS Integers, SequencesExt

CONSTANTS
  Sessions,
  Files,          \* versions of the AGS file: [order, declared, pgrp]
  Registry,       \* standard group -> its registry parent, or NoParent
  NoParent,
  Main,           \* the database a session is connected to
  Outs,           \* destination paths handed to to_duckdb
  NotAttached,
  MaxScripts,     \* bound: scripts started
  MaxEdits,       \* bound: replacements of the file
  MaxCrashes      \* bound: crashes of the host process

Groups(f) == ToSet(f.order)

ASSUME FilesAssumption ==
  \A f \in Files : f.order \in Seq(Groups(f)) /\ f.declared \cap DOMAIN Registry = {}
ASSUME PlacesAssumption == Main \notin Outs /\ NotAttached \notin Outs

VARIABLES
  disk,      \* the file at the path
  attached,  \* what the alias _lat_out stands for: one for the whole process
  db,        \* database -> its tables: group -> [from, by, indexed]
  script,    \* session -> the statements it has still to run
  status,    \* session -> idle, running, finished, failed
  out,       \* session -> the destination of its script
  source,    \* session -> the file its script was generated from
  abandoned, \* history: a script failed with the alias attached
  scripts, edits, crashes

sessionVars == <<script, status, out, source>>
boundVars == <<scripts, edits, crashes>>
vars == <<disk, attached, db, script, status, out, source, abandoned,
          scripts, edits, crashes>>

\* The SQL a statement stands for, without its text.
Statement(op, g) == [op |-> op, group |-> g]
None == "none"

\* Root groups and groups the registry does not know get no parent index.
HasRegistryParent(g) == g \in DOMAIN Registry /\ Registry[g] # NoParent

GroupStatements(g) ==
  <<Statement("create", g), Statement("index_id", g)>>
    \o (IF HasRegistryParent(g) THEN <<Statement("index_parent", g)>> ELSE <<>>)

\* Mutant: the last group is left out.
ButLastGroup(f) == FlattenSeq([i \in 1..Len(f.order) - 1 |-> GroupStatements(f.order[i])])

\* parsed.order(): the groups of the file, bindable or not.
AllGroups(f) == FlattenSeq([i \in DOMAIN f.order |-> GroupStatements(f.order[i])])

LoadAgs(f) == AllGroups(f)

\* Mutant: the closing DETACH is missing.
ToDuckdbOpenEnded(f) == <<Statement("attach", None)>> \o AllGroups(f)

ToDuckdb(f) ==
  <<Statement("attach", None)>> \o AllGroups(f) \o <<Statement("detach", None)>>

\* Mutant: any group named in the script binds.
BindsAny(f, g) == TRUE

\* read_ags: the group is in the file, and the registry or the file declares it.
Binds(f, g) == g \in Groups(f) /\ (g \in DOMAIN Registry \/ g \in f.declared)

Init ==
  /\ disk \in Files
  /\ attached = NotAttached
  /\ db = [place \in {Main} \cup Outs |-> [g \in {} |-> None]]
  /\ script = [s \in Sessions |-> <<>>]
  /\ status = [s \in Sessions |-> "idle"]
  /\ out = [s \in Sessions |-> Main]
  /\ source = [s \in Sessions |-> disk]
  /\ abandoned = FALSE
  /\ scripts = 0
  /\ edits = 0
  /\ crashes = 0

\* The file is replaced by another version.
Replace(f) ==
  /\ edits < MaxEdits
  /\ f # disk
  /\ edits' = edits + 1
  /\ disk' = f
  /\ UNCHANGED <<attached, db, sessionVars, abandoned, scripts, crashes>>

\* The table function binds: the statements are fixed from the file as it is now.
Generate(s, place, statements) ==
  /\ status[s] # "running"
  /\ scripts < MaxScripts
  /\ scripts' = scripts + 1
  /\ script' = [script EXCEPT ![s] = statements]
  /\ status' = [status EXCEPT ![s] = "running"]
  /\ out' = [out EXCEPT ![s] = place]
  /\ source' = [source EXCEPT ![s] = disk]
  /\ UNCHANGED <<disk, attached, db, abandoned, edits, crashes>>

\* The file cannot be opened, read or parsed: the session has no script.
GenerateFails(s) ==
  /\ status[s] # "running"
  /\ scripts < MaxScripts
  /\ scripts' = scripts + 1
  /\ status' = [status EXCEPT ![s] = "failed"]
  /\ UNCHANGED <<disk, attached, db, script, out, source, abandoned, edits, crashes>>

Load(s) == Generate(s, Main, LoadAgs(disk))
Persist(s, place) == place \in Outs /\ Generate(s, place, ToDuckdb(disk))

-----------------------------------------------------------------------------
(* The database runs a statement *)

Upcoming(s, op) ==
  /\ status[s] = "running"
  /\ script[s] # <<>>
  /\ Head(script[s]).op = op

Ran(s) ==
  /\ script' = [script EXCEPT ![s] = Tail(@)]
  /\ UNCHANGED <<disk, status, out, source, abandoned, boundVars>>

\* The alias stands for the destination; a table without a qualifier goes to
\* the database the session is connected to.
Place(s) == IF out[s] = Main THEN Main ELSE attached

\* Mutant: an alias in use is left as it is.
AttachIfFree(s) ==
  /\ Upcoming(s, "attach")
  /\ attached' = IF attached = NotAttached THEN out[s] ELSE attached
  /\ Ran(s)
  /\ UNCHANGED db

Attach(s) ==
  /\ Upcoming(s, "attach")
  /\ attached = NotAttached
  /\ attached' = out[s]
  /\ Ran(s)
  /\ UNCHANGED db

Detach(s) ==
  /\ Upcoming(s, "detach")
  /\ attached # NotAttached
  /\ attached' = NotAttached
  /\ Ran(s)
  /\ UNCHANGED db

CanCreate(s) ==
  LET g == Head(script[s]).group
  IN Place(s) # NotAttached /\ Binds(disk, g) /\ g \notin DOMAIN db[Place(s)]

\* CREATE TABLE ... AS reads the file as it is now.
Create(s) ==
  /\ Upcoming(s, "create")
  /\ CanCreate(s)
  /\ LET g == Head(script[s]).group
         table == [from |-> disk, by |-> out[s], indexed |-> {}]
     IN db' = [db EXCEPT ![Place(s)] =
                 [h \in DOMAIN @ \cup {g} |-> IF h = g THEN table ELSE @[h]]]
  /\ Ran(s)
  /\ UNCHANGED attached

\* An index needs its table, and a name that is free.
CanIndex(s, op) ==
  LET g == Head(script[s]).group
  IN Place(s) # NotAttached /\ g \in DOMAIN db[Place(s)] /\ op \notin db[Place(s)][g].indexed

CreateIndex(s, op) ==
  /\ Upcoming(s, op)
  /\ CanIndex(s, op)
  /\ db' = [db EXCEPT ![Place(s)][Head(script[s]).group].indexed = @ \cup {op}]
  /\ Ran(s)
  /\ UNCHANGED attached

\* What the database refuses ends the script where it is; a CREATE also fails
\* where it cannot read the file, which may be at any time.
Refused(s) ==
  \/ Upcoming(s, "attach") /\ attached # NotAttached
  \/ Upcoming(s, "detach") /\ attached = NotAttached
  \/ Upcoming(s, "create")
  \/ \E op \in {"index_id", "index_parent"} : Upcoming(s, op) /\ ~CanIndex(s, op)

Stop(s, how) ==
  /\ status' = [status EXCEPT ![s] = how]
  /\ script' = [script EXCEPT ![s] = <<>>]
  /\ UNCHANGED <<disk, attached, db, out, source, boundVars>>

\* A session between the ATTACH and the DETACH of its own script.
Holding(s) ==
  /\ status[s] = "running"
  /\ out[s] # Main
  /\ script[s] # <<>>
  /\ Head(script[s]).op # "attach"

Fail(s) ==
  /\ Refused(s)
  /\ Stop(s, "failed")
  /\ abandoned' = (abandoned \/ Holding(s))

Finish(s) ==
  /\ status[s] = "running"
  /\ script[s] = <<>>
  /\ Stop(s, "finished")
  /\ UNCHANGED abandoned

\* The user clears the alias an aborted script left behind.
CleanUp ==
  /\ attached # NotAttached
  /\ \A s \in Sessions : status[s] # "running"
  /\ attached' = NotAttached
  /\ abandoned' = FALSE
  /\ UNCHANGED <<disk, db, sessionVars, boundVars>>

\* The process dies: scripts and aliases are gone, what was created stays.
Crash ==
  /\ crashes < MaxCrashes
  /\ crashes' = crashes + 1
  /\ attached' = NotAttached
  /\ abandoned' = FALSE
  /\ script' = [s \in Sessions |-> <<>>]
  /\ status' = [s \in Sessions |-> "idle"]
  /\ UNCHANGED <<disk, db, out, source, scripts, edits>>

Run(s) ==
  \/ Attach(s) \/ Detach(s) \/ Create(s)
  \/ \E op \in {"index_id", "index_parent"} : CreateIndex(s, op)
  \/ Fail(s) \/ Finish(s)

Done ==
  /\ scripts = MaxScripts
  /\ \A s \in Sessions : status[s] # "running"
  /\ UNCHANGED vars

Next ==
  \/ \E f \in Files : Replace(f)
  \/ \E s \in Sessions : Load(s) \/ GenerateFails(s) \/ \E place \in Outs : Persist(s, place)
  \/ \E s \in Sessions : Run(s)
  \/ CleanUp \/ Crash \/ Done

Spec == Init /\ [][Next]_vars

-----------------------------------------------------------------------------
(* Properties *)

Ops == {"attach", "detach", "create", "index_id", "index_parent"}
Tables(place) == DOMAIN db[place]

\* Every table was read from a version of the file that binds its group.
TypeOK ==
  /\ disk \in Files
  /\ attached \in Outs \cup {NotAttached}
  /\ abandoned \in BOOLEAN
  /\ \A s \in Sessions :
       /\ status[s] \in {"idle", "running", "finished", "failed"}
       /\ \A i \in DOMAIN script[s] : script[s][i].op \in Ops
       /\ out[s] \in {Main} \cup Outs
       /\ source[s] \in Files
  /\ \A place \in DOMAIN db : \A g \in Tables(place) :
       /\ db[place][g].from \in Files
       /\ g \in Groups(db[place][g].from)

\* A script that runs to its end has materialised every group of the file it
\* was generated from, each with its id index, and each standard child with
\* its parent index, although the file was replaced and other sessions ran
\* scripts meanwhile: a group that went missing stops the script instead.
FinishedIsComplete ==
  \A s \in Sessions : status[s] = "finished" =>
    \A g \in Groups(source[s]) :
      /\ g \in Tables(out[s])
      /\ "index_id" \in db[out[s]][g].indexed
      /\ HasRegistryParent(g) => "index_parent" \in db[out[s]][g].indexed

\* The alias _lat_out is one name for the whole process, yet what one
\* session's script creates never lands in the destination of another's.
OwnDestination ==
  \A place \in DOMAIN db : \A g \in Tables(place) : db[place][g].by = place

\* The alias stays attached only under a script that is still using it, or
\* after one that failed half way: a script that finished has let it go.
AliasReleased == attached # NotAttached => abandoned \/ \E s \in Sessions : Holding(s)

\* load.rs: an index on _parent_id for non-root groups; a group is not a root
\* when the registry or the file's own DICT gives it a parent.
ParentIndexed ==
  \A s \in Sessions : status[s] = "finished" =>
    \A g \in Groups(source[s]) :
      HasRegistryParent(g) \/ source[s].pgrp[g] # NoParent =>
        "index_parent" \in db[out[s]][g].indexed
=============================================================================
