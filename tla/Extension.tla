------------------------------ MODULE Extension ------------------------------
(***************************************************************************)
(* What the extension borrows from its host and gives back: LOAD           *)
(* (src/src/lib.rs) registers the table functions over a connection of its *)
(* own, one handle at a time (register_table in src/src/ffi_table.rs);     *)
(* each bind of a registered function acquires the client context, the     *)
(* filesystem and its file handles (src/src/source.rs) in the order the    *)
(* producers open them, and every early return releases them.  Any call of *)
(* the host may fail.                                                      *)
(***************************************************************************)
EXTENDS Integers, Sequences, SequencesExt, FiniteSets

CONSTANTS
  Functions,   \* what LOAD registers, in order
  Reading,     \* those that read through the VFS
  Certified,   \* those that try a certificate first
  Binders,     \* the host's threads
  MaxLoads,    \* bound: LOADs
  MaxBinds     \* bound: binds

Names == ToSet(Functions)

ASSUME FunctionsAssumption ==
  /\ Functions \in Seq(Names) /\ IsInjective(Functions)
  /\ Certified \subseteq Reading /\ Reading \subseteq Names

VARIABLES
  load,      \* LOAD's next step: idle, api, database, connect, create, register, destroy, disconnect
  current,   \* the function being registered
  failed,    \* an error is on its way out of LOAD
  answer,    \* what the last LOAD returned: none, loaded, failed
  con,       \* the raw connection is open
  handle,    \* a table-function handle is held
  catalog,   \* the functions a query may call
  boxes,     \* boxed producers not yet freed
  loads,
  pc,        \* binder -> the next step of its bind
  fn,        \* binder -> the function it binds
  ctx, fs,   \* binder -> holds the client context, the filesystem
  open,      \* binder -> the file handles it holds
  binds

loadVars == <<load, current, failed, answer, con, handle, catalog, boxes, loads>>
bindVars == <<pc, fn, ctx, fs, open, binds>>
vars == <<load, current, failed, answer, con, handle, catalog, boxes, loads,
          pc, fn, ctx, fs, open, binds>>

Init ==
  /\ load = "idle"
  /\ current = 1
  /\ failed = FALSE
  /\ answer = "none"
  /\ con = FALSE
  /\ handle = FALSE
  /\ catalog = {}
  /\ boxes = 0
  /\ loads = 0
  /\ pc = [b \in Binders |-> "idle"]
  /\ fn = [b \in Binders |-> Functions[1]]
  /\ ctx = [b \in Binders |-> FALSE]
  /\ fs = [b \in Binders |-> FALSE]
  /\ open = [b \in Binders |-> {}]
  /\ binds = 0

-----------------------------------------------------------------------------
(* LOAD: init_internal, register, register_table *)

\* The host loads one extension at a time, and one that is not loaded.
Load ==
  /\ load = "idle"
  /\ answer # "loaded"
  /\ loads < MaxLoads
  /\ loads' = loads + 1
  /\ load' = "api"
  /\ current' = 1
  /\ failed' = FALSE
  /\ answer' = "none"
  /\ UNCHANGED <<con, handle, catalog, boxes, bindVars>>

LoadStep(from, to) ==
  /\ load = from
  /\ load' = to
  /\ UNCHANGED <<current, answer, loads, bindVars>>

\* LOAD returns, and an error of its own goes to set_error.
Return(result) ==
  /\ load' = "idle"
  /\ answer' = result
  /\ UNCHANGED <<current, failed, loads, bindVars>>

\* A host below the version floor, an access struct without what LOAD needs, a
\* database or a connection that is not handed out: nothing is held yet.
Refused ==
  /\ load \in {"api", "database", "connect"}
  /\ Return("failed")
  /\ UNCHANGED <<con, handle, catalog, boxes>>

InitApi == LoadStep("api", "database") /\ UNCHANGED <<failed, con, handle, catalog, boxes>>
GetDatabase == LoadStep("database", "connect") /\ UNCHANGED <<failed, con, handle, catalog, boxes>>

Connect ==
  /\ LoadStep("connect", "create")
  /\ con' = TRUE
  /\ UNCHANGED <<failed, handle, catalog, boxes>>

\* The handle is made and owns the boxed producer.
Create ==
  /\ current <= Len(Functions)
  /\ LoadStep("create", "register")
  /\ handle' = TRUE
  /\ boxes' = boxes + 1
  /\ UNCHANGED <<failed, con, catalog>>

\* Mutant: the error leaves without the connection being closed.
CreateFailsEarly ==
  /\ load = "create"
  /\ current <= Len(Functions)
  /\ Return("failed")
  /\ UNCHANGED <<con, handle, catalog, boxes>>

CreateFails ==
  /\ current <= Len(Functions)
  /\ LoadStep("create", "disconnect")
  /\ failed' = TRUE
  /\ UNCHANGED <<con, handle, catalog, boxes>>

\* The catalog shares the producer; it takes no second function of a name.
Register ==
  /\ LoadStep("register", "destroy")
  /\ Functions[current] \notin catalog
  /\ catalog' = catalog \cup {Functions[current]}
  /\ UNCHANGED <<failed, con, handle, boxes>>

\* Mutant: the state of the registration is not looked at.
RegisterFailsSilently ==
  /\ LoadStep("register", "destroy")
  /\ UNCHANGED <<failed, con, handle, catalog, boxes>>

RegisterFails ==
  /\ LoadStep("register", "destroy")
  /\ failed' = TRUE
  /\ UNCHANGED <<con, handle, catalog, boxes>>

\* The handle is destroyed whatever the registration said, and its producer is
\* freed with it unless the catalog shares it.
Destroy ==
  /\ load = "destroy"
  /\ handle' = FALSE
  /\ boxes' = IF failed THEN boxes - 1 ELSE boxes
  /\ load' = IF failed THEN "disconnect" ELSE "create"
  /\ current' = IF failed THEN current ELSE current + 1
  /\ UNCHANGED <<failed, answer, con, catalog, loads, bindVars>>

Registered ==
  /\ current > Len(Functions)
  /\ LoadStep("create", "disconnect")
  /\ UNCHANGED <<failed, con, handle, catalog, boxes>>

\* Disconnect, then the error if there is one.
Disconnect ==
  /\ load = "disconnect"
  /\ con' = FALSE
  /\ Return(IF failed THEN "failed" ELSE "loaded")
  /\ UNCHANGED <<handle, catalog, boxes>>

LoadProgress ==
  \/ InitApi \/ GetDatabase \/ Connect \/ Create \/ Register
  \/ Registered \/ Destroy \/ Disconnect

LoadFails == Refused \/ CreateFails \/ RegisterFails

-----------------------------------------------------------------------------
(* A bind: from_bind, open_for_read, sliced_group, the producers *)

\* A query may call what is registered, also while LOAD goes on.
Bind(b, f) ==
  /\ pc[b] = "idle"
  /\ f \in catalog
  /\ binds < MaxBinds
  /\ binds' = binds + 1
  /\ fn' = [fn EXCEPT ![b] = f]
  /\ pc' = [pc EXCEPT ![b] = IF f \in Reading THEN "context" ELSE "produce"]
  /\ UNCHANGED <<loadVars, ctx, fs, open>>

Goto(b, point) ==
  /\ pc' = [pc EXCEPT ![b] = point]
  /\ UNCHANGED <<loadVars, fn, binds>>

\* An argument is missing, or names no encoding: nothing is held yet.
BadArgument(b) == pc[b] = "context" /\ Goto(b, "idle") /\ UNCHANGED <<ctx, fs, open>>

GetContext(b) ==
  /\ pc[b] = "context"
  /\ Goto(b, "filesystem")
  /\ ctx' = [ctx EXCEPT ![b] = TRUE]
  /\ UNCHANGED <<fs, open>>

NoContext(b) == pc[b] = "context" /\ Goto(b, "idle") /\ UNCHANGED <<ctx, fs, open>>

\* Mutant: every function tries a certificate.
AnyCertified(b) ==
  /\ pc[b] = "filesystem"
  /\ fs' = [fs EXCEPT ![b] = TRUE]
  /\ Goto(b, "sidecar")
  /\ UNCHANGED <<ctx, open>>

\* A read in another encoding, and every other function, goes to the whole file.
GetFilesystem(b) ==
  /\ pc[b] = "filesystem"
  /\ fs' = [fs EXCEPT ![b] = TRUE]
  /\ \/ fn[b] \in Certified /\ Goto(b, "sidecar")
     \/ Goto(b, "whole")
  /\ UNCHANGED <<ctx, open>>

\* No Vfs is made, so nothing will drop the context later.
NoFilesystem(b) ==
  /\ pc[b] = "filesystem"
  /\ ctx' = [ctx EXCEPT ![b] = FALSE]
  /\ Goto(b, "idle")
  /\ UNCHANGED <<fs, open>>

Opening == {"sidecar", "slice", "whole"}

Open(b) ==
  /\ pc[b] \in Opening
  /\ pc[b] \notin open[b]
  /\ open' = [open EXCEPT ![b] = @ \cup {pc[b]}]
  /\ Goto(b, pc[b])
  /\ UNCHANGED <<ctx, fs>>

\* What a read leads to, and what its failure does: no certificate, a stale one
\* and a slice that will not do fall back; only the whole file's is an error.
After(point) == IF point = "sidecar" THEN "slice" ELSE "produce"

\* Mutant: a read that fails is tried again.
Retried(point) == point

Otherwise(point) == IF point = "whole" THEN "release" ELSE "whole"

OpenFails(b) ==
  /\ pc[b] \in Opening
  /\ pc[b] \notin open[b]
  /\ Goto(b, Otherwise(pc[b]))
  /\ UNCHANGED <<ctx, fs, open>>

\* Mutant: a read that falls back keeps its handle.
KeptOnError(b) == open

\* The handle is dropped with the function that opened it.
Dropped(b) == [open EXCEPT ![b] = @ \ {pc[b]}]

Read(b) ==
  /\ pc[b] \in open[b]
  /\ open' = Dropped(b)
  /\ Goto(b, After(pc[b]))
  /\ UNCHANGED <<ctx, fs>>

\* A size that is negative or over the limit, a read that fails, a text that
\* does not parse.
ReadFails(b) ==
  /\ pc[b] \in open[b]
  /\ open' = Dropped(b)
  /\ Goto(b, Otherwise(pc[b]))
  /\ UNCHANGED <<ctx, fs>>

\* The rows are built, or the group is refused, with the Vfs still held.
Produce(b) ==
  /\ pc[b] = "produce"
  /\ Goto(b, IF fn[b] \in Reading THEN "release" ELSE "idle")
  /\ UNCHANGED <<ctx, fs, open>>

\* Vfs is dropped: the filesystem, then the context.
ReleaseFilesystem(b) ==
  /\ pc[b] = "release"
  /\ fs[b]
  /\ fs' = [fs EXCEPT ![b] = FALSE]
  /\ Goto(b, "release")
  /\ UNCHANGED <<ctx, open>>

ReleaseContext(b) ==
  /\ pc[b] = "release"
  /\ ~fs[b]
  /\ ctx' = [ctx EXCEPT ![b] = FALSE]
  /\ Goto(b, "idle")
  /\ UNCHANGED <<fs, open>>

BindProgress(b) ==
  \/ GetContext(b) \/ GetFilesystem(b) \/ Open(b) \/ Read(b)
  \/ Produce(b) \/ ReleaseFilesystem(b) \/ ReleaseContext(b)

BindFails(b) == BadArgument(b) \/ NoContext(b) \/ NoFilesystem(b) \/ OpenFails(b) \/ ReadFails(b)

Done ==
  /\ load = "idle"
  /\ \A b \in Binders : pc[b] = "idle"
  /\ answer = "loaded" \/ loads = MaxLoads
  /\ binds = MaxBinds \/ catalog = {}
  /\ UNCHANGED vars

Next ==
  \/ Load \/ LoadProgress \/ LoadFails
  \/ \E b \in Binders : (\E f \in Names : Bind(b, f)) \/ BindProgress(b) \/ BindFails(b)
  \/ Done

\* The host runs what it called; nothing is owed to fail, except that a name the
\* catalog has is refused.
Fairness ==
  /\ WF_vars(LoadProgress \/ RegisterFails)
  /\ \A b \in Binders : WF_vars(BindProgress(b))

Spec == Init /\ [][Next]_vars /\ Fairness

-----------------------------------------------------------------------------
(* Properties *)

\* Only a function that reads certificates slices, and only a registered
\* function is bound.
TypeOK ==
  /\ current \in 1..Len(Functions) + 1
  /\ answer \in {"none", "loaded", "failed"}
  /\ catalog \subseteq Names /\ boxes \in Nat
  /\ \A b \in Binders :
       /\ open[b] \subseteq Opening
       /\ pc[b] # "idle" => fn[b] \in catalog
       /\ pc[b] \in {"sidecar", "slice"} => fn[b] \in Certified

\* Whatever call of the host fails in it, and after however many LOADs that
\* failed part way, a LOAD that answers TRUE has registered every function.
LoadedIsComplete == answer = "loaded" => catalog = Names

\* Every way out of LOAD has closed the connection and the handle and left a
\* producer with each function of the catalog and nowhere else, and every way
\* out of a bind has given back the context, the filesystem and the files.
NothingHeld ==
  /\ load = "idle" => ~con /\ ~handle /\ boxes = Cardinality(catalog)
  /\ \A b \in Binders : pc[b] = "idle" => ~ctx[b] /\ ~fs[b] /\ open[b] = {}

\* What is borrowed of something is given back before it: no file is open
\* without its filesystem and no filesystem held without its context, no handle
\* without the connection; and a bind has one file open at a time, however many
\* it opens on its way from the certificate to the whole file.
HandlesNest ==
  /\ handle => con
  /\ \A b \in Binders :
       /\ open[b] # {} => fs[b]
       /\ fs[b] => ctx[b]
       /\ Cardinality(open[b]) <= 1

\* LOAD returns, and every bind does: no fall-back leads back to itself.
CallsEnd ==
  /\ load # "idle" ~> load = "idle"
  /\ \A b \in Binders : pc[b] # "idle" ~> pc[b] = "idle"
=============================================================================
