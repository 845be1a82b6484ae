# laterite_ags4, specified

TLA+ models of the DuckDB extension in this repository and of the script that
releases it, the TLC runs that check them on small instances, and proofs, checked
by TLAPS, that hold for every instance. `PROJECT.json` is the index: components,
runs, the source lines each definition stands for, the hazards, the findings and
the theorems.

## 1. The system

The extension registers table functions with DuckDB. Each one computes all its
rows when a statement is bound and streams them afterwards. Binding may happen on
any thread of the host process; the files it reads belong to other programs.

| Component | Code | State | Operations |
|---|---|---|---|
| parse cache | `src/src/cache.rs` | a process-wide map from (path, size, encoding) to a parse, the bytes charged, a logical clock, a mutex | `get_or_try_insert`: look up under the mutex, build outside it, publish and evict under it again |
| VFS reader | `src/src/source.rs` | per call: the client context, the filesystem, an open handle, the size it reported, the bytes read | acquire, open and size check, slurp, decode and parse through the cache, release |
| certificate | `src/src/cert.rs` | per call: the sidecar, an open handle, the bytes of one span | load the sidecar, trust it if the size matches, admit the group, range-read its span |
| `read_ags` | `src/src/read_ags.rs` | none between calls, but for interned names | the fast path, else the whole-file path; bind the group; build its table |
| harness | `src/src/ffi_table.rs` | a table-function handle; bind data; a cursor per scan | register, bind, init, func |
| typing | `src/src/typing.rs` | none | a column's type, a cell's store |
| structure functions | `src/src/meta.rs` | none | `ags_groups`, `ags_headings` |
| dictionary functions | `src/src/dict_fns.rs` | none | `ags_dictionary`, `ags_relationships`, `ags_rules` |
| `load_ags`, `to_duckdb` | `src/src/load.rs`, `src/src/to_duckdb.rs` | none; the script they return acts on databases | generate statements that a session runs |
| registration | `src/src/lib.rs`, `src/src/wasm_lib.rs` | a connection; DuckDB's catalog | register every function at LOAD |
| release driver | `src/scripts/release.sh` | clones, two remotes, a pull request | a prompted sequence of commands |
| gates and harnesses | `src/scripts/*.py`, `src/tests`, `src/test` | none | compare outputs |

How they interact: LOAD hands every function to the harness, which hands it to
DuckDB's catalog. A bind acquires a `Vfs` and passes it to the function's producer.
`read_ags` calls the certificate's fast path, which uses handles of its own and
never the cache; on any miss it calls the reader, which opens the file afresh and
calls the cache with a closure that slurps it, so that a whole-file read may be
answered by a parse some other call left there. `load_ags` and `to_duckdb` call the reader once, to
list the groups, and each statement they generate calls `read_ags` again when the
session runs it. All of them hand their rows to the harness. The only shared memory
is the cache (and the pool of interned names, a set that only grows); the only other
shared state is the file system and the database.

What is hard about it, and what makes each part correct:

* **The cache**: two threads may build the same key at once, and the second
  publication replaces the first; the byte total is unsigned and kept
  incrementally; eviction trusts stamps. Correct means: the total is the sum of
  what is resident, the cap holds whenever the mutex is free, what was just
  published stays, what goes is the oldest, and no call is stuck.
* **The reader**: the size in the key is taken at open and the bytes come later,
  from a file somebody may be writing. Correct means: an answer is a parse of
  what the path held, no truncated read is cached, the buffer keeps to the limit
  whatever the file does, and a read ends even while the file grows.
* **The certificate**: the sidecar is written by another program, outlives the
  file, and is trusted on size alone. Correct means: the fast path answers what
  the whole-file path would have, or declines; and what the whole-file path
  answers, through a cache keyed by size, was in the file at that size.
* **The scripts**: many statements, each reading the file afresh, one process-wide
  alias, failure at any of them. Correct means: a script that finishes is
  complete, a script writes only to its own destination, and a finished script
  lets the alias go.
* **The harness**: chunk boundaries, several scans of one bind, and a store that
  is chosen by the cell and must agree with the declared column.
* **The functions among themselves**: three of them describe what a fourth
  returns, from the registry, the bundled editions and the file's own DICT, each
  with its own lookup. Correct means: the descriptions fit the tables.
* **What is borrowed of the host**: a connection, handles, contexts and files,
  acquired in one function and given back by destructors and early returns in
  others, while every call of the host may fail. Correct means: every way out
  gives back everything, in order, and a LOAD that says it succeeded did.
* **The release**: a script with prompts and `set -e` that may be declined, stopped
  and run again, in more than one clone, and that pushes with `-f`. Correct means:
  nothing is published under a version that is not that version.

## 2. The modules

`ParseCache` (`cache.rs`). `map`, `total`, `clock` are the fields of `Cache`, `cap`
the value `LATERITE_AGS_CACHE_BYTES` had when the cache was first touched, `lock`
the mutex. A call of `get_or_try_insert` goes through `Enter`; one of
`LookupDisabled`, `LookupHit`, `LookupMiss` (the first critical section, one
step); `BuildOk` or `BuildFail` (outside the lock); and the second critical
section, which is several steps under `lock`: `Insert` publishes, `EvictOne` is one
turn of the loop of `evict_to_cap`, `Unlock` returns. The eviction is split so that
its termination and the order in which it drops entries are visible. A parse is a
value; `Build` may return any of them, so two builds of a key may differ. The
mutex's poisoning is left out: nothing inside the critical sections panics.

`LruCache`, what the cache promises: an atomic least-recently-used memo with a
byte cap. Its state is the resident entries and an order on them (`older`); it has no
stamps, no running total and no mutex, and a publication keeps, in one step, the
newest entries that fit together. `ParseCacheLru` is the refinement mapping and states
that `ParseCache` implements it (`ImplementsLru`): the stamps are the order, what the
eviction is going to drop is dropped already (`Kept`), and a build that is not
published yet is still being built. The publication of `Insert` maps to the abstract
one; the turns of the eviction and the unlocking to stuttering.

`ReadParsed` (`source.rs`), composed with `ParseCache` by `INSTANCE`. `disk` is the
file system, `handle` what an open handle sees (a file that was renamed over is
still readable through old handles, one written in place shows the writes), `buf`
the bytes slurped. `Open` and `OpenRefused` are `open_for_read`, `ReadBlocks` one
turn of the loop in `slurp`, `TooLong`, `ShortRead`, `ParseFails`, `ReadFails` its
errors and `Parse` its success, each joined with the cache's own step. Files are
sequences of blocks. Other programs `Replace`, `Append_`, `Truncate` and `Overwrite`.
What they do in one behaviour is its `world`: the texts they write and the kinds of
edit they make, fixed by `Init`, so that one run covers several settings.

`CertRead` (`cert.rs` with the binding rules of `read_ags.rs`). A text is a sequence
of lines, a line a group code (the GROUP record that opens a section) or a row;
spans and sizes count lines. Rows of the DICT section declare groups and give them
KEY headings. A certificate maps a group to its spans and may lack `defines`, as
the older format does. `lat certify` mints in two steps, so that a replacement of
the file may fall between its read and its write. The call is `LoadSidecar`, then
`OpenStale`, `OpenStandard` or `OpenCustom`, then `ReadSome` until the span is read
(once for DICT, once for the group), then `DictRead`, `SliceRead`; `FallBack` leaves
the fast path. The whole-file read that follows is taken step by step: `OwnOpen` (or
`OpenRefused`, `OpenFails`), `Hit` or `Miss` under the parse cache's mutex, `Slurp`, then
`SlurpShort`, `ParseFails`, `WholeFails`, or `Parse` and `Publish`, where the last writer of
a key wins. `cached` is the cache's entries for the one path, by size and encoding. It
outlives a call, `Others` are threads whose whole-file reads (`OtherOpen`, then the
same steps) fill it too, and any entry may be evicted at any time (`Evict`), since which
one goes is decided by files not modelled here; `ParseCache` has the eviction itself.
`source` and `during` are history: what the path held while the answer was read, and
since the call was made.

`LoadScript` (`load.rs` and `to_duckdb.rs`). `LoadAgs(f)` and `ToDuckdb(f)` are the
statements generated from file `f`, which `Generate` takes from what the path holds and
`GenerateFails` does not get; sessions run them one at a time against `db`,
with DuckDB's rules for a table, an index or an alias that exists already or does
not. A session stops at the first refused statement; the process may crash.

`Surface` (the producers of `read_ags.rs`, `meta.rs`, `dict_fns.rs`, over `typing.rs`).
An operator per table function over a parsed file, the union registry, the bundled
editions and the rule catalogue, each answering with columns and rows. A cell is
the store it is written through and its value. Digests are abstracted to which rule
mints the id: none, the registry's keys, or the file's. What the engine's parsers
make of a cell is any kind of value in any column, which is more than they do.

`TableScan` (`ffi_table.rs`) EXTENDS `Surface`. `Bind` runs the producer of a
statement and keeps its table; `Open` is `init`, `Func` loads a scan's cursor,
`Write` writes a chunk and advances it, `End` is the empty chunk, `Close` DuckDB
dropping a scan. Several statements are bound at once, so that invariants can relate
the answers of different functions about the same file.

`Extension` (`lib.rs`, `register_table`, and the acquiring and releasing in
`source.rs`). LOAD goes `InitApi`, `GetDatabase`, `Connect`, then `Create`, `Register`,
`Destroy` for each function, then `Disconnect`; `Refused`, `CreateFails` and
`RegisterFails` are its failures. A bind goes `GetContext`, `GetFilesystem`, then
`Open` and `Read` for the sidecar, the slice and the whole file as far as its
function and its fall-backs lead, then `Produce`, `ReleaseFilesystem` and
`ReleaseContext`, the two halves of `Vfs::drop`. `boxes` counts the boxed producers,
`con`, `handle`, `ctx`, `fs` and `open` what is held. What the reads return is the
business of `ReadParsed` and `CertRead`.

`Release` (`release.sh`). Each clone has a working tree (the version in each of
the four manifests, and the pinned laterite), a branch and tags; `origin`,
`released`, `fork` and `prs` are the remotes. A run is the commands between its
prompts, one action each: `Test`, `Stamp` (one manifest at a time), `BumpDone`,
`Commit`, `Push`, `TagExists`, `Tag`, `PushTag`, then in the fork's checkout `Checkout`
(`checkout -B`), `Copy` (`cp`), `Fill` (`sed`), `CommitDescriptor` and `PushDescriptor`
(`push -f`), and `Pr`; `Decline` answers a prompt with no, `Stop` ends a run anywhere.
`checkout` is the one checkout of the fork that clones side by side share (`FORK_DIR`):
the branch it is on, the descriptor in its working tree and the one at the head of
each of its branches. A descriptor is what it says (the version and the pinned commit,
or the placeholder) with, as history, the prompts declined by the run that filled it;
`fork` is what was last pushed. `shared` records which runs were in the checkout while
another was. Between runs the maintainer may
`MovePin`, `Restore` and `Pull`. `RELEASE_BRANCH` is empty, `FORCE_TAG` 0 and
`BUMP_VERSION` 1, as the script sets them.

`*Proofs` hold the proofs about the module they are named after (`ParseCacheProofs`
also those about `ParseCacheLru`, `TableScanProofs` those about `Surface`),
`SequenceLemmas` the inductions they share, `MC*` the small instances. An operator whose comment says `Mutant` is a faulty form of the one below
it, kept to show that the property it breaks can be broken.

## 3. The runs

| Run | Question | Instance |
|---|---|---|
| `cache_safety` | do accounting, stamps, cap and eviction order hold under every interleaving, and is the cache an LRU memo? | 2 threads, 2 paths, files of 0 and 3 bytes, floor 1, caps 0, 1, 4, 4 calls, symmetric |
| `reads` | is a read transparent where files are replaced, fresh where they grow, bounded and never cached short whatever happens, and does it return? | 2 threads, 2 encodings, texts of up to 3 blocks, limit 2, chunks of up to 2, caps 0 and 3, 2 edits; a world of replaced files that their lengths tell apart with 3 calls, and one file edited in every way with 2 |
| `read_length_busts` | does a change of length always miss? (it does not) | appends and truncations |
| `cert_reads` | does the fast path answer as the whole-file path would, and what holds under writes in place and through the shared cache? | 7 texts (a redeclared group, a redeclared DICT, keyed, keyless and undeclared groups, one over the limit), four at a time and of distinct lengths, with every certificate of them, current or older, replaced and minted; two texts with lines overwritten or any length cut; replaced files read twice in either encoding; replaced and overwritten files read by two threads; 2 edits |
| `cert_stale` | can a stale certificate never serve wrong data? (it can) | one overwritten line |
| `cert_admit` | is admitting a declared group free under a current certificate? (it is not) | two texts, certified or being certified, and not edited |
| `load_scripts` | are finished scripts complete, and kept to their destination? | 2 sessions, 3 files, 2 destinations, 3 scripts, a replacement and a crash |
| `load_parent_index` | is every child's `_parent_id` indexed? (not a file-declared child's) | 1 script |
| `table_scans` | does each scan emit each row once, through fitting stores, and do the functions agree with each other about a file? | 2 statements, every pair of functions over files with standard, own, redeclared and empty groups; 2 scans, vectors of 2 rows, tables of 0 to 5 rows |
| `extension_loads` | whichever call fails, is everything given back, and is a LOAD that succeeds complete? | 4 functions of every kind, 2 binders, 2 LOADs, 2 binds |
| `releases` | is what is committed in step, what is published the release, and does the branch only grow? | 2 clones that share one checkout of the fork; one version in 3 runs, or two versions in 2; 3 commits; symmetric |
| `tag_moves` | does an existing tag stay with `FORCE_TAG` at 0? (it does not) | the same |

The bounds. Two threads are enough for every race of the cache: a third adds no
new pair of steps on a key, and no property relates three calls. Caps 0, 1 and 4
with charges 1 and 3 give a disabled cache, one that a single file exceeds, and one
that holds several small files or one large and one small. Four calls fill it, hit
it, replace in it and evict from it. Files of up to three blocks against a limit of
two and chunks of two give a read that is split, one that is short, one refused at
open and one that outgrows the limit while it is read. The certificate's fast path
shares nothing with another call; its whole-file fall-back shares the parse cache, so
there are worlds with a second read, by the same thread in the same or the other
encoding, or by another thread at any time. Two reads are enough, since an answer
depends on one entry, which one read put there. `VectorSize` 2 with 0 to 5 rows has
the empty table, a partial chunk, exact multiples and one more. Two LOADs give a LOAD
after one that failed part way, and two binders a bind during either. Three runs in
two clones give a run that resumes a stopped one beside a run that is going on, in
the branch and in the fork's checkout, and two versions to release give a commit on
top of a release and a checkout left at the other version. Every bound is a constant
with a guard.

### Fairness

In the cache and the reader, weak fairness for each thread's next step inside a
call (`Progress(w)`): the host schedules every thread. Weak fairness is
enough although threads compete for the mutex, because only finitely many calls are
made in an instance; with an endless stream of other callers, a waiting thread
would need the mutex itself to be fair. A failing read is never owed: a read must
end because its loop ends. In `CertRead` likewise. In `Extension`, weak fairness for
the next step of LOAD and of each bind; no failure is owed but one, the refusal of a
name the catalog already has, which is what DuckDB does. In `TableScan` DuckDB is
assumed to pull a scan it has not dropped; dropping is never assumed. `Release` has
weak fairness only for the commands that wait on nobody, since no prompt has to be
answered, and `LoadScript` none, since a session may stop at any statement; both have
safety properties only.

### What they found

* The size in the cache's key is not the size of what is cached: `slurp` refuses a
  read shorter than the size taken at open and accepts a longer one. A file that
  grows while it is first read, and later shrinks back, is served from the cache
  with the longer text, although its length changed on the way
  (`read_length_busts`).
* A stale certificate can serve wrong data: the gate is on size, and an edit of the
  same size that opens a second section of a group leaves a slice of the first one
  that looks complete (`cert_stale`). The module says so; the README says it cannot.
* A current certificate does not spare the DICT read when it admits a group, only
  when it denies one (`cert_admit`).
* `load_ags` and `to_duckdb` index `_parent_id` by the registry's parent alone; a group
  whose parent the file declares has the column and not the index
  (`load_parent_index`).
* `release.sh` asks only the clone it runs in whether the tag exists, and pushes the
  tag with `-f`: a clone that has not fetched it moves a tag that is at origin
  already, with `FORCE_TAG` at 0 (`tag_moves`).

Noticed while modelling, and not worth a run of their own: `src/README.md:12` speaks
of dates as TIMESTAMP where the column of a date is VARCHAR and only
`ags_headings.sql_type` says `Timestamp`; `meta.rs` says that `ags_groups` takes the
parent from the registry where the registry knows the group, while
`.and_then(...).or_else(file_parent)` also asks the file for a group the registry
knows as a root (`ParentOf` follows the code); a comment of `release.sh` promises a
one-file diff for the pull request and the script puts two files in it; a LOAD
repeated after one that registered some functions cannot succeed, because their
names are taken.

Two limits the properties state rather than deny. `cache.rs:12-16` and `cert.rs:13-15`
accept that a write in place that keeps the size goes unnoticed: a whole-file read then
answers with a text the path no longer holds, which happens in the instance of
`cert_reads`, and `OnlyWhatWasThere` says that this, a cached parse of the same length,
is the only way a table has a row the file did not hold during the call. And nothing keeps a second
run of `release.sh`, in a sibling clone, out of the fork's checkout: while one waits at
the prompt or is about to push, another's `checkout -B`, `cp` and `sed` may put its own
descriptor, or upstream's, where the first commits or pushes it. `PublishedIsRelease`
speaks of a pushed descriptor only where the run had the checkout to itself, whatever
earlier runs, stopped or declined, left in it; of tags it speaks always.

## 4. What is proved

Every invariant and every action property of section 3 that its runs find to hold is
a theorem as well, `Spec => []Property` or `Spec => Property`, and so is the refinement
of `LruCache`: for every value of the constants that satisfies the module's named
assumptions. Each rests on an inductive invariant, because none of the properties is
inductive alone, and TLC has checked that invariant on the run's own instance. One
lemma per action, or per group of actions of one shape, shows that the invariant is
preserved, and the theorem combines them by `PTL`.

**`SequenceLemmas`.** The scripts, sections, spans and columns are `FlattenSeq`s, and
the commits of a branch a recursive function, so what the proofs need to know of them
is an induction. The prover cannot apply the library's induction theorems, which take
an operator; but a set of naturals has a least element (`LeastNatural`, from `WFMin` of
`WellFoundedInduction`, which takes a set), so an induction over a set of numbers is a lemma without an operator (`UpTo`,
`FromBelow`): the numbers for which the fact fails have a least one. From them:
what the fold behind `FlattenSeq` accumulates (`FlattenAccumulates`), the elements of a
flattened sequence (`FlattenElements`), and where each piece lies in it
(`FlattenWindow`).

**`ParseCacheProofs`**: `TypeOK`, `ChargeExact`, `TicksDistinct`, `CapRespected`,
`DisabledHoldsNothing`, `EntriesBounded`, `PublishedSurvives`, `EvictsOldest`,
`ImplementsLru`. `TypeOK` contains `total \in Nat`: the two unsigned subtractions never
wrap. Assumed: `NoWorker` is no thread and `NoParse` no parse, sizes and caps are
naturals, the floor is positive, there is at least one key. That the total is exact
after an eviction needs the evicted entry's charge to be in it, so `IndInv` has to say
that the total is the sum; that the subtraction on replacement does not wrap needs the
same. That what was published survives the eviction loop needs it to hold the newest
stamp while the mutex is held, and the loop's victim to be another entry, which follows
from distinct stamps and the loop's second condition (more than one entry). A sum over a
map is stated without recursion: `ChargeExact` says that the total is the number of
pairs (key, unit) with one unit per byte charged, a cardinality, so that the library's
theorems about cardinality apply.

The refinement is proved action by action. `AllKept`: while the mutex is free nothing is
left to evict, which is `CapRespected`, so a hit and a miss see the abstract memo as it
is. `InsertIsPut`: after a publication the entries that fit with all that is newer are
the same in stamps as in the abstract order (`UseIs`), so the abstract trim is what the
eviction will leave. `EvictIsSilent`: the victim is the oldest of a map that does not
fit, so it was not kept; for every other entry, what is newer stays what it was. This
needs `Charged`, every entry at the charge its key's size gives it, and that a worker
holds no parse until it has one to answer with (`Publishing`).

**`ReadParsedProofs`**: `TypeOK`, `BufferBounded`, `NothingShortCached`, `Transparent`,
`GrowingFileIsFresh`. The cache's part is not proved again: the module instantiates
`ParseCacheProofs` at its own keys and parses, and uses that each of its actions is
an action of the cache or leaves it alone. Assumed further: `Missing` and `Follows`
are no texts, the limits are naturals, and the texts of a world are texts. The two
deep ones need to know, of every parse in the cache or on its way there, what it
holds (`Holds`: at least the size of its key, the encoding of its key, in a world of
replaced files a text of that very length, in a growing world a prefix of what is
at the path now), of every read under way that its buffer is a prefix of what its
handle sees (`ReadInv`), and of every call that has its answer that the answer is the
right one (`Right`). `Distinct` then makes the text of a hit the text that was
opened, whoever built it.

**`CertReadProofs`**: `TypeOK`, `ReplacedIsNoWrongData`, `ShrunkIsNoWrongData`,
`OnlyWhatWasThere`, for any groups, rows, worlds and number of calls and edits. Assumed:
standard groups, custom groups and rows are different things, `DICT` is standard, rows
declare custom groups only. Two facts about texts carry it. A section that is the
only one of its group is the group: the rows of its span are all the rows of the group
in the file. And the group's rows in a slice that begins with its GROUP record are the
slice's other lines. The invariant (`Truth`) says that under honest
edits (`Honest`: files replaced by ones their lengths tell apart, or one file truncated)
a slice under way is an initial part of the section of one text `t` that the path held
during the call, with a certificate of that very `t` in hand; which `t` is picked at
the open, by the length, and stays right whatever replaces it, because the handle is
pinned, and under truncation because a view that still reaches the span's end there is
a view of `t`'s own lines. A whole-file read, of any thread, needs as much said of it and
of every parse in the cache (`Wholes`): under honest edits it is of a text of the length
in its key that the path held when it was opened (`Faithful`, `FaithfulEntry`), and the
length names that text (`KnownText`), so a hit on an entry of any age is right. Whatever
the edits, every line it has was in the file while it was read, and the file had the
key's length once meanwhile (`Sound`, `SoundEntry`). `OnlyWhatWasThere` follows from the
latter, and for a slice from every line in the buffer having been in some text the
path held since the call was made (`During`).

**`LoadScriptProofs`**: `TypeOK`, `OwnDestination`, `FinishedIsComplete`, `AliasReleased`,
for any files, registry, sessions, destinations, replacements and crashes. Assumed:
no destination is the main database, no file declares a standard group. At most one
session is between its ATTACH and its DETACH, and the alias is its destination
(`OneHolder`); that it still is when the DETACH runs needs the form of the scripts
(`Shaped`: an ATTACH only at the head, a DETACH only at the end, nothing but CREATEs
between). What a script owes for a group of its file is still among its statements or
done in its destination (`Owed`), and a script with no statements left owes nothing.

**`TableScanProofs`**: `TypeOK`, `RowsOnceInOrder`, for any statements, scans and vector
size and for producers that answer anything: what a scan has emitted is `1..cursor`,
its cursor is within the rows of its own statement, and the position `func` loaded is
still the cursor when it writes. `StoresFit`, `StructureDescribesTables`,
`IdsFollowDeclarations` and `DictionaryAgrees`, for any dictionaries, rules and parsed
files: a bound statement has the answer its producer gives for the session's file, and
the rows of every chunk are rows of that answer (`Served`); the rest is about the
producers of `Surface`. Each function's answer `Fits` its own columns, cell by cell;
and two answers about one file say the same of it. Assumed of the code's dependencies:
dictionaries and rules are lists, the registry names each group once, each heading
once in a group, and no group "" (`DictionariesAssumption`, `RegistryAssumption`), a
parsed file lists exactly the groups it has, with rows and headings as lists and no
NUL in a heading (`WellFormed`), and the functions' own column names have no NUL.
A UNIT, TYPE or DATA row may be shorter or longer than the headings, the
DICT may declare anything, and a cell may be of any kind.

**`ExtensionProofs`**: `TypeOK`, `LoadedIsComplete`, `NothingHeld`, `HandlesNest`, for any
list of functions and any number of threads. What LOAD and a bind hold is a function
of where they are (`LoadHolds`, `BindInv`); the functions before `current` are in the
catalog unless this LOAD failed (`LoadProgressed`); and there is a box for each
function of the catalog and one more from `Create` until the catalog shares it or the
handle is destroyed. Assumed: the list has no function twice.

**`ReleaseProofs`**: `TypeOK`, `CommitsInStep`, `PublishedIsRelease`, `BranchOnlyGrows`, for
any number of clones, versions, commits and runs. A run that has come to its commit
has all four manifests at the version it releases, and that is the pin (`RunInv`),
which needs that nothing but the run itself moves the pin while it is going on. A
commit's parent was made before it (`Chained`), so the history of a branch is a
well-founded recursion: an ancestor's history is part of it (`HistoryOfAncestor`), and
it is the same after more commits (`HistoryKept`). A run that was told to leave nothing
out has a head that carries its version from its commit on, that origin has from its
push on, and that the tag it is about to push names (`Publishing`); since a push is a
fast-forward, what origin once had it has for ever (`Grown`), so what one run
published stays good whatever the others do. For the descriptor: a run that has had
the fork's checkout to itself since its `checkout -B` finds there what it put there,
step by step (`Alone`), which holds whatever was left in the checkout before, since `cp`
replaces the descriptor and brings the placeholder back.

Only model-checked: the liveness properties (`ReadsReturn`, `ReadReturns`, `ScansEnd`,
`CallsEnd`), which need fairness and ENABLED, out of the prover's reach. The
properties of the runs that expect a violation are false.

## 5. What is not modelled

* The AGS4 engine (codec, key hashing, dictionaries, certificate format): a
  dependency, modelled where it is used by what the code relies on.
* Decoding, content hashes, identifiers' digests, interned names: no property
  depends on their values. Identifiers are modelled by which rule mints them.
* That a column's name holds a NUL: `ffi_table.rs` counts on the codec to let none
  through, and the model says so in `WellFormed` and `FilesAssumption`.
* A header-capable remote file system: a handle reads the file it opened or the
  file now at the path, as local ones do.
* In the release: changes made by hand in the fork's checkout, a new descriptor on
  upstream's main (its head is one value, `Upstream`), and the function table that is
  copied along with the descriptor.
* Panics, allocation failures, a poisoned mutex, and DuckDB's own threads inside a
  chunk.
* The error text LOAD passes to `set_error`, and every other message.
* The gates (`src/scripts/*.py`, `src/tests`) and the wasm harness (`src/test`):
  one-shot comparisons without state. The release driver's watching of CI, which
  changes nothing.

## 6. Plan

Done, in order: `ParseCache`, its proofs and `LruCache`; `ReadParsed`; `CertRead`;
`LoadScript`; `Surface` and `TableScan`; `Extension`; `Release`; the proofs about each of
them, and the refinement of `LruCache`. Next:

1. Progress without fairness: measures that every turn of the eviction, the slurp and
   the partial reads brings down, as action properties, which is the part of the
   liveness properties that a proof can reach.
