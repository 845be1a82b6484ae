----------------------------- MODULE ReadParsed -----------------------------
(***************************************************************************)
(* read_parsed_with_encoding (src/src/source.rs) over the parse cache:     *)
(* open the file, take its size, ask the cache, and on a miss slurp the    *)
(* file chunk by chunk, decode it and parse it, while other programs edit  *)
(* the file.  Sizes are counted in blocks, the unit an edit or a read      *)
(* moves.                                                                  *)
(***************************************************************************)
EXTENDS Integers, SequencesExt

CONSTANTS
  Workers, NoWorker, Paths, Encodings, NoParse, Caps, MinEntryCost, MaxCalls,
  Blocks,         \* what one block of a file may hold
  Malformed,      \* texts that do not parse as AGS4
  Missing,        \* nothing at this path
  Follows,        \* the handle's file is still the one at its path
  MaxFileBytes,   \* LATERITE_AGS_MAX_FILE_BYTES
  ReadChunk,      \* READ_CHUNK_BYTES
  MaxLen,         \* bound: no file grows beyond this length
  Worlds,         \* what other programs do in a behaviour: [texts, kinds, calls]
  MaxEdits        \* bound: edits made in one behaviour

Texts == UNION {[1..n -> Blocks] : n \in 0..MaxLen}
Decoded(text, encoding) == [text |-> text, encoding |-> encoding]
Sizes == 0..MaxFileBytes
Parses == {Decoded(t, e) : t \in Texts, e \in Encodings}

ASSUME CacheAssumption ==
  /\ NoWorker \notin Workers /\ NoParse \notin Parses
  /\ Paths # {} /\ Encodings # {}
  /\ Caps \subseteq Nat /\ MinEntryCost \in Nat \ {0} /\ MaxCalls \in Nat
ASSUME PlacesAssumption == Missing \notin Texts /\ Follows \notin Texts
ASSUME EditsAssumption == MaxEdits \in Nat
ASSUME SlurpAssumption == MaxFileBytes \in Nat /\ ReadChunk \in Nat \ {0} /\ MaxLen \in Nat
ASSUME WorldsAssumption ==
  \A v \in Worlds :
    /\ \A t \in v.texts : t \in Seq(Blocks) /\ Len(t) <= MaxLen
    /\ v.kinds \subseteq {"replace", "append", "truncate", "overwrite"}
    /\ v.calls <= MaxCalls

VARIABLES
  map, total, cap, clock, lock, pc, key, parsed, calls,   \* the parse cache
  disk,     \* path -> the text there, or Missing
  handle,   \* what each worker's open handle is pinned to, or Follows
  buf,      \* what each worker has slurped
  opened,   \* history: the file's text when the worker's current call opened it
  world,    \* the texts writers put at a path, their kinds of edit, and the calls made
  edits,    \* edits made so far
  kinds     \* history: the kinds of edit among them

Cache == INSTANCE ParseCache

cacheVars == <<map, total, cap, clock, lock, pc, key, parsed, calls>>
slurpVars == <<handle, buf, opened>>
worldVars == <<disk, world, edits, kinds>>
vars == <<map, total, cap, clock, lock, pc, key, parsed, calls, disk, handle,
          buf, opened, world, edits, kinds>>

\* A handle reads whatever the path holds now; a replaced file stays readable
\* through the handles that had it open.
View(w) == IF handle[w] = Follows THEN disk[key[w].path] ELSE handle[w]

Init ==
  /\ Cache!Init
  /\ world \in Worlds
  /\ disk \in [Paths -> world.texts \cup {Missing}]
  /\ handle = [w \in Workers |-> Follows]
  /\ buf = [w \in Workers |-> <<>>]
  /\ opened = [w \in Workers |-> <<>>]
  /\ edits = 0
  /\ kinds = {}

-----------------------------------------------------------------------------
(* Other programs *)

Edit(kind, p, text) ==
  /\ kind \in world.kinds
  /\ edits < MaxEdits
  /\ edits' = edits + 1
  /\ kinds' = kinds \cup {kind}
  /\ disk' = [disk EXCEPT ![p] = text]
  /\ UNCHANGED <<cacheVars, buf, opened, world>>

Reading(p) == {w \in Workers : pc[w] \in {"lookup", "build"} /\ key[w].path = p}

\* A new file is renamed over the path.
Replace(p, text) ==
  /\ text # disk[p]
  /\ Edit("replace", p, text)
  /\ handle' = [w \in Workers |->
                  IF w \in Reading(p) /\ handle[w] = Follows THEN disk[p] ELSE handle[w]]

\* The file is written in place; open handles see it.
Append_(p, b) ==
  /\ disk[p] # Missing
  /\ Len(disk[p]) < MaxLen
  /\ Edit("append", p, Append(disk[p], b))
  /\ UNCHANGED handle

Truncate(p) ==
  /\ disk[p] # Missing
  /\ disk[p] # <<>>
  /\ Edit("truncate", p, Front(disk[p]))
  /\ UNCHANGED handle

Overwrite(p, i, b) ==
  /\ disk[p] # Missing
  /\ i \in DOMAIN disk[p]
  /\ disk[p][i] # b
  /\ Edit("overwrite", p, [disk[p] EXCEPT ![i] = b])
  /\ UNCHANGED handle

World ==
  \E p \in Paths :
    \/ \E t \in world.texts : Replace(p, t)
    \/ \E b \in Blocks : Append_(p, b)
    \/ Truncate(p)
    \/ \E i \in 1..MaxLen, b \in Blocks : Overwrite(p, i, b)

-----------------------------------------------------------------------------
(* A read *)

\* Mutant: the size is not checked at open.
ReadableAnySize == {p \in Paths : disk[p] # Missing}

Readable == {p \in Paths : disk[p] # Missing /\ Len(disk[p]) <= MaxFileBytes}

Start(w, p, encoding, size) ==
  /\ calls < world.calls
  /\ Cache!Enter(w, [path |-> p, size |-> size, encoding |-> encoding])
  /\ handle' = [handle EXCEPT ![w] = Follows]
  /\ buf' = [buf EXCEPT ![w] = <<>>]
  /\ opened' = [opened EXCEPT ![w] = disk[p]]
  /\ UNCHANGED worldVars

\* Mutant: the key is the path and the encoding alone.
OpenUnsized(w, p, encoding) == p \in Readable /\ Start(w, p, encoding, 0)

\* open_for_read: the size the handle reports becomes part of the cache key.
Open(w, p, encoding) == p \in Readable /\ Start(w, p, encoding, Len(disk[p]))

\* open_for_read: nothing there, over the limit, or a file system that fails to
\* open the file or to tell its size; the call ends in an error.
OpenRefused(w, p) ==
  /\ pc[w] = "idle"
  /\ calls < world.calls
  /\ calls' = calls + 1
  /\ parsed' = [parsed EXCEPT ![w] = NoParse]
  /\ UNCHANGED <<map, total, cap, clock, lock, pc, key, worldVars, slurpVars>>

\* A call is done with its handle and its buffer.
Close(w) ==
  /\ handle' = [handle EXCEPT ![w] = Follows]
  /\ buf' = [buf EXCEPT ![w] = <<>>]
  /\ UNCHANGED <<worldVars, opened>>

\* The cache answers: the closure, and the handle in it, are dropped unused.
Hit(w) == Cache!LookupHit(w) /\ Close(w)

StartBuild(w) ==
  /\ Cache!LookupDisabled(w) \/ Cache!LookupMiss(w)
  /\ UNCHANGED <<worldVars, slurpVars>>

\* A read that returns got blocks more.
CanRead(w, got) == pc[w] = "build" /\ Len(buf[w]) + got <= Len(View(w))

\* Mutant: the end of the file is where its size was when it was opened.
AtSize(w) == pc[w] = "build" /\ Len(buf[w]) = key[w].size

AtEof(w) == pc[w] = "build" /\ Len(View(w)) <= Len(buf[w])

Read(w, got, from) ==
  /\ CanRead(w, got)
  /\ buf' = [buf EXCEPT ![w] = @ \o SubSeq(View(w), from + 1, from + got)]
  /\ UNCHANGED <<cacheVars, worldVars, handle, opened>>

WithinLimit(w, got) == Len(buf[w]) + got <= MaxFileBytes

\* Mutants: every read starts over; the running total is not checked.
ReadRestarts(w) ==
  \E got \in 1..ReadChunk : WithinLimit(w, got) /\ Read(w, got, 0)
ReadUnchecked(w) ==
  \E got \in 1..ReadChunk : Read(w, got, Len(buf[w]))

\* slurp, one turn of the loop: a read returns some of what is left, and is
\* kept unless the running total passes the limit.
ReadBlocks(w) ==
  \E got \in 1..ReadChunk : WithinLimit(w, got) /\ Read(w, got, Len(buf[w]))

\* What ends a build in an error: a read that fails, a file that outgrows the
\* limit, an end of file before the size it opened with, a text that does not
\* parse.
ReadFails(w) == Cache!BuildFail(w) /\ Close(w)

TooLong(w) ==
  /\ \E got \in 1..ReadChunk : CanRead(w, got) /\ ~WithinLimit(w, got)
  /\ Cache!BuildFail(w)
  /\ Close(w)

\* Mutant: a short read is accepted.
NeverShort(w) == FALSE

Short(w) == Len(buf[w]) < key[w].size

ShortRead(w) == AtEof(w) /\ Short(w) /\ Cache!BuildFail(w) /\ Close(w)

ParseFails(w) ==
  /\ AtEof(w)
  /\ ~Short(w)
  /\ buf[w] \in Malformed
  /\ Cache!BuildFail(w)
  /\ Close(w)

\* The file was read to its end and parses: longer than it opened is accepted.
Parse(w) ==
  /\ AtEof(w)
  /\ ~Short(w)
  /\ buf[w] \notin Malformed
  /\ Cache!BuildOk(w, Decoded(buf[w], key[w].encoding))
  /\ Close(w)

\* The second critical section of the cache.
Finish(w) ==
  /\ Cache!Insert(w) \/ Cache!EvictOne(w) \/ Cache!Unlock(w)
  /\ UNCHANGED <<worldVars, slurpVars>>

Progress(w) ==
  \/ Hit(w) \/ StartBuild(w) \/ ReadBlocks(w)
  \/ TooLong(w) \/ ShortRead(w) \/ ParseFails(w) \/ Parse(w)
  \/ Finish(w)

\* The bounds are spent and every call has returned.
Done ==
  /\ calls = world.calls
  /\ \A w \in Workers : pc[w] = "idle"
  /\ UNCHANGED vars

Next ==
  \/ World
  \/ \E w \in Workers, p \in Paths : OpenRefused(w, p) \/ \E e \in Encodings : Open(w, p, e)
  \/ \E w \in Workers : Progress(w) \/ ReadFails(w)
  \/ Done

\* The host schedules every thread inside a call.  A failing read is never
\* owed: a read returns because the loop ends, not because the disk breaks.
Fairness == \A w \in Workers : WF_vars(Progress(w))

Spec == Init /\ [][Next]_vars /\ Fairness

-----------------------------------------------------------------------------
(* Properties *)

TypeOK ==
  /\ Cache!TypeOK
  /\ disk \in [Paths -> Texts \cup {Missing}]
  /\ handle \in [Workers -> Texts \cup {Follows}]
  /\ buf \in [Workers -> Texts]
  /\ opened \in [Workers -> Texts]
  /\ edits \in 0..MaxEdits
  /\ world \in Worlds
  /\ kinds \subseteq world.kinds

\* A worker whose call has returned a parse.
Answered(w) == pc[w] = "idle" /\ parsed[w] # NoParse

\* A length tells the texts of this world apart.
Distinct == \A s, t \in world.texts : Len(s) = Len(t) => s = t

\* Where files are only ever replaced whole, by files whose length tells them
\* apart, a read is transparent: it answers with the parse of exactly what the
\* path held when it was opened, under the encoding asked for, whoever built
\* the parse and however often the file was replaced meanwhile.
Transparent ==
  Distinct /\ kinds \subseteq {"replace"} => \A w \in Workers : Answered(w) => parsed[w] = Decoded(opened[w], key[w].encoding)

\* While files only grow, an answer holds everything that was in the file when
\* it was opened and nothing that is not in the file now, even when it comes
\* from the cache and was built while the file grew.
GrowingFileIsFresh ==
  kinds \subseteq {"append"} => \A w \in Workers : Answered(w) =>
    /\ IsPrefix(opened[w], parsed[w].text)
    /\ IsPrefix(parsed[w].text, disk[key[w].path])

\* Whatever happens to the file, the bytes held for one read stay within the
\* limit, though the file may outgrow it between the size check and the end.
BufferBounded == \A w \in Workers : Len(buf[w]) <= MaxFileBytes

\* Whatever happens to the file, no truncated read is ever cached, and a parse
\* is only cached under the encoding it was decoded with.
NothingShortCached ==
  \A k \in DOMAIN map :
    /\ Len(map[k].parsed.text) >= k.size
    /\ map[k].parsed.encoding = k.encoding

\* The module comment and the tests of cache.rs: a file whose length changed
\* misses, the one blind spot being an edit of the same size.  So a hit on a
\* file that still has the length it opened with is answered by the parse of a
\* text of that length.
ChangedLengthMisses ==
  [][\A w \in Workers :
       Hit(w) /\ Len(View(w)) = key[w].size => Len(parsed'[w].text) = key[w].size]_vars

\* Every read returns, also while the file it reads keeps growing: the loop that
\* reads it ends, no wake-up of the cache's mutex is lost, and no eviction spins
\* inside it.
ReadsReturn == Cache!CallsReturn
=============================================================================
