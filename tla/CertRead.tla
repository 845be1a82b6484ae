------------------------------ MODULE CertRead ------------------------------
(***************************************************************************)
(* read_ags (src/src/read_ags.rs) with its certificate fast path           *)
(* (src/src/cert.rs): load the sidecar, open the file, trust the           *)
(* certificate if the size matches, admit the group, range-read its one    *)
(* span; anything short of that falls back to the whole-file read, which   *)
(* the parse cache of the process answers if it has a parse of the path at *)
(* that size and encoding, whoever put it there (src/src/source.rs,        *)
(* src/src/cache.rs).                                                      *)
(*                                                                         *)
(* A text is a sequence of lines: a group code is the GROUP record that    *)
(* opens a section of that group, anything else is a row.  Sizes and spans *)
(* count lines.                                                            *)
(***************************************************************************)
EXTENDS Integers, SequencesExt

CONSTANTS
  Standard,     \* groups of the bundled registry
  Custom,       \* groups only a file may declare
  DICT,         \* the standard group whose rows declare groups
  Rows,
  Declares(_),  \* row -> the custom groups it declares in a DICT section
  KeyFor(_),    \* row -> the custom groups it gives a KEY heading there
  Caller,       \* the thread whose calls these are
  Others,       \* threads that read the file whole meanwhile (ags_groups, load_ags)
  Worlds,       \* what goes on in a behaviour: [texts, kinds, lines, calls, encodings, others]
  Missing,      \* nothing at the path
  MaxFileBytes, \* LATERITE_AGS_MAX_FILE_BYTES
  NoCert,       \* no usable sidecar: absent, unreadable, corrupt, an old format
  NoDefines,    \* a certificate minted before `defines` existed
  Follows,      \* the handle's file is still the one at the path
  NoDict,       \* no declarations in hand
  None,         \* no call has returned yet
  NoRead,       \* no whole-file read
  MaxEdits      \* bound: edits and certificates minted

Groups == Standard \cup Custom
Lines == Groups \cup Rows

ASSUME DictAssumption == DICT \in Standard
ASSUME LinesAssumption == Standard \cap Custom = {} /\ Groups \cap Rows = {}
ASSUME DeclarationsAssumption == \A r \in Rows : Declares(r) \subseteq Custom /\ KeyFor(r) \subseteq Custom
ASSUME SentinelsAssumption ==
  /\ Missing \notin Seq(Lines)
  /\ Follows \notin Seq(Lines) /\ Follows # Missing
  /\ NoDict \notin [groups : SUBSET Custom, keyed : SUBSET Custom]
ASSUME LimitAssumption == MaxFileBytes \in Nat
ASSUME WorldsAssumption ==
  \A v \in Worlds :
    /\ v.texts \subseteq Seq(Lines)
    /\ v.kinds \subseteq {"replace", "mint", "truncate", "overwrite"}
    /\ v.lines \subseteq Lines
    /\ v.calls \in Nat
    /\ v.encodings \subseteq BOOLEAN
    /\ v.others \subseteq Others
ASSUME ReadersAssumption == Caller \notin Others

VARIABLES
  world,     \* the texts writers put at the path, their kinds of edit, what they
             \* overwrite with, how many reads are made, in UTF-8 or not, and the
             \* other threads that make some of them
  disk,      \* the text at the path, or Missing
  sidecar,   \* the certificate at <path>.idx, or NoCert
  minting,   \* the certificate being written there, or NoCert
  edits,     \* edits and mints made so far
  kinds,     \* history: the kinds of edit among them
  pc,        \* the next step of the call: sidecar, open, dict, slice, whole
  group,     \* the group asked for
  utf8,      \* whether it is asked for in UTF-8
  cert,      \* the certificate it loaded
  handle,    \* the text its handle is pinned to, or Follows
  buf,       \* the lines it has range-read of the current span
  dict,      \* the FileDict its binding carries, or NoDict
  outcome,   \* what the last call returned
  source,    \* history: what the path held while what it returned was read
  during,    \* history: what the path held since the call was made
  calls,     \* reads made, of the caller and of others
  cached,    \* the parse cache: [size, utf8] -> the text parsed, and what its file
             \* held while it was read (history)
  whole      \* thread -> its whole-file read, or NoRead

worldVars == <<world, disk, sidecar, minting, edits, kinds>>
readVars == <<cert, handle, buf, dict>>
callVars == <<pc, group, utf8, readVars, outcome, source, during, calls>>
wholeVars == <<cached, whole>>
vars == <<world, disk, sidecar, minting, edits, kinds, pc, group, utf8, cert, handle, buf, dict,
          outcome, source, during, calls, cached, whole>>
Readers == Others \cup {Caller}

-----------------------------------------------------------------------------
(* The core codec, the effective dictionary and the certificate format *)

Parses(t) == t # <<>> /\ t[1] \in Groups
Present(t) == ToSet(t) \cap Groups

\* The rows of all the sections of group g, in order.
NoHeading(t, from, to) == \A j \in from..to : t[j] \notin Groups
IsRowOf(t, g, i) == \E h \in 1..i - 1 : t[h] = g /\ NoHeading(t, h + 1, i)
RowsOf(t, g) ==
  FlattenSeq([i \in DOMAIN t |-> IF IsRowOf(t, g, i) THEN <<t[i]>> ELSE <<>>])

FileDictOf(t) ==
  LET rows == ToSet(RowsOf(t, DICT))
  IN [groups |-> UNION {Declares(r) : r \in rows},
      keyed  |-> UNION {KeyFor(r) : r \in rows}]

\* Half-open line ranges, one per section of g, in order.
LastLine(t, i) ==
  CHOOSE e \in i..Len(t) : NoHeading(t, i + 1, e) /\ (e = Len(t) \/ t[e + 1] \in Groups)
SpansOf(t, g) ==
  FlattenSeq([i \in DOMAIN t |->
    IF t[i] = g THEN <<[from |-> i - 1, to |-> LastLine(t, i)]>> ELSE <<>>])

\* A certificate exists only for a text that validated clean, so every group
\* in it is bound by the effective dictionary.
Clean(t) == Parses(t) /\ Present(t) \ Standard \subseteq FileDictOf(t).groups

Certificates(t) ==
  {[size |-> Len(t), groups |-> [g \in Present(t) |-> SpansOf(t, g)], defines |-> d] :
     d \in {FileDictOf(t).groups, NoDefines}}

-----------------------------------------------------------------------------
(* read_ags.rs: what a read of group g answers *)

Refusal(why) == [refused |-> why]

\* build_table: the rows with the ids of their binding.  No declarations: the
\* registry's KEY headings; a declaration without KEY headings: NULL ids.
Table(rows, g, fd) ==
  [rows |-> rows,
   ids  |-> IF fd = NoDict THEN "registry" ELSE IF g \in fd.keyed THEN "declared" ELSE "null"]

\* resolve_group, binding_for and build_table over a whole parse.
Whole(t, g) ==
  IF g \notin Present(t) THEN Refusal("not found")
  ELSE IF g \in Standard THEN Table(RowsOf(t, g), g, NoDict)
  ELSE IF g \in FileDictOf(t).groups THEN Table(RowsOf(t, g), g, FileDictOf(t))
  ELSE Refusal("undeclared")

Readable(t) == t # Missing /\ Len(t) <= MaxFileBytes

\* The whole-file path; what cannot be read or parsed is refused.
WholeFile(t, g) ==
  IF Readable(t) /\ Parses(t) THEN Whole(t, g) ELSE Refusal("unreadable")

-----------------------------------------------------------------------------
Init ==
  /\ world \in Worlds
  /\ disk \in world.texts \cup {Missing}
  /\ sidecar \in {NoCert} \cup UNION {Certificates(t) : t \in {u \in world.texts : Clean(u)}}
  /\ minting = NoCert
  /\ edits = 0
  /\ kinds = {}
  /\ pc = "idle"
  /\ group = DICT
  /\ utf8 = TRUE
  /\ cert = NoCert
  /\ handle = Follows
  /\ buf = <<>>
  /\ dict = NoDict
  /\ outcome = None
  /\ source = {}
  /\ during = {}
  /\ calls = 0
  /\ cached = <<>>
  /\ whole = [r \in Readers |-> NoRead]

-----------------------------------------------------------------------------
(* Other programs *)

World(kind) ==
  /\ kind \in world.kinds
  /\ edits < MaxEdits
  /\ edits' = edits + 1
  /\ kinds' = kinds \cup {kind}
  /\ UNCHANGED <<world, pc, group, utf8, cert, buf, dict, outcome, source, calls, cached>>

\* The open whole-file reads of the file at the path, in the file that is there
\* from now on (Follows) or in the one it was.
Moved(read, text, place) ==
  IF read = NoRead \/ read.handle # Follows THEN read
  ELSE [read EXCEPT !.handle = place, !.seen = IF place = Follows THEN @ \cup {text} ELSE @]

Put(text, place) ==
  /\ disk' = text
  /\ during' = IF pc = "idle" THEN during ELSE during \cup {text}
  /\ handle' = IF pc \in {"dict", "slice"} /\ handle = Follows THEN place ELSE handle
  /\ whole' = [r \in Readers |-> Moved(whole[r], text, place)]
  /\ UNCHANGED <<sidecar, minting>>

\* A new file is renamed over the path, or the path is unlinked: a handle
\* already open keeps the old text.
Replace(text) ==
  /\ text # disk
  /\ World("replace")
  /\ Put(text, disk)

\* The file is written in place, never past its end: an open handle sees it.
Truncate(n) ==
  /\ disk # Missing
  /\ n < Len(disk)
  /\ World("truncate")
  /\ Put(SubSeq(disk, 1, n), Follows)

Overwrite(i, line) ==
  /\ disk # Missing
  /\ i \in DOMAIN disk
  /\ disk[i] # line
  /\ World("overwrite")
  /\ Put([disk EXCEPT ![i] = line], Follows)

\* lat certify reads a clean file, then writes its sidecar: the file may be
\* replaced in between, and a sidecar half written does not parse.
Mint(c) ==
  /\ minting = NoCert
  /\ disk # Missing
  /\ Clean(disk)
  /\ c \in Certificates(disk)
  /\ World("mint")
  /\ minting' = c
  /\ sidecar' = NoCert
  /\ UNCHANGED <<disk, handle, during, whole>>

Minted ==
  /\ minting # NoCert
  /\ sidecar' = minting
  /\ minting' = NoCert
  /\ UNCHANGED <<world, disk, edits, kinds, callVars, wholeVars>>

\* Reads of other files push an entry out of the cache; where the cap is 0
\* there never is one.
Evict(key) ==
  /\ cached' = Restrict(cached, DOMAIN cached \ {key})
  /\ UNCHANGED <<worldVars, callVars, whole>>

-----------------------------------------------------------------------------
(* A read *)

\* The sidecar is measured against UTF-8 bytes: another encoding takes the
\* whole-file path.
Call(g, encoded) ==
  /\ pc = "idle"
  /\ calls < world.calls
  /\ encoded \in world.encodings
  /\ calls' = calls + 1
  /\ group' = g
  /\ utf8' = encoded
  /\ pc' = IF encoded THEN "sidecar" ELSE "whole"
  /\ outcome' = None
  /\ source' = {}
  /\ during' = {disk}
  /\ UNCHANGED <<worldVars, readVars, wholeVars>>

Goto(point) ==
  /\ pc' = point
  /\ UNCHANGED <<worldVars, group, utf8, outcome, source, during, calls, wholeVars>>

\* What the fast path has in hand is dropped.
Drop ==
  /\ cert' = NoCert
  /\ handle' = Follows
  /\ buf' = <<>>
  /\ dict' = NoDict

\* Every `?` and early return of the fast path.
FallBack == Goto("whole") /\ Drop

\* An answer, and the texts it was read from.
Answer(answer, from) ==
  /\ pc' = "idle"
  /\ outcome' = answer
  /\ source' = from
  /\ Drop
  /\ UNCHANGED <<worldVars, group, utf8, during, calls>>

LoadSidecar ==
  /\ pc = "sidecar"
  /\ sidecar # NoCert
  /\ cert' = sidecar
  /\ Goto("open")
  /\ UNCHANGED <<handle, buf, dict>>

NoSidecar == pc = "sidecar" /\ sidecar = NoCert /\ FallBack

\* Mutants: the first span of a redeclared group; every group is standard;
\* a certificate of another size is trusted.
FirstSpan(c, g) == g \in DOMAIN c.groups
AnyGroup(g) == TRUE

\* sliceable_span, and read_group_span's check of the span against the size.
Sliceable(c, g) ==
  /\ g \in DOMAIN c.groups
  /\ Len(c.groups[g]) = 1
  /\ c.groups[g][1].from <= c.groups[g][1].to
  /\ c.groups[g][1].to <= c.size

InRegistry(g) == g \in Standard

Fresh == Readable(disk) /\ Len(disk) = cert.size

Fetch(point) ==
  /\ buf' = <<>>
  /\ Goto(point)

OpenStale == pc = "open" /\ ~Fresh /\ FallBack

\* A standard group is sliced at once.
OpenStandard ==
  /\ pc = "open"
  /\ Fresh
  /\ InRegistry(group)
  /\ IF Sliceable(cert, group) THEN Fetch("slice") /\ UNCHANGED <<cert, handle, dict>>
                               ELSE FallBack

\* file_dict_declaring, up to the read of the DICT section.
MayDeclare == cert.defines = NoDefines \/ group \in cert.defines

OpenCustom ==
  /\ pc = "open"
  /\ Fresh
  /\ ~InRegistry(group)
  /\ IF MayDeclare /\ Sliceable(cert, DICT)
     THEN Fetch("dict") /\ UNCHANGED <<cert, handle, dict>>
     ELSE FallBack

\* read_group_span.
View == IF handle = Follows THEN disk ELSE handle
Fetched == IF pc = "dict" THEN DICT ELSE group
Span == cert.groups[Fetched][1]
At == Span.from + Len(buf)

\* Mutant: the end of the file ends the read.
AllOrEof == pc \in {"dict", "slice"} /\ (At = Span.to \/ Len(View) <= At)

AllRead == pc \in {"dict", "slice"} /\ At = Span.to

\* A read returns some of what is left of the span and of the file.
ReadSome ==
  /\ pc \in {"dict", "slice"}
  /\ \E n \in 1..Span.to - At :
       /\ At + n <= Len(View)
       /\ buf' = buf \o SubSeq(View, At + 1, At + n)
  /\ Goto(pc)
  /\ UNCHANGED <<cert, handle, dict>>

\* Mutant: a read of nothing is tried again.
ShortReadRetries ==
  /\ pc \in {"dict", "slice"}
  /\ At < Span.to
  /\ Len(View) <= At
  /\ UNCHANGED vars

ShortRead ==
  /\ pc \in {"dict", "slice"}
  /\ At < Span.to
  /\ Len(View) <= At
  /\ FallBack

\* Mutant: a slice of anything is taken as the group's.
SlicedAny(g) == AllRead

\* parse_group_slice: a slice that does not begin with the group's own GROUP
\* record is not parsed.
Sliced(g) == AllRead /\ buf # <<>> /\ buf[1] = g

BadSlice == AllRead /\ ~Sliced(Fetched) /\ FallBack

\* The declarations are in hand; the group's own span comes next.
DictRead ==
  /\ pc = "dict"
  /\ Sliced(DICT)
  /\ IF group \in FileDictOf(buf).groups /\ Sliceable(cert, group)
     THEN /\ dict' = FileDictOf(buf)
          /\ Fetch("slice")
          /\ UNCHANGED <<cert, handle>>
     ELSE FallBack

SliceRead ==
  /\ pc = "slice"
  /\ Sliced(group)
  /\ Answer(Table(RowsOf(buf, group), group, dict), during)
  /\ UNCHANGED wholeVars

\* Any I/O error of the fast path.
ReadFails == pc \in {"sidecar", "open", "dict", "slice"} /\ FallBack

-----------------------------------------------------------------------------
(* A whole-file read, of the caller and of other threads *)

Reading(r, point) == whole[r] # NoRead /\ whole[r].point = point

Step(r, read) ==
  /\ whole' = [whole EXCEPT ![r] = read]
  /\ UNCHANGED <<worldVars, callVars, cached>>

Finish(r, answer, from) ==
  /\ whole' = [whole EXCEPT ![r] = NoRead]
  /\ IF r = Caller THEN Answer(answer, from) ELSE UNCHANGED <<worldVars, callVars>>

\* open_for_read: the size the handle reports is the size in the cache key.
OpenWhole(r, encoded) ==
  /\ whole[r] = NoRead
  /\ Readable(disk)
  /\ whole' = [whole EXCEPT ![r] = [point |-> "lookup", utf8 |-> encoded, size |-> Len(disk),
                                   handle |-> Follows, buf |-> <<>>, seen |-> {disk}]]

OwnOpen ==
  /\ pc = "whole"
  /\ OpenWhole(Caller, utf8)
  /\ UNCHANGED <<worldVars, callVars, cached>>

OtherOpen(r, encoded) ==
  /\ calls < world.calls
  /\ encoded \in world.encodings
  /\ OpenWhole(r, encoded)
  /\ calls' = calls + 1
  /\ UNCHANGED <<worldVars, pc, group, utf8, readVars, outcome, source, during, cached>>

Refused(why) ==
  /\ pc = "whole"
  /\ whole[Caller] = NoRead
  /\ Answer(Refusal(why), during)
  /\ UNCHANGED wholeVars

\* Nothing there, or over the limit.
OpenRefused == ~Readable(disk) /\ Refused("unreadable")

Key(r) == [size |-> whole[r].size, utf8 |-> whole[r].utf8]

\* The first critical section of the cache.
Hit(r) ==
  /\ Reading(r, "lookup")
  /\ Key(r) \in DOMAIN cached
  /\ Finish(r, Whole(cached[Key(r)].text, group), cached[Key(r)].seen)
  /\ UNCHANGED cached

Miss(r) ==
  /\ Reading(r, "lookup")
  /\ Key(r) \notin DOMAIN cached
  /\ Step(r, [whole[r] EXCEPT !.point = "slurp"])

WholeView(r) == IF whole[r].handle = Follows THEN disk ELSE whole[r].handle

\* slurp: no file grows here, so none outgrows the limit while it is read.
Slurp(r) ==
  /\ Reading(r, "slurp")
  /\ \E n \in 1..Len(WholeView(r)) - Len(whole[r].buf) :
       Step(r, [whole[r] EXCEPT !.buf = @ \o SubSeq(WholeView(r), Len(@) + 1, Len(@) + n)])

AtEof(r) == Reading(r, "slurp") /\ Len(WholeView(r)) <= Len(whole[r].buf)
Short(r) == Len(whole[r].buf) < whole[r].size

SlurpShort(r) ==
  /\ AtEof(r)
  /\ Short(r)
  /\ Finish(r, Refusal("failed"), during)
  /\ UNCHANGED cached

ParseFails(r) ==
  /\ AtEof(r)
  /\ ~Short(r)
  /\ ~Parses(whole[r].buf)
  /\ Finish(r, Refusal("unreadable"), during)
  /\ UNCHANGED cached

Parse(r) ==
  /\ AtEof(r)
  /\ ~Short(r)
  /\ Parses(whole[r].buf)
  /\ Step(r, [whole[r] EXCEPT !.point = "publish"])

\* The second critical section: the last writer of a key wins.
Publish(r) ==
  /\ Reading(r, "publish")
  /\ Finish(r, Whole(whole[r].buf, group), whole[r].seen)
  /\ cached' = [k \in DOMAIN cached \cup {Key(r)} |->
                  IF k = Key(r) THEN [text |-> whole[r].buf, seen |-> whole[r].seen] ELSE cached[k]]

\* The open, its size or a read of the file fails.
WholeFails(r) == Reading(r, "slurp") /\ Finish(r, Refusal("failed"), during) /\ UNCHANGED cached
OpenFails == Refused("failed")

ReadsWhole(r) ==
  \/ Hit(r) \/ Miss(r) \/ Slurp(r) \/ SlurpShort(r) \/ ParseFails(r) \/ Parse(r) \/ Publish(r)

-----------------------------------------------------------------------------
Progress ==
  \/ LoadSidecar \/ NoSidecar
  \/ OpenStale \/ OpenStandard \/ OpenCustom
  \/ ReadSome \/ ShortRead \/ BadSlice
  \/ DictRead \/ SliceRead
  \/ OwnOpen \/ OpenRefused \/ ReadsWhole(Caller)

Done == calls = world.calls /\ pc = "idle" /\ UNCHANGED vars

Next ==
  \/ \E t \in world.texts \cup {Missing} : Replace(t)
  \/ \E n \in 0..MaxFileBytes : Truncate(n)
  \/ \E i \in 1..MaxFileBytes, line \in world.lines : Overwrite(i, line)
  \/ disk # Missing /\ \E c \in Certificates(disk) : Mint(c)
  \/ Minted
  \/ \E key \in DOMAIN cached : Evict(key)
  \/ \E r \in world.others : ReadsWhole(r) \/ \E encoded \in BOOLEAN : OtherOpen(r, encoded)
  \/ \E r \in Readers : WholeFails(r)
  \/ \E g \in Groups, encoded \in BOOLEAN : Call(g, encoded)
  \/ Progress \/ ReadFails \/ OpenFails
  \/ Done

\* The host schedules the thread that binds; an I/O error is never owed.
Fairness == WF_vars(Progress)

Spec == Init /\ [][Next]_vars /\ Fairness

-----------------------------------------------------------------------------
(* Properties *)

\* A certificate that has been loaded is a certificate; a custom group is
\* sliced with the file's declarations in hand, and no other group is.
TypeOK ==
  /\ world \in Worlds
  /\ disk \in Seq(Lines) \cup {Missing}
  /\ pc \in {"idle", "sidecar", "open", "dict", "slice", "whole"}
  /\ pc \in {"open", "dict", "slice"} => cert # NoCert
  /\ pc = "slice" => (group \in Custom <=> dict # NoDict)
  /\ buf \in Seq(Lines)

\* What a read returns, by any path, is what the whole-file read of some text
\* the path held during the call would have returned, unless it fails: the
\* certificate is an optimisation and never an answer of its own (README.md: a
\* stale certificate "can never serve wrong data").
NoWrongData ==
  pc = "idle" /\ outcome \notin {None, Refusal("failed")} =>
    \E t \in during : outcome = WholeFile(t, group)

\* That holds for files that are only ever replaced whole, by files whose length
\* tells them apart, with certificates minted of any of them at any time.
Distinct == \A s, t \in world.texts : Len(s) = Len(t) => s = t
ReplacedIsNoWrongData == Distinct /\ kinds \subseteq {"replace", "mint"} => NoWrongData

\* The same for a file that is only truncated, under a certificate of what it
\* was, also between two partial reads of one span: what is left of a section
\* is never taken for the whole of it.
OneText == \A s, t \in world.texts : s = t
ShrunkIsNoWrongData == OneText /\ kinds \subseteq {"truncate"} => NoWrongData

\* Whatever is written into the file, before or during the read: a table is
\* only returned for a group whose GROUP record was in the file while the table
\* was read, and every row of it was in the file then.  A certificate whose
\* spans have shifted is not read as if it were right.  And the table was read
\* during the call, or for an earlier read of a file of the same length, which
\* is the one blind spot cache.rs and cert.rs document.
OnlyWhatWasThere ==
  pc = "idle" /\ outcome # None /\ "rows" \in DOMAIN outcome =>
    /\ {group} \cup ToSet(outcome.rows) \subseteq UNION {ToSet(t) : t \in source \ {Missing}}
    /\ \/ source \subseteq during
       \/ \E s \in source \ {Missing}, t \in during \ {Missing} : Len(s) = Len(t)

\* README.md: a certificate with `defines` admits a declared group at no cost,
\* so only an older one ever has the DICT section read.
AdmitIsFree == pc = "dict" => cert.defines = NoDefines

\* Every read returns, whatever happens to the file and the sidecar.
ReadReturns == pc # "idle" ~> pc = "idle"
=============================================================================
