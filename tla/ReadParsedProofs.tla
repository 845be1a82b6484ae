-------------------------- MODULE ReadParsedProofs --------------------------
(***************************************************************************)
(* Theorems about ReadParsed, for every set of workers, paths, texts and   *)
(* edits, every limit and every read size.                                 *)
(***************************************************************************)
EXTENDS ReadParsed, SequenceTheorems, TLAPS

\* The theorems about the cache, at this module's keys and parses.
P == INSTANCE ParseCacheProofs

-----------------------------------------------------------------------------
(* Texts and their prefixes *)

LEMMA TextsAre ==
  ASSUME NEW t
  PROVE  t \in Texts <=> t \in Seq(Blocks) /\ Len(t) <= MaxLen
<1>1. ASSUME t \in Texts PROVE t \in Seq(Blocks) /\ Len(t) <= MaxLen
  <2>1. PICK n \in 0..MaxLen : t \in [1..n -> Blocks]
    BY <1>1 DEF Texts
  <2>2. n \in Nat /\ n <= MaxLen
    BY <2>1, SlurpAssumption
  <2> QED
    BY <2>1, <2>2
<1>2. ASSUME t \in Seq(Blocks), Len(t) <= MaxLen PROVE t \in Texts
  <2>1. Len(t) \in 0..MaxLen /\ t \in [1..Len(t) -> Blocks]
    BY <1>2, SlurpAssumption
  <2> QED
    BY <2>1 DEF Texts
<1> QED
  BY <1>1, <1>2

LEMMA NoText == <<>> \in Texts /\ <<>> \in Seq(Blocks) /\ Len(<<>>) = 0
<1>1. <<>> \in Seq(Blocks) /\ Len(<<>>) = 0
  OBVIOUS
<1>2. Len(<<>>) <= MaxLen
  BY <1>1, SlurpAssumption
<1> QED
  BY <1>1, <1>2, TextsAre

LEMMA PrefixIs ==
  ASSUME NEW s \in Seq(Blocks), NEW t \in Seq(Blocks)
  PROVE  IsPrefix(s, t) <=> Len(s) <= Len(t) /\ \A i \in 1..Len(s) : s[i] = t[i]
<1>1. SubSeq(s, 1, Len(s)) = s
  BY SubSeqFull
<1>2. ASSUME Len(s) <= Len(t)
      PROVE  SubSeq(t, 1, Len(s)) = s <=> \A i \in 1..Len(s) : s[i] = t[i]
  <2> DEFINE n == Len(s)
             head == SubSeq(t, 1, n)
  <2>1. n \in Nat /\ s \in [1..n -> Blocks]
    OBVIOUS
  <2>2. \A i \in 1..n : t[i] \in Blocks
    BY <1>2
  <2>3. n \in Int /\ 1 \in Int
    BY <2>1
  <2> HIDE DEF n, head
  <2>4. /\ SubSeq(t, 1, n) \in Seq(Blocks)
        /\ Len(SubSeq(t, 1, n)) = IF 1 <= n THEN n - 1 + 1 ELSE 0
        /\ \A i \in 1..n - 1 + 1 : SubSeq(t, 1, n)[i] = t[1 + i - 1]
    BY <2>2, <2>3, SubSeqProperties
  <2>5. head \in Seq(Blocks) /\ Len(head) = n /\ \A i \in 1..n : head[i] = t[i]
    BY <2>1, <2>4 DEF head
  <2>6. head \in [1..n -> Blocks]
    BY <2>5
  <2>7. head = s <=> \A i \in 1..n : s[i] = t[i]
    BY <2>1, <2>5, <2>6
  <2> QED
    BY <2>7 DEF head, n
<1> QED
  BY <1>1, <1>2 DEF IsPrefix

LEMMA PrefixSelf ==
  ASSUME NEW s \in Seq(Blocks) PROVE IsPrefix(s, s)
BY PrefixIs

LEMMA PrefixEmpty ==
  ASSUME NEW s \in Seq(Blocks) PROVE IsPrefix(<<>>, s)
<1>1. <<>> \in Seq(Blocks) /\ Len(<<>>) = 0 /\ Len(s) \in Nat
  OBVIOUS
<1>2. Len(<<>>) <= Len(s) /\ \A i \in 1..Len(<<>>) : <<>>[i] = s[i]
  BY <1>1
<1> QED
  BY <1>1, <1>2, PrefixIs

LEMMA PrefixTransitive ==
  ASSUME NEW s \in Seq(Blocks), NEW t \in Seq(Blocks), NEW u \in Seq(Blocks),
         IsPrefix(s, t), IsPrefix(t, u)
  PROVE  IsPrefix(s, u)
BY PrefixIs

\* Two prefixes of one text are ordered by their lengths.
LEMMA PrefixByLength ==
  ASSUME NEW s \in Seq(Blocks), NEW t \in Seq(Blocks), NEW u \in Seq(Blocks),
         IsPrefix(s, u), IsPrefix(t, u), Len(s) <= Len(t)
  PROVE  IsPrefix(s, t)
BY PrefixIs

LEMMA PrefixWhole ==
  ASSUME NEW s \in Seq(Blocks), NEW t \in Seq(Blocks), IsPrefix(s, t), Len(t) <= Len(s)
  PROVE  s = t
<1>1. Len(s) = Len(t) /\ \A i \in 1..Len(s) : s[i] = t[i]
  BY PrefixIs
<1> QED
  BY <1>1

LEMMA PrefixAppend ==
  ASSUME NEW s \in Seq(Blocks), NEW t \in Seq(Blocks), NEW b \in Blocks, IsPrefix(s, t)
  PROVE  IsPrefix(s, Append(t, b))
<1>1. Append(t, b) \in Seq(Blocks) /\ Len(Append(t, b)) = Len(t) + 1
  OBVIOUS
<1>2. \A i \in 1..Len(t) : Append(t, b)[i] = t[i]
  OBVIOUS
<1>3. Len(s) <= Len(t) /\ \A i \in 1..Len(s) : s[i] = t[i]
  BY PrefixIs
<1>4. Len(s) \in Nat /\ Len(t) \in Nat
  OBVIOUS
<1>5. Len(s) <= Len(Append(t, b)) /\ \A i \in 1..Len(s) : s[i] = Append(t, b)[i]
  BY <1>1, <1>2, <1>3, <1>4
<1> QED
  BY <1>1, <1>5, PrefixIs

\* s and the n blocks of t that follow its first Len(s).
Longer(s, t, n) == s \o SubSeq(t, Len(s) + 1, Len(s) + n)

\* What a read adds keeps the buffer a text and, when it was one, a prefix.
LEMMA ReadMore ==
  ASSUME NEW s \in Seq(Blocks), NEW t \in Seq(Blocks), NEW n \in Nat,
         Len(s) + n <= Len(t)
  PROVE  /\ Longer(s, t, n) \in Seq(Blocks)
         /\ Len(Longer(s, t, n)) = Len(s) + n
         /\ IsPrefix(s, t) => IsPrefix(Longer(s, t, n), t)
<1> DEFINE more == Longer(s, t, n)
<1> DEFINE from == Len(s) + 1
           to == Len(s) + n
           tail == SubSeq(t, from, to)
<1>0. Len(s) \in Nat
  OBVIOUS
<1>1. \A i \in from..to : t[i] \in Blocks
  BY <1>0
<1>2. from \in Int /\ to \in Int
  BY <1>0
<1>3. (IF from <= to THEN to - from + 1 ELSE 0) = n /\ to - from + 1 = n
  BY <1>0
<1>4. \A i \in 1..n : from + i - 1 = Len(s) + i
  BY <1>0
<1> HIDE DEF from, to, tail, more
<1>5. /\ SubSeq(t, from, to) \in Seq(Blocks)
      /\ Len(SubSeq(t, from, to)) = IF from <= to THEN to - from + 1 ELSE 0
      /\ \A i \in 1..to - from + 1 : SubSeq(t, from, to)[i] = t[from + i - 1]
  BY <1>1, <1>2, SubSeqProperties
<1>6. tail \in Seq(Blocks) /\ Len(tail) = n /\ \A i \in 1..n : tail[i] = t[Len(s) + i]
  BY <1>3, <1>4, <1>5 DEF tail
<1>7. more = s \o tail
  BY DEF more, tail, from, to, Longer
<1>8. more \in Seq(Blocks) /\ Len(more) = Len(s) + n
  BY <1>6, <1>7
<1>9. ASSUME IsPrefix(s, t) PROVE IsPrefix(more, t)
  <2>1. \A i \in 1..Len(s) : s[i] = t[i]
    BY <1>9, PrefixIs
  <2>2. ASSUME NEW i \in 1..(Len(s) + n) PROVE more[i] = t[i]
    <3>1. CASE i \in 1..Len(s)
      BY <1>6, <1>7, <2>1, <3>1
    <3>2. CASE i \in (Len(s) + 1)..(Len(s) + n)
      <4> DEFINE j == i - Len(s)
      <4>1. j \in 1..n /\ i = Len(s) + j
        BY <1>0, <3>2
      <4>2. more[i] = tail[i - Len(s)]
        BY <1>0, <1>6, <1>7, <3>2
      <4> QED
        BY <1>6, <4>1, <4>2
    <3> QED
      BY <1>0, <3>1, <3>2
  <2> QED
    BY <1>8, <2>2, PrefixIs
<1> QED
  BY <1>8, <1>9 DEF more

-----------------------------------------------------------------------------
(* The cache under this module *)

LEMMA Assumptions ==
  /\ P!WorkersAssumption /\ P!ParsesAssumption /\ P!SizesAssumption /\ P!KeysAssumption
  /\ P!CapsAssumption /\ P!FloorAssumption /\ P!CallsAssumption
<1>1. Sizes \subseteq Nat /\ 0 \in Sizes
  BY SlurpAssumption DEF Sizes
<1> QED
  BY <1>1, CacheAssumption
  DEF P!WorkersAssumption, P!ParsesAssumption, P!SizesAssumption, P!KeysAssumption,
      P!CapsAssumption, P!FloorAssumption, P!CallsAssumption

\* The two instances of the cache are one.
LEMMA SameCache ==
  /\ Cache!Init <=> P!Init
  /\ Cache!TypeOK <=> P!TypeOK
  /\ Cache!Key = P!Key
  /\ \A w : /\ Cache!LookupHit(w) <=> P!LookupHit(w)
            /\ Cache!LookupDisabled(w) <=> P!LookupDisabled(w)
            /\ Cache!LookupMiss(w) <=> P!LookupMiss(w)
            /\ Cache!BuildFail(w) <=> P!BuildFail(w)
            /\ Cache!Insert(w) <=> P!Insert(w)
            /\ Cache!EvictOne(w) <=> P!EvictOne(w)
            /\ Cache!Unlock(w) <=> P!Unlock(w)
            /\ \A k : Cache!Enter(w, k) <=> P!Enter(w, k)
            /\ \A p : Cache!BuildOk(w, p) <=> P!BuildOk(w, p)
<1>1. Cache!Key = P!Key
  BY DEF Cache!Key, P!Key
<1>2. Cache!Init <=> P!Init
  BY DEF Cache!Init, P!Init, Cache!Key, P!Key
<1>3. Cache!TypeOK <=> P!TypeOK
  BY DEF Cache!TypeOK, P!TypeOK, Cache!Key, P!Key, Cache!Entry, P!Entry, Cache!Points, P!Points
<1>4. ASSUME NEW w
      PROVE  /\ Cache!LookupHit(w) <=> P!LookupHit(w)
             /\ Cache!LookupDisabled(w) <=> P!LookupDisabled(w)
             /\ Cache!LookupMiss(w) <=> P!LookupMiss(w)
             /\ Cache!BuildFail(w) <=> P!BuildFail(w)
             /\ \A k : Cache!Enter(w, k) <=> P!Enter(w, k)
             /\ \A p : Cache!BuildOk(w, p) <=> P!BuildOk(w, p)
  BY DEF Cache!LookupHit, P!LookupHit, Cache!LookupDisabled, P!LookupDisabled,
         Cache!LookupMiss, P!LookupMiss, Cache!BuildFail, P!BuildFail,
         Cache!Enter, P!Enter, Cache!BuildOk, P!BuildOk
<1>5. ASSUME NEW w PROVE Cache!Insert(w) <=> P!Insert(w)
  <2>1. ASSUME NEW k, NEW p, NEW tick PROVE Cache!Put(k, p, tick) <=> P!Put(k, p, tick)
    <3>1. ASSUME NEW j PROVE Cache!Cost(j) = P!Cost(j)
      BY DEF Cache!Cost, P!Cost
    <3> QED
      BY <3>1 DEF Cache!Put, P!Put
  <2>2. ASSUME NEW k PROVE Cache!OldCost(k) = P!OldCost(k) /\ Cache!Cost(k.size) = P!Cost(k.size)
    BY DEF Cache!OldCost, P!OldCost, Cache!Cost, P!Cost
  <2>3. Cache!Publish(w) <=> P!Publish(w)
    BY <2>1, <2>2 DEF Cache!Publish, P!Publish
  <2> QED
    BY <2>3 DEF Cache!Insert, P!Insert
<1>6. Cache!OverCap <=> P!OverCap
  <2>1. ASSUME NEW S PROVE Cache!Cardinality(S) = P!Cardinality(S)
    BY DEF Cache!Cardinality, P!Cardinality
  <2> QED
    BY <2>1 DEF Cache!OverCap, P!OverCap
<1>7. ASSUME NEW w
      PROVE  (Cache!EvictOne(w) <=> P!EvictOne(w)) /\ (Cache!Unlock(w) <=> P!Unlock(w))
  BY <1>6 DEF Cache!EvictOne, P!EvictOne, Cache!IsVictim, P!IsVictim,
              Cache!Unlock, P!Unlock, Cache!Restrict, P!Restrict
<1> QED
  BY <1>1, <1>2, <1>3, <1>4, <1>5, <1>7

-----------------------------------------------------------------------------
(* The inductive invariant *)

Types ==
  /\ disk \in [Paths -> Texts \cup {Missing}]
  /\ handle \in [Workers -> Texts \cup {Follows}]
  /\ buf \in [Workers -> Texts]
  /\ opened \in [Workers -> Texts]
  /\ edits \in 0..MaxEdits
  /\ world \in Worlds
  /\ kinds \subseteq world.kinds

\* The two disciplines of the writers: files replaced whole, their lengths
\* telling them apart, or files that only grow.
Whole == Distinct /\ kinds \subseteq {"replace"}
Growing == kinds \subseteq {"append"}

WholeDisk == Whole => \A p \in Paths : disk[p] \in world.texts \cup {Missing}

\* What p, a parse cached or about to be cached under k, is known to hold.
Holds(k, p) ==
  /\ Len(p.text) >= k.size
  /\ p.encoding = k.encoding
  /\ Whole => p.text \in world.texts /\ Len(p.text) = k.size
  /\ Growing => IsPrefix(p.text, disk[k.path])

Cached == \A k \in DOMAIN map : Holds(k, map[k].parsed)

\* A worker that has its file open.
Active(w) == pc[w] \in {"lookup", "build"}
Publishes(w) == pc[w] \in {"insert", "evict"}

\* What it has slurped, and what it reads next.
ReadInv(w) ==
  /\ disk[key[w].path] # Missing
  /\ parsed[w] = NoParse
  /\ Whole => /\ View(w) = opened[w]
              /\ opened[w] \in world.texts
              /\ IsPrefix(buf[w], opened[w])
  /\ Growing => /\ handle[w] = Follows
                /\ IsPrefix(opened[w], disk[key[w].path])
                /\ IsPrefix(buf[w], disk[key[w].path])

\* The parse it holds is the one it should answer with.
Right(w) ==
  /\ Whole => parsed[w] = Decoded(opened[w], key[w].encoding)
  /\ Growing => /\ IsPrefix(opened[w], parsed[w].text)
                /\ IsPrefix(parsed[w].text, disk[key[w].path])

CallInv(w) ==
  /\ pc[w] # "idle" => Len(opened[w]) = key[w].size
  /\ Active(w) => ReadInv(w)
  /\ Publishes(w) => Holds(key[w], parsed[w])
  /\ Publishes(w) \/ Answered(w) => Right(w)

Inv ==
  /\ P!IndInv /\ Types /\ BufferBounded /\ WholeDisk /\ Cached
  /\ \A w \in Workers : CallInv(w)

\* What the cache's invariant says of its variables here.
LEMMA CacheTypes ==
  ASSUME P!IndInv
  PROVE  /\ Cache!TypeOK
         /\ pc \in [Workers -> {"idle", "lookup", "build", "insert", "evict"}]
         /\ key \in [Workers -> P!Key]
         /\ parsed \in [Workers -> Parses \cup {NoParse}]
         /\ calls \in Nat
         /\ DOMAIN map \subseteq P!Key
         /\ \A k \in DOMAIN map : map[k].parsed \in Parses
         /\ \A w \in Workers : Publishes(w) => parsed[w] \in Parses
<1>1. P!TypeOK /\ P!Publishing
  BY DEF P!IndInv
<1>2. \A k \in DOMAIN map : map[k].parsed \in Parses
  BY <1>1 DEF P!TypeOK, P!Entry
<1>3. \A w \in Workers : Publishes(w) => parsed[w] \in Parses
  BY <1>1 DEF P!Publishing, Publishes
<1> QED
  BY <1>1, <1>2, <1>3, SameCache DEF P!TypeOK, P!Points

LEMMA KeyIs ==
  ASSUME NEW k \in P!Key
  PROVE  k.path \in Paths /\ k.size \in Nat /\ k.encoding \in Encodings
BY SlurpAssumption DEF P!Key, Sizes

LEMMA ParseIs ==
  ASSUME NEW p \in Parses
  PROVE  /\ p.text \in Texts /\ p.encoding \in Encodings
         /\ p = Decoded(p.text, p.encoding)
BY DEF Parses, Decoded

LEMMA DecodedIs ==
  ASSUME NEW t \in Texts, NEW e \in Encodings
  PROVE  /\ Decoded(t, e) \in Parses
         /\ Decoded(t, e).text = t /\ Decoded(t, e).encoding = e
         /\ Decoded(t, e) # NoParse
<1>1. Decoded(t, e) \in Parses
  BY DEF Parses
<1> QED
  BY <1>1, CacheAssumption DEF Decoded

\* What a worker with an open file reads is a text.
LEMMA ViewIsText ==
  ASSUME Inv, NEW w \in Workers, Active(w)
  PROVE  View(w) \in Texts /\ key[w].path \in Paths /\ disk[key[w].path] \in Texts
<1>1. key[w] \in P!Key
  BY CacheTypes DEF Inv
<1>2. key[w].path \in Paths
  BY <1>1, KeyIs
<1>3. disk[key[w].path] \in Texts
  BY <1>2 DEF Inv, Types, CallInv, ReadInv
<1> QED
  BY <1>2, <1>3 DEF View, Inv, Types

\* A step of one worker leaves what is known of the others as it is, and what
\* is known of the entries it keeps.
LEMMA OtherWorker ==
  ASSUME NEW v \in Workers, CallInv(v), UNCHANGED worldVars,
         pc'[v] = pc[v], key'[v] = key[v], parsed'[v] = parsed[v],
         buf'[v] = buf[v], handle'[v] = handle[v], opened'[v] = opened[v]
  PROVE  CallInv(v)'
BY DEF CallInv, Active, Publishes, Answered, ReadInv, Right, Holds, Whole, Growing,
       Distinct, View, worldVars

LEMMA SameHolds ==
  ASSUME UNCHANGED worldVars, NEW k, NEW p, Holds(k, p)
  PROVE  /\ Len(p.text) >= k.size
         /\ p.encoding = k.encoding
         /\ Whole' => p.text \in world'.texts /\ Len(p.text) = k.size
         /\ Growing' => IsPrefix(p.text, disk'[k.path])
BY DEF Holds, Whole, Growing, Distinct, worldVars

LEMMA KeptEntries ==
  ASSUME Cached, UNCHANGED worldVars,
         \A k \in DOMAIN map' : k \in DOMAIN map /\ map'[k].parsed = map[k].parsed
  PROVE  Cached'
BY DEF Cached, Holds, Whole, Growing, Distinct, worldVars

LEMMA SameWorld ==
  ASSUME Types, WholeDisk, UNCHANGED worldVars
  PROVE  /\ WholeDisk'
         /\ disk' \in [Paths -> Texts \cup {Missing}]
         /\ edits' \in 0..MaxEdits /\ world' \in Worlds /\ kinds' \subseteq world'.kinds
BY DEF Types, WholeDisk, Whole, Distinct, worldVars

\* A step of one worker preserves the invariant if it does so for that worker.
LEMMA WorkerStep ==
  ASSUME Inv, NEW w \in Workers, UNCHANGED worldVars, P!IndInv', Cached', CallInv(w)',
         handle' \in [Workers -> Texts \cup {Follows}],
         buf' \in [Workers -> Texts], Len(buf'[w]) <= MaxFileBytes,
         opened' \in [Workers -> Texts],
         \A v \in Workers \ {w} :
           /\ pc'[v] = pc[v] /\ key'[v] = key[v] /\ parsed'[v] = parsed[v]
           /\ buf'[v] = buf[v] /\ handle'[v] = handle[v] /\ opened'[v] = opened[v]
  PROVE  Inv'
<1>1. Types' /\ WholeDisk'
  BY SameWorld DEF Inv, Types
<1>2. BufferBounded'
  BY DEF BufferBounded, Inv
<1>3. \A v \in Workers : CallInv(v)'
  BY OtherWorker DEF Inv
<1> QED
  BY <1>1, <1>2, <1>3 DEF Inv

-----------------------------------------------------------------------------
(* The steps *)

LEMMA InitInv == Init => Inv
<1> SUFFICES ASSUME Init PROVE Inv
  OBVIOUS
<1>1. P!IndInv
  BY SameCache, Assumptions, P!InitIndInv DEF Init
<1>2. <<>> \in Texts /\ Len(<<>>) = 0
  BY NoText
<1>3. world \in Worlds /\ \A t \in world.texts : t \in Texts
  BY WorldsAssumption, TextsAre DEF Init
<1>4. Types
  BY <1>2, <1>3, EditsAssumption DEF Init, Types
<1>5. BufferBounded
  BY <1>2, SlurpAssumption DEF Init, BufferBounded
<1>6. WholeDisk
  BY DEF Init, WholeDisk
<1>7. DOMAIN map = {} /\ \A w \in Workers : pc[w] = "idle" /\ parsed[w] = NoParse
  BY DEF Init, Cache!Init
<1>8. Cached /\ \A w \in Workers : CallInv(w)
  BY <1>7 DEF Cached, CallInv, Active, Publishes, Answered
<1> QED
  BY <1>1, <1>4, <1>5, <1>6, <1>8 DEF Inv

\* A call opens a file that is there and within the limit.
LEMMA OpenStep ==
  ASSUME Inv, NEW w \in Workers, NEW p \in Paths, NEW e \in Encodings, Open(w, p, e)
  PROVE  Inv'
<1> DEFINE k == [path |-> p, size |-> Len(disk[p]), encoding |-> e]
<1>1. disk[p] \in Texts /\ disk[p] # Missing /\ Len(disk[p]) \in Sizes
  <2>1. disk[p] \in Texts /\ disk[p] # Missing /\ Len(disk[p]) <= MaxFileBytes
    BY DEF Open, Readable, Inv, Types
  <2>2. Len(disk[p]) \in Nat
    BY <2>1, TextsAre
  <2> QED
    BY <2>1, <2>2, SlurpAssumption DEF Sizes
<1>2. k \in P!Key /\ k.path = p /\ k.size = Len(disk[p]) /\ k.encoding = e
  BY <1>1 DEF P!Key
<1>3. Cache!Enter(w, k) /\ UNCHANGED worldVars
  BY DEF Open, Start
<1> HIDE DEF k
<1>4. P!IndInv'
  BY <1>2, <1>3, SameCache, Assumptions, P!EnterStep DEF Inv
<1>5. /\ pc' = [pc EXCEPT ![w] = "lookup"]
      /\ key' = [key EXCEPT ![w] = k]
      /\ parsed' = [parsed EXCEPT ![w] = NoParse]
      /\ UNCHANGED map
  BY <1>3 DEF Cache!Enter
<1>6. /\ handle' = [handle EXCEPT ![w] = Follows]
      /\ buf' = [buf EXCEPT ![w] = <<>>]
      /\ opened' = [opened EXCEPT ![w] = disk[p]]
  BY DEF Open, Start
<1>7. <<>> \in Texts /\ Len(<<>>) = 0 /\ disk[p] \in Seq(Blocks)
  BY <1>1, TextsAre, NoText
<1>8. /\ pc'[w] = "lookup" /\ key'[w] = k /\ parsed'[w] = NoParse
      /\ handle'[w] = Follows /\ buf'[w] = <<>> /\ opened'[w] = disk[p]
  BY <1>5, <1>6, CacheTypes DEF Inv, Types
<1>9. IsPrefix(<<>>, disk[p]) /\ IsPrefix(disk[p], disk[p])
  BY <1>7, PrefixEmpty, PrefixSelf
<1>10. Whole' => disk[p] \in world.texts
  BY <1>1, <1>3 DEF Whole, Distinct, WholeDisk, Inv, worldVars
<1>11. disk' = disk /\ world' = world
  BY <1>3 DEF worldVars
<1>12. View(w)' = disk[p]
  BY <1>2, <1>8, <1>11 DEF View
<1>13. CallInv(w)'
  BY <1>1, <1>2, <1>8, <1>9, <1>10, <1>11, <1>12
  DEF CallInv, Active, Publishes, Answered, ReadInv
<1>14. Cached'
  BY <1>3, <1>5, KeptEntries DEF Inv
<1>15. /\ handle' \in [Workers -> Texts \cup {Follows}]
       /\ buf' \in [Workers -> Texts] /\ Len(buf'[w]) <= MaxFileBytes
       /\ opened' \in [Workers -> Texts]
  BY <1>1, <1>6, <1>7, <1>8, SlurpAssumption DEF Inv, Types
<1>16. \A v \in Workers \ {w} :
         /\ pc'[v] = pc[v] /\ key'[v] = key[v] /\ parsed'[v] = parsed[v]
         /\ buf'[v] = buf[v] /\ handle'[v] = handle[v] /\ opened'[v] = opened[v]
  BY <1>5, <1>6, CacheTypes DEF Inv, Types
<1> QED
  BY <1>3, <1>4, <1>13, <1>14, <1>15, <1>16, WorkerStep

\* A call that is refused touches nothing but its own answer.
LEMMA OpenRefusedStep ==
  ASSUME Inv, NEW w \in Workers, NEW p \in Paths, OpenRefused(w, p)
  PROVE  Inv'
<1>1. /\ pc[w] = "idle" /\ calls' = calls + 1
      /\ parsed' = [parsed EXCEPT ![w] = NoParse]
      /\ UNCHANGED <<map, total, cap, clock, lock, pc, key>>
      /\ UNCHANGED worldVars /\ UNCHANGED <<handle, buf, opened>>
  BY DEF OpenRefused, slurpVars
<1>2. P!TypeOK /\ P!LockHeld /\ P!Publishing /\ clock \in Nat
  BY DEF Inv, P!IndInv, P!TypeOK
<1>3. P!TypeOK'
  BY <1>1, <1>2 DEF P!TypeOK
<1>4. P!LockHeld' /\ P!Publishing'
  BY <1>1, <1>2 DEF P!LockHeld, P!Publishing, P!TypeOK
<1>5. P!IndInv'
  <2>1. clock' >= clock
    BY <1>1, <1>2
  <2> QED
    BY <1>1, <1>3, <1>4, <2>1, Assumptions, P!QuietStep DEF Inv
<1>6. parsed'[w] = NoParse /\ pc'[w] = "idle"
  BY <1>1, CacheTypes DEF Inv
<1>7. CallInv(w)'
  BY <1>6 DEF CallInv, Active, Publishes, Answered
<1>8. Cached'
  BY <1>1, KeptEntries DEF Inv
<1>9. \A v \in Workers \ {w} : pc'[v] = pc[v] /\ key'[v] = key[v] /\ parsed'[v] = parsed[v]
  BY <1>1, CacheTypes DEF Inv
<1> QED
  BY <1>1, <1>5, <1>7, <1>8, <1>9, WorkerStep DEF Inv, Types, BufferBounded

\* Every step that ends a call's read closes its file.
LEMMA Closed ==
  ASSUME Inv, NEW w \in Workers, Close(w)
  PROVE  /\ UNCHANGED worldVars /\ opened' = opened
         /\ handle' \in [Workers -> Texts \cup {Follows}]
         /\ buf' \in [Workers -> Texts] /\ Len(buf'[w]) <= MaxFileBytes
         /\ opened' \in [Workers -> Texts]
         /\ \A v \in Workers \ {w} :
              buf'[v] = buf[v] /\ handle'[v] = handle[v] /\ opened'[v] = opened[v]
<1>1. /\ handle' = [handle EXCEPT ![w] = Follows]
      /\ buf' = [buf EXCEPT ![w] = <<>>]
      /\ UNCHANGED worldVars /\ opened' = opened
  BY DEF Close
<1>2. buf'[w] = <<>> /\ Len(<<>>) <= MaxFileBytes
  BY <1>1, NoText, SlurpAssumption DEF Inv, Types
<1> QED
  BY <1>1, <1>2, NoText DEF Inv, Types

\* What is known of an entry is what a hit on it needs.
LEMMA HitStep ==
  ASSUME Inv, NEW w \in Workers, Hit(w)
  PROVE  Inv'
<1>1. Cache!LookupHit(w) /\ Close(w)
  BY DEF Hit
<1>2. P!IndInv'
  BY <1>1, SameCache, Assumptions, P!LookupHitStep DEF Inv
<1> DEFINE k == key[w]
           p == map[k].parsed
<1>3. /\ pc[w] = "lookup" /\ k \in DOMAIN map
      /\ pc' = [pc EXCEPT ![w] = "idle"] /\ key' = key
      /\ parsed' = [parsed EXCEPT ![w] = p]
  BY <1>1 DEF Cache!LookupHit
<1>4. \A j \in DOMAIN map' : j \in DOMAIN map /\ map'[j].parsed = map[j].parsed
  <2>1. map' = [map EXCEPT ![k] = [@ EXCEPT !.tick = clock + 1]]
    BY <1>1 DEF Cache!LookupHit
  <2>2. map \in [DOMAIN map -> P!Entry]
    BY DEF Inv, P!IndInv, P!TypeOK
  <2> QED
    BY <2>1, <2>2, <1>3 DEF P!Entry
<1>5. Cached'
  BY <1>1, <1>4, KeptEntries, Closed DEF Inv
<1>6. k \in P!Key /\ p \in Parses
  BY <1>3, CacheTypes DEF Inv
<1>7. k.path \in Paths /\ k.size \in Nat /\ disk[k.path] \in Texts
  BY <1>3, <1>6, KeyIs, ViewIsText DEF Active
<1>8. p.text \in Texts /\ p = Decoded(p.text, p.encoding)
  BY <1>6, ParseIs
<1>9. Len(opened[w]) = k.size /\ ReadInv(w) /\ Holds(k, p)
  BY <1>3 DEF Inv, CallInv, Active, Cached
<1>10. opened[w] \in Texts
  BY DEF Inv, Types
<1>11. ASSUME Whole PROVE p = Decoded(opened[w], k.encoding)
  <2>1. p.text = opened[w]
    BY <1>9, <1>11 DEF Holds, ReadInv, Whole, Distinct
  <2> QED
    BY <2>1, <1>8, <1>9 DEF Holds
<1>12. ASSUME Growing PROVE IsPrefix(opened[w], p.text) /\ IsPrefix(p.text, disk[k.path])
  <2>1. /\ IsPrefix(opened[w], disk[k.path]) /\ IsPrefix(p.text, disk[k.path])
        /\ Len(opened[w]) <= Len(p.text)
    BY <1>9, <1>12 DEF Holds, ReadInv
  <2> QED
    BY <2>1, <1>7, <1>8, <1>10, TextsAre, PrefixByLength
<1>13. CallInv(w)'
  <2>1. pc'[w] = "idle" /\ parsed'[w] = p /\ key'[w] = k
    BY <1>3, CacheTypes DEF Inv
  <2>2. UNCHANGED worldVars /\ opened'[w] = opened[w]
    BY <1>1, Closed
  <2> HIDE DEF k, p
  <2>3. Right(w)'
    BY <1>11, <1>12, <2>1, <2>2 DEF Right, Whole, Growing, Distinct, worldVars
  <2> QED
    BY <2>1, <2>3 DEF CallInv, Active, Publishes
<1>14. \A v \in Workers \ {w} : pc'[v] = pc[v] /\ key'[v] = key[v] /\ parsed'[v] = parsed[v]
  BY <1>3, CacheTypes DEF Inv
<1> QED
  BY <1>1, <1>2, <1>5, <1>13, <1>14, Closed, WorkerStep

\* A miss, or a disabled cache, leads to a build with the file still open.
LEMMA StartBuildStep ==
  ASSUME Inv, NEW w \in Workers, StartBuild(w)
  PROVE  Inv'
<1>1. Cache!LookupDisabled(w) \/ Cache!LookupMiss(w)
  BY DEF StartBuild
<1>2. UNCHANGED worldVars /\ UNCHANGED <<handle, buf, opened>>
  BY DEF StartBuild, slurpVars
<1>3. P!IndInv'
  BY <1>1, SameCache, Assumptions, P!LookupDisabledStep, P!LookupMissStep DEF Inv
<1>4. /\ pc[w] = "lookup" /\ pc' = [pc EXCEPT ![w] = "build"]
      /\ UNCHANGED <<map, key, parsed>>
  BY <1>1 DEF Cache!LookupDisabled, Cache!LookupMiss
<1>5. Cached'
  BY <1>2, <1>4, KeptEntries DEF Inv
<1>6. pc'[w] = "build"
  BY <1>4, CacheTypes DEF Inv
<1>7. CallInv(w)'
  <2>1. ReadInv(w) /\ Len(opened[w]) = key[w].size
    BY <1>4 DEF Inv, CallInv, Active
  <2>2. ReadInv(w)'
    BY <2>1, <1>2, <1>4 DEF ReadInv, Whole, Growing, Distinct, View, worldVars
  <2> QED
    BY <1>2, <1>4, <1>6, <2>1, <2>2 DEF CallInv, Active, Publishes, Answered
<1>8. \A v \in Workers \ {w} : pc'[v] = pc[v] /\ key'[v] = key[v] /\ parsed'[v] = parsed[v]
  BY <1>4, CacheTypes DEF Inv
<1> QED
  BY <1>2, <1>3, <1>5, <1>7, <1>8, WorkerStep DEF Inv, Types, BufferBounded

\* A read adds to the buffer what follows it in the file, within the limit.
LEMMA ReadStep ==
  ASSUME Inv, NEW w \in Workers, ReadBlocks(w)
  PROVE  Inv'
<1>1. PICK got \in 1..ReadChunk :
        /\ pc[w] = "build"
        /\ Len(buf[w]) + got <= MaxFileBytes
        /\ Len(buf[w]) + got <= Len(View(w))
        /\ buf' = [buf EXCEPT ![w] = buf[w] \o SubSeq(View(w), Len(buf[w]) + 1, Len(buf[w]) + got)]
        /\ UNCHANGED cacheVars /\ UNCHANGED worldVars /\ UNCHANGED <<handle, opened>>
  BY DEF ReadBlocks, WithinLimit, Read, CanRead, Inv, Types
<1>2. got \in Nat
  BY SlurpAssumption
<1>3. Active(w) /\ ReadInv(w) /\ Len(opened[w]) = key[w].size
  BY <1>1 DEF Active, Inv, CallInv
<1>4. /\ View(w) \in Seq(Blocks) /\ Len(View(w)) <= MaxLen /\ key[w].path \in Paths
      /\ disk[key[w].path] \in Texts /\ buf[w] \in Seq(Blocks)
  BY <1>3, ViewIsText, TextsAre DEF Inv, Types
<1> DEFINE more == Longer(buf[w], View(w), got)
<1>5. /\ more \in Seq(Blocks) /\ Len(more) = Len(buf[w]) + got
      /\ IsPrefix(buf[w], View(w)) => IsPrefix(more, View(w))
  BY <1>1, <1>2, <1>4, ReadMore
<1>6. buf' = [buf EXCEPT ![w] = more] /\ buf'[w] = more
  BY <1>1 DEF Longer, Inv, Types
<1> HIDE DEF more
<1>7. Len(more) <= MaxFileBytes /\ more \in Texts
  <2>1. Len(more) <= MaxLen
    <3>1. Len(View(w)) \in Nat /\ Len(more) <= Len(View(w))
      BY <1>1, <1>4, <1>5
    <3>2. Len(more) \in Nat
      BY <1>5
    <3> QED
      BY <3>1, <3>2, <1>4, SlurpAssumption
  <2> QED
    BY <2>1, <1>1, <1>5, TextsAre
<1>8. P!IndInv'
  <2>1. UNCHANGED P!vars
    BY <1>1 DEF cacheVars, P!vars
  <2> QED
    BY <2>1, Assumptions, P!NextIndInv DEF Inv
<1>9. Cached'
  BY <1>1, KeptEntries DEF Inv, cacheVars
<1>10. CallInv(w)'
  <2>1. pc' = pc /\ key' = key /\ parsed' = parsed /\ opened' = opened /\ handle' = handle
        /\ disk' = disk /\ world' = world /\ kinds' = kinds
    BY <1>1 DEF cacheVars, worldVars
  <2>2. View(w)' = View(w) /\ (Whole' <=> Whole) /\ (Growing' <=> Growing)
    BY <2>1 DEF View, Whole, Growing, Distinct
  <2>3. ASSUME Whole PROVE IsPrefix(more, opened[w])
    BY <1>3, <1>5, <2>3 DEF ReadInv
  <2>4. ASSUME Growing PROVE IsPrefix(more, disk[key[w].path])
    BY <1>3, <1>5, <2>4 DEF ReadInv, View
  <2>5. ReadInv(w)'
    BY <1>3, <1>6, <2>1, <2>2, <2>3, <2>4 DEF ReadInv
  <2> QED
    BY <1>1, <1>3, <2>1, <2>5 DEF CallInv, Active, Publishes, Answered
<1>11. buf' \in [Workers -> Texts] /\ Len(buf'[w]) <= MaxFileBytes
  BY <1>6, <1>7 DEF Inv, Types
<1>12. \A v \in Workers \ {w} : buf'[v] = buf[v]
  BY <1>6 DEF Inv, Types
<1> QED
  BY <1>1, <1>8, <1>9, <1>10, <1>11, <1>12, WorkerStep DEF Inv, Types, cacheVars

\* However a build fails, nothing is answered and nothing is cached.
LEMMA FailStep ==
  ASSUME Inv, NEW w \in Workers, Cache!BuildFail(w), Close(w)
  PROVE  Inv'
<1>1. P!IndInv'
  BY SameCache, Assumptions, P!BuildFailStep DEF Inv
<1>2. /\ pc[w] = "build" /\ pc' = [pc EXCEPT ![w] = "idle"]
      /\ UNCHANGED <<map, key, parsed>>
  BY DEF Cache!BuildFail
<1>3. Cached'
  BY <1>2, KeptEntries, Closed DEF Inv
<1>4. CallInv(w)'
  <2>1. pc'[w] = "idle" /\ parsed'[w] = NoParse
    BY <1>2, CacheTypes DEF Inv, CallInv, Active, ReadInv
  <2> QED
    BY <2>1 DEF CallInv, Active, Publishes, Answered
<1>5. \A v \in Workers \ {w} : pc'[v] = pc[v] /\ key'[v] = key[v] /\ parsed'[v] = parsed[v]
  BY <1>2, CacheTypes DEF Inv
<1> QED
  BY <1>1, <1>3, <1>4, <1>5, Closed, WorkerStep

\* A file read to its end that parses is what its call should answer with.
LEMMA ParseStep ==
  ASSUME Inv, NEW w \in Workers, Parse(w)
  PROVE  Inv'
<1> DEFINE k == key[w]
           p == Decoded(buf[w], k.encoding)
<1>1. /\ pc[w] = "build" /\ Len(View(w)) <= Len(buf[w]) /\ ~(Len(buf[w]) < k.size)
      /\ Cache!BuildOk(w, p) /\ Close(w)
  BY DEF Parse, AtEof, Short
<1>2. Active(w) /\ ReadInv(w) /\ Len(opened[w]) = k.size
  BY <1>1 DEF Active, Inv, CallInv
<1>3. k \in P!Key /\ k.path \in Paths /\ k.size \in Nat /\ k.encoding \in Encodings
  BY CacheTypes, KeyIs DEF Inv
<1>4. /\ buf[w] \in Texts /\ buf[w] \in Seq(Blocks) /\ Len(buf[w]) >= k.size
      /\ View(w) \in Seq(Blocks) /\ opened[w] \in Seq(Blocks)
      /\ disk[k.path] \in Seq(Blocks)
  <2>1. buf[w] \in Texts /\ opened[w] \in Texts /\ View(w) \in Texts /\ disk[k.path] \in Texts
    BY <1>2, ViewIsText DEF Inv, Types
  <2>2. Len(buf[w]) \in Nat
    BY <2>1, TextsAre
  <2> QED
    BY <1>1, <1>3, <2>1, <2>2, TextsAre
<1>5. p \in Parses /\ p.text = buf[w] /\ p.encoding = k.encoding
  BY <1>3, <1>4, DecodedIs
<1>6. P!IndInv'
  BY <1>1, <1>5, SameCache, Assumptions, P!BuildOkStep DEF Inv
<1>7. /\ parsed' = [parsed EXCEPT ![w] = p]
      /\ pc' = [pc EXCEPT ![w] = IF cap = 0 THEN "idle" ELSE "insert"]
      /\ UNCHANGED <<map, key>>
  BY <1>1 DEF Cache!BuildOk
<1>8. Cached'
  BY <1>1, <1>7, KeptEntries, Closed DEF Inv
<1>9. ASSUME Whole PROVE buf[w] = opened[w] /\ opened[w] \in world.texts
  <2>1. View(w) = opened[w] /\ opened[w] \in world.texts /\ IsPrefix(buf[w], opened[w])
    BY <1>2, <1>9 DEF ReadInv
  <2> QED
    BY <2>1, <1>1, <1>4, PrefixWhole
<1>10. ASSUME Growing PROVE buf[w] = disk[k.path] /\ IsPrefix(opened[w], disk[k.path])
  <2>1. /\ View(w) = disk[k.path]
        /\ IsPrefix(opened[w], disk[k.path]) /\ IsPrefix(buf[w], disk[k.path])
    BY <1>2, <1>10 DEF ReadInv, View
  <2> QED
    BY <2>1, <1>1, <1>4, PrefixWhole
<1>11. Holds(k, p) /\ (Growing => IsPrefix(opened[w], p.text) /\ IsPrefix(p.text, disk[k.path]))
  BY <1>2, <1>4, <1>5, <1>9, <1>10, PrefixSelf DEF Holds
<1>12. Whole => p = Decoded(opened[w], k.encoding)
  BY <1>9
<1>13. CallInv(w)'
  <2>1. /\ pc'[w] \in {"idle", "insert"} /\ parsed'[w] = p /\ key'[w] = k
        /\ UNCHANGED worldVars /\ opened'[w] = opened[w]
    BY <1>1, <1>7, Closed, CacheTypes DEF Inv
  <2> HIDE DEF k, p
  <2>2. Right(w)'
    BY <1>11, <1>12, <2>1 DEF Right, Whole, Growing, Distinct, worldVars
  <2>3. Holds(key[w], parsed[w])'
    BY <1>11, <2>1 DEF Holds, Whole, Growing, Distinct, worldVars
  <2> QED
    BY <1>2, <2>1, <2>2, <2>3 DEF CallInv, Active, Publishes, Answered
<1>14. \A v \in Workers \ {w} : pc'[v] = pc[v] /\ key'[v] = key[v] /\ parsed'[v] = parsed[v]
  BY <1>7, CacheTypes DEF Inv
<1> QED
  BY <1>1, <1>6, <1>8, <1>13, <1>14, Closed, WorkerStep

\* The second critical section caches what the call holds, and only that.
LEMMA FinishStep ==
  ASSUME Inv, NEW w \in Workers, Finish(w)
  PROVE  Inv'
<1>1. UNCHANGED worldVars /\ UNCHANGED <<handle, buf, opened>>
  BY DEF Finish, slurpVars
<1>2. P!IndInv'
  BY SameCache, Assumptions, P!InsertStep, P!EvictOneStep, P!UnlockStep DEF Finish, Inv
<1>3. /\ Publishes(w) /\ UNCHANGED <<key, parsed>>
      /\ \/ pc' = [pc EXCEPT ![w] = "evict"]
         \/ pc' = pc
         \/ pc' = [pc EXCEPT ![w] = "idle"]
  BY DEF Finish, Publishes, Cache!Insert, Cache!EvictOne, Cache!Unlock
<1>4. /\ \A v \in Workers \ {w} : pc'[v] = pc[v]
      /\ pc'[w] \in {"evict", "insert", "idle"}
  BY <1>3, CacheTypes DEF Inv, Publishes
<1>5. Holds(key[w], parsed[w]) /\ Right(w) /\ Len(opened[w]) = key[w].size
  BY <1>3 DEF Inv, CallInv, Publishes
<1>6. CallInv(w)'
  <2>1. Holds(key[w], parsed[w])' /\ Right(w)'
    BY <1>1, <1>3, <1>5 DEF Holds, Right, Whole, Growing, Distinct, worldVars
  <2> QED
    BY <1>1, <1>3, <1>4, <1>5, <2>1 DEF CallInv, Active, Publishes, Answered
<1>7. Cached'
  <2>1. CASE Cache!Insert(w)
    <3>1. /\ DOMAIN map' = DOMAIN map \cup {key[w]}
          /\ map'[key[w]].parsed = parsed[w]
          /\ \A k \in DOMAIN map : k # key[w] => map'[k].parsed = map[k].parsed
      BY <2>1 DEF Cache!Insert, Cache!Publish, Cache!Put
    <3> QED
      BY <1>1, <1>5, <3>1 DEF Inv, Cached, Holds, Whole, Growing, Distinct, worldVars
  <2>2. CASE Cache!EvictOne(w)
    <3>1. \A k \in DOMAIN map' : k \in DOMAIN map /\ map'[k] = map[k]
      BY <2>2 DEF Cache!EvictOne, Cache!Restrict
    <3> QED
      BY <1>1, <3>1, KeptEntries DEF Inv
  <2>3. CASE Cache!Unlock(w)
    BY <1>1, <2>3, KeptEntries DEF Inv, Cache!Unlock
  <2> QED
    BY <2>1, <2>2, <2>3 DEF Finish
<1> QED
  BY <1>1, <1>2, <1>3, <1>4, <1>6, <1>7, WorkerStep DEF Inv, Types, BufferBounded

-----------------------------------------------------------------------------
(* The edits of other programs *)

\* An edit reaches neither the cache nor the buffers.
LEMMA EditFrame ==
  ASSUME Inv, NEW kind, NEW p \in Paths, NEW text, Edit(kind, p, text)
  PROVE  /\ P!IndInv' /\ BufferBounded'
         /\ UNCHANGED <<map, pc, key, parsed, buf, opened, world>>
         /\ disk' = [disk EXCEPT ![p] = text]
         /\ edits' \in 0..MaxEdits
         /\ kinds' = kinds \cup {kind} /\ kinds' \subseteq world'.kinds
<1>1. UNCHANGED cacheVars /\ UNCHANGED <<buf, opened, world>>
  BY DEF Edit
<1>2. P!IndInv'
  <2>1. UNCHANGED P!vars
    BY <1>1 DEF cacheVars, P!vars
  <2> QED
    BY <2>1, Assumptions, P!NextIndInv DEF Inv
<1>3. edits' \in 0..MaxEdits
  BY EditsAssumption DEF Edit, Inv, Types
<1> QED
  BY <1>1, <1>2, <1>3 DEF Edit, cacheVars, Inv, Types, BufferBounded

\* A replaced file stays what its readers opened; nothing else of a call moves.
LEMMA ReplaceStep ==
  ASSUME Inv, NEW p \in Paths, NEW text \in world.texts, Replace(p, text)
  PROVE  Inv'
<1>1. Edit("replace", p, text)
  BY DEF Replace
<1>2. /\ P!IndInv' /\ BufferBounded'
      /\ UNCHANGED <<map, pc, key, parsed, buf, opened, world>>
      /\ disk' = [disk EXCEPT ![p] = text]
      /\ edits' \in 0..MaxEdits
      /\ kinds' = kinds \cup {"replace"} /\ kinds' \subseteq world'.kinds
  BY <1>1, EditFrame
<1>3. text \in Texts
  BY WorldsAssumption, TextsAre DEF Inv, Types
<1>4. handle' = [w \in Workers |->
                   IF w \in Reading(p) /\ handle[w] = Follows THEN disk[p] ELSE handle[w]]
  BY DEF Replace
<1>5. ASSUME NEW w \in Workers, w \in Reading(p) PROVE disk[p] \in Texts
  <2>1. Active(w) /\ key[w].path = p
    BY <1>5 DEF Reading, Active
  <2> QED
    BY <2>1, ViewIsText
<1>6. Types'
  <2>1. handle' \in [Workers -> Texts \cup {Follows}]
    BY <1>4, <1>5 DEF Inv, Types
  <2> QED
    BY <1>2, <1>3, <2>1 DEF Inv, Types
<1>7. ~Growing' /\ (Whole' => Whole)
  BY <1>2 DEF Growing, Whole, Distinct
<1>8. WholeDisk'
  BY <1>2, <1>7 DEF Inv, WholeDisk, Types
<1>9. Cached'
  BY <1>2, <1>7 DEF Inv, Cached, Holds
<1>10. ASSUME NEW w \in Workers PROVE CallInv(w)'
  <2>1. CallInv(w)
    BY DEF Inv
  <2>2. ASSUME Active(w) PROVE ReadInv(w)'
    <3>1. ReadInv(w)
      BY <2>1, <2>2 DEF CallInv
    <3>2. disk'[key[w].path] # Missing
      BY <1>2, <1>3, <2>2, <3>1, ViewIsText, PlacesAssumption DEF ReadInv, Inv, Types
    <3>3. View(w)' = View(w)
      <4>1. CASE key[w].path = p
        <5>1. w \in Reading(p) /\ disk[p] # Follows
          BY <1>5, <2>2, <4>1, PlacesAssumption DEF Reading, Active
        <5> QED
          BY <1>2, <1>4, <4>1, <5>1 DEF View
      <4>2. CASE key[w].path # p
        BY <1>2, <1>4, <4>2, ViewIsText, <2>2 DEF View, Reading, Inv, Types
      <4> QED
        BY <4>1, <4>2
    <3> QED
      BY <1>2, <1>7, <3>1, <3>2, <3>3 DEF ReadInv
  <2>3. Publishes(w) => Holds(key[w], parsed[w])'
    BY <1>2, <1>7, <2>1 DEF CallInv, Holds
  <2>4. Publishes(w) \/ Answered(w) => Right(w)'
    BY <1>2, <1>7, <2>1 DEF CallInv, Right
  <2> QED
    BY <1>2, <2>1, <2>2, <2>3, <2>4 DEF CallInv, Active, Publishes, Answered
<1> QED
  BY <1>2, <1>6, <1>8, <1>9, <1>10 DEF Inv

\* An edit in place leaves the handles alone and ends the whole-file
\* discipline; one that only grows the file keeps the growing one.
LEMMA InPlaceStep ==
  ASSUME Inv, NEW kind, kind # "replace", NEW p \in Paths, disk[p] # Missing,
         NEW text \in Texts, Edit(kind, p, text), UNCHANGED handle,
         kind = "append" =>
           \A s \in Seq(Blocks) : IsPrefix(s, disk[p]) => IsPrefix(s, text)
  PROVE  Inv'
<1>1. /\ P!IndInv' /\ BufferBounded'
      /\ UNCHANGED <<map, pc, key, parsed, buf, opened, world>>
      /\ disk' = [disk EXCEPT ![p] = text]
      /\ edits' \in 0..MaxEdits
      /\ kinds' = kinds \cup {kind} /\ kinds' \subseteq world'.kinds
  BY EditFrame
<1>2. Types'
  BY <1>1 DEF Inv, Types
<1>3. ~Whole' /\ (Growing' => Growing /\ kind = "append")
  BY <1>1 DEF Growing, Whole
<1>4. WholeDisk'
  BY <1>3 DEF WholeDisk
<1>5. ASSUME NEW s \in Seq(Blocks), NEW q \in Paths, IsPrefix(s, disk[q]), Growing'
      PROVE  IsPrefix(s, disk'[q])
  BY <1>1, <1>3, <1>5 DEF Inv, Types
<1>6. Cached'
  <2>1. ASSUME NEW k \in DOMAIN map PROVE Holds(k, map[k].parsed)'
    <3>1. Holds(k, map[k].parsed) /\ map[k].parsed \in Parses /\ k \in P!Key
      BY CacheTypes DEF Inv, Cached
    <3>2. k.path \in Paths /\ map[k].parsed.text \in Seq(Blocks)
      BY <3>1, KeyIs, ParseIs, TextsAre
    <3> QED
      BY <1>1, <1>3, <1>5, <3>1, <3>2 DEF Holds
  <2> QED
    BY <1>1, <2>1 DEF Cached, Holds
<1>7. ASSUME NEW w \in Workers PROVE CallInv(w)'
  <2>1. CallInv(w) /\ key[w] \in P!Key
    BY CacheTypes DEF Inv
  <2>2. key[w].path \in Paths
    BY <2>1, KeyIs
  <2>3. buf[w] \in Seq(Blocks) /\ opened[w] \in Seq(Blocks)
    BY TextsAre DEF Inv, Types
  <2>4. ASSUME Active(w) PROVE ReadInv(w)'
    <3>1. ReadInv(w)
      BY <2>1, <2>4 DEF CallInv
    <3>2. disk'[key[w].path] # Missing
      BY <1>1, <2>2, <3>1, PlacesAssumption DEF ReadInv, Inv, Types
    <3> QED
      BY <1>1, <1>3, <1>5, <2>2, <2>3, <3>1, <3>2 DEF ReadInv
  <2>5. ASSUME Publishes(w) \/ Answered(w)
        PROVE  parsed[w].text \in Seq(Blocks)
    <3>1. parsed[w] \in Parses
      BY <2>5, CacheTypes DEF Inv, Answered
    <3> QED
      BY <3>1, ParseIs, TextsAre
  <2>6. ASSUME Publishes(w) PROVE Holds(key[w], parsed[w])'
    BY <1>1, <1>3, <1>5, <2>1, <2>2, <2>5, <2>6 DEF CallInv, Holds
  <2>7. ASSUME Publishes(w) \/ Answered(w) PROVE Right(w)'
    BY <1>1, <1>3, <1>5, <2>1, <2>2, <2>5, <2>7 DEF CallInv, Right
  <2> QED
    BY <1>1, <2>1, <2>4, <2>6, <2>7 DEF CallInv, Active, Publishes, Answered
<1> QED
  BY <1>1, <1>2, <1>4, <1>6, <1>7 DEF Inv

LEMMA WorldStep ==
  ASSUME Inv, World
  PROVE  Inv'
<1>1. ASSUME NEW p \in Paths, NEW t \in world.texts, Replace(p, t) PROVE Inv'
  BY <1>1, ReplaceStep
<1>2. ASSUME NEW p \in Paths, disk[p] # Missing
      PROVE  disk[p] \in Texts /\ disk[p] \in Seq(Blocks) /\ Len(disk[p]) <= MaxLen
  BY <1>2, TextsAre DEF Inv, Types
<1>3. ASSUME NEW p \in Paths, NEW b \in Blocks, Append_(p, b) PROVE Inv'
  <2> DEFINE text == Append(disk[p], b)
  <2>1. disk[p] # Missing /\ Len(disk[p]) < MaxLen /\ Edit("append", p, text) /\ UNCHANGED handle
    BY <1>3 DEF Append_
  <2>2. disk[p] \in Seq(Blocks)
    BY <1>2, <2>1
  <2>3. text \in Seq(Blocks) /\ Len(text) = Len(disk[p]) + 1 /\ Len(disk[p]) \in Nat
    BY <2>2
  <2>4. \A s \in Seq(Blocks) : IsPrefix(s, disk[p]) => IsPrefix(s, text)
    BY <2>2, PrefixAppend
  <2> HIDE DEF text
  <2>5. text \in Texts
    BY <2>1, <2>3, TextsAre, SlurpAssumption
  <2> QED
    BY <2>1, <2>4, <2>5, InPlaceStep
<1>4. ASSUME NEW p \in Paths, Truncate(p) PROVE Inv'
  <2> DEFINE text == Front(disk[p])
  <2>1. /\ disk[p] # Missing /\ disk[p] # <<>>
        /\ Edit("truncate", p, text) /\ UNCHANGED handle
    BY <1>4 DEF Truncate
  <2>2. text \in Texts
    <3> DEFINE s == disk[p]
               n == Len(s) - 1
    <3>1. s \in Seq(Blocks) /\ s # <<>> /\ Len(s) <= MaxLen
      BY <1>2, <2>1
    <3>2. n \in Nat /\ n <= MaxLen /\ n <= Len(s)
      BY <3>1, SlurpAssumption
    <3>3. \A i \in 1..n : s[i] \in Blocks
      BY <3>1, <3>2
    <3>4. n \in Int /\ 1 \in Int /\ (IF 1 <= n THEN n - 1 + 1 ELSE 0) = n
      BY <3>2
    <3>5. text = SubSeq(s, 1, n)
      BY DEF Front
    <3> HIDE DEF n, s, text
    <3>6. SubSeq(s, 1, n) \in Seq(Blocks) /\ Len(SubSeq(s, 1, n)) = IF 1 <= n THEN n - 1 + 1 ELSE 0
      BY <3>3, <3>4, SubSeqProperties
    <3> QED
      BY <3>2, <3>4, <3>5, <3>6, TextsAre
  <2> HIDE DEF text
  <2> QED
    BY <2>1, <2>2, InPlaceStep
<1>5. ASSUME NEW p \in Paths, NEW i \in 1..MaxLen, NEW b \in Blocks, Overwrite(p, i, b) PROVE Inv'
  <2> DEFINE text == [disk[p] EXCEPT ![i] = b]
  <2>1. /\ disk[p] # Missing /\ i \in DOMAIN disk[p]
        /\ Edit("overwrite", p, text) /\ UNCHANGED handle
    BY <1>5 DEF Overwrite
  <2>2. text \in Texts
    <3>1. disk[p] \in Seq(Blocks) /\ Len(disk[p]) <= MaxLen
      BY <1>2, <2>1
    <3>2. disk[p] \in [1..Len(disk[p]) -> Blocks] /\ Len(disk[p]) \in Nat
      BY <3>1
    <3>3. text \in [1..Len(disk[p]) -> Blocks]
      BY <3>2
    <3>4. text \in Seq(Blocks) /\ Len(text) = Len(disk[p])
      BY <3>2, <3>3
    <3> QED
      BY <3>1, <3>4, TextsAre
  <2> HIDE DEF text
  <2> QED
    BY <2>1, <2>2, InPlaceStep
<1> QED
  BY <1>1, <1>3, <1>4, <1>5 DEF World

LEMMA NextInv == Inv /\ [Next]_vars => Inv'
<1> SUFFICES ASSUME Inv, [Next]_vars PROVE Inv'
  OBVIOUS
<1>1. CASE UNCHANGED vars
  <2>1. P!IndInv'
    <3>1. UNCHANGED P!vars
      BY <1>1 DEF vars, P!vars
    <3> QED
      BY <3>1, Assumptions, P!NextIndInv DEF Inv
  <2> QED
    BY <1>1, <2>1
    DEF vars, Inv, Types, BufferBounded, WholeDisk, Cached, CallInv, Active, Publishes,
        Answered, ReadInv, Right, Holds, Whole, Growing, Distinct, View
<1>2. CASE World
  BY <1>2, WorldStep
<1>3. ASSUME NEW w \in Workers, NEW p \in Paths,
             OpenRefused(w, p) \/ \E e \in Encodings : Open(w, p, e)
      PROVE  Inv'
  BY <1>3, OpenRefusedStep, OpenStep
<1>4. ASSUME NEW w \in Workers, Progress(w) \/ ReadFails(w) PROVE Inv'
  BY <1>4, HitStep, StartBuildStep, ReadStep, FailStep, ParseStep, FinishStep
  DEF Progress, ReadFails, TooLong, ShortRead, ParseFails
<1>5. CASE Done
  BY <1>1, <1>5 DEF Done
<1> QED
  BY <1>1, <1>2, <1>3, <1>4, <1>5 DEF Next

LEMMA AlwaysInv == Spec => []Inv
BY InitInv, NextInv, PTL DEF Spec

-----------------------------------------------------------------------------
(* The theorems *)

\* Type correctness of the reader and of the cache under it.
THEOREM TypeCorrect == Spec => []TypeOK
<1>1. Inv => TypeOK
  BY CacheTypes DEF Inv, Types, TypeOK
<1> QED
  BY <1>1, AlwaysInv, PTL

\* slurp never holds more than the limit, whatever other programs do.
THEOREM BufferIsBounded == Spec => []BufferBounded
<1>1. Inv => BufferBounded
  BY DEF Inv
<1> QED
  BY <1>1, AlwaysInv, PTL

\* No truncated read is ever cached, whatever other programs do, and no parse
\* under another encoding than its own.
THEOREM NothingCachedIsShort == Spec => []NothingShortCached
<1>1. Inv => NothingShortCached
  BY DEF Inv, Cached, Holds, NothingShortCached
<1> QED
  BY <1>1, AlwaysInv, PTL

\* Where files are only replaced whole, by files their lengths tell apart, every
\* answer is the parse of exactly what the path held when it was opened.
THEOREM ReadsAreTransparent == Spec => []Transparent
<1>1. Inv => Transparent
  BY DEF Inv, CallInv, Right, Whole, Transparent
<1> QED
  BY <1>1, AlwaysInv, PTL

\* While files only grow, every answer lies between what the file held when it
\* was opened and what it holds now.
THEOREM GrowingReadsAreFresh == Spec => []GrowingFileIsFresh
<1>1. Inv => GrowingFileIsFresh
  BY DEF Inv, CallInv, Right, Growing, GrowingFileIsFresh
<1> QED
  BY <1>1, AlwaysInv, PTL
=============================================================================
