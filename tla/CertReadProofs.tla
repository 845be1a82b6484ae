--------------------------- MODULE CertReadProofs ---------------------------
(***************************************************************************)
(* Theorems about CertRead, for any groups, rows, texts and bounds.  The   *)
(* lemmas say what a certificate's one span of a group is: the section of  *)
(* that group, so that reading the span is reading the group.              *)
(***************************************************************************)
EXTENDS CertRead, SequenceTheorems, SequenceLemmas, TLAPS

\* No sidecar in hand, or a certificate of one of these texts.
Certs(texts) == {NoCert} \cup UNION {Certificates(t) : t \in {u \in texts : Clean(u)}}

Slicing == pc \in {"dict", "slice"}

\* The types of the variables, and what the fast path has in hand at each step.
Types ==
  /\ world \in Worlds
  /\ disk \in Seq(Lines) \cup {Missing}
  /\ {sidecar, minting, cert} \subseteq Certs(Seq(Lines))
  /\ pc \in {"idle", "sidecar", "open", "dict", "slice", "whole"}
  /\ group \in Groups
  /\ handle \in Seq(Lines) \cup {Follows}
  /\ buf \in Seq(Lines)
  /\ dict \in {NoDict} \cup [groups : SUBSET Custom, keyed : SUBSET Custom]
  /\ pc \in {"open", "dict", "slice"} => cert # NoCert
  /\ pc # "slice" => dict = NoDict
  /\ ~Slicing => handle = Follows
  /\ pc = "dict" => group \in Custom
  /\ pc = "slice" => (group \in Custom <=> dict # NoDict)

\* A slice is read from what the path held during the call.
Seen == UNION {ToSet(t) : t \in during \ {Missing}}

During ==
  /\ during \subseteq Seq(Lines) \cup {Missing}
  /\ pc # "idle" => disk \in during
  /\ Slicing =>
       /\ Sliceable(cert, Fetched)
       /\ At <= Span.to
       /\ View \in during \ {Missing}
       /\ ToSet(buf) \subseteq Seen

\* The worlds whose files and certificates cannot be mistaken for each other.
Honest ==
  \/ Distinct /\ kinds \subseteq {"replace", "mint"}
  \/ OneText /\ kinds \subseteq {"truncate"}

\* What has been sliced so far is a part of the section of a text t that the
\* path held during the call, whatever has been cut off the file since.
SlicingOf(t) ==
  /\ Clean(t)
  /\ Readable(t)
  /\ cert \in Certificates(t)
  /\ IsPrefix(View, t)
  /\ buf = SubSeq(t, Span.from + 1, At)
  /\ pc = "slice" /\ group \in Custom => dict = FileDictOf(t) /\ group \in dict.groups

Truth ==
  /\ kinds \subseteq {"replace", "mint"} => disk \in world.texts \cup {Missing}
  /\ kinds \subseteq {"truncate"} =>
       handle = Follows /\ (disk # Missing => \E t \in world.texts : IsPrefix(disk, t))
  /\ Honest =>
       /\ {sidecar, minting, cert} \subseteq Certs(world.texts)
       /\ Slicing => \E t \in during \cap world.texts : SlicingOf(t)
       /\ NoWrongData

\* The types of the open whole-file reads, and what is sure of one of them
\* while the path holds d: it has read lines of texts it has seen, its size is
\* that of one of them, and it goes on reading one of them.
Reads ==
  [point : {"lookup", "slurp", "publish"}, utf8 : BOOLEAN, size : 0..MaxFileBytes,
   handle : Seq(Lines) \cup {Follows}, buf : Seq(Lines), seen : SUBSET Seq(Lines)]

LinesOf(texts) == UNION {ToSet(t) : t \in texts}
Holding(read, d) == IF read.handle = Follows THEN d ELSE read.handle

Sound(read, d) ==
  /\ read \in Reads
  /\ Holding(read, d) \in read.seen
  /\ ToSet(read.buf) \subseteq LinesOf(read.seen)
  /\ \E t \in read.seen : Len(t) = read.size
  /\ read.point = "publish" => Parses(read.buf)

\* The same of a parse in the cache.
SoundEntry(size, entry) ==
  /\ entry \in [text : Seq(Lines), seen : SUBSET Seq(Lines)]
  /\ Parses(entry.text)
  /\ ToSet(entry.text) \subseteq LinesOf(entry.seen)
  /\ \E t \in entry.seen : Len(t) = size

\* In the honest worlds a size names one text: a read has read a part of the
\* text it opened, and a parse is of the text its key names.
Known(t, texts, done) ==
  /\ done \subseteq {"replace", "mint"} => t \in texts
  /\ done \subseteq {"truncate"} => \E u \in texts : IsPrefix(t, u)

Faithful(read, d, texts, done) ==
  \E t \in read.seen :
    /\ Known(t, texts, done) /\ Len(t) = read.size
    /\ IsPrefix(read.buf, t) /\ IsPrefix(Holding(read, d), t)
    /\ read.point = "publish" => read.buf = t

FaithfulEntry(size, entry, texts, done) ==
  Known(entry.text, texts, done) /\ Len(entry.text) = size

Wholes ==
  /\ utf8 \in BOOLEAN
  /\ whole \in [Readers -> Reads \cup {NoRead}]
  /\ \A r \in Readers : whole[r] # NoRead =>
       Sound(whole[r], disk) /\ (Honest => Faithful(whole[r], disk, world.texts, kinds))
  /\ \A k \in DOMAIN cached :
       SoundEntry(k.size, cached[k]) /\ (Honest => FaithfulEntry(k.size, cached[k], world.texts, kinds))
  /\ whole[Caller] # NoRead => pc = "whole" /\ whole[Caller].seen \subseteq during

\* What the caller's own reads and answers keep, and with the whole-file reads.
Inv == Types /\ During /\ OnlyWhatWasThere /\ Truth
IInv == Inv /\ Wholes

-----------------------------------------------------------------------------
(* Rows and spans *)

LEMMA LastLineEnds ==
  ASSUME NEW t \in Seq(Lines), NEW i \in 1..Len(t)
  PROVE  /\ LastLine(t, i) \in i..Len(t)
         /\ NoHeading(t, i + 1, LastLine(t, i))
         /\ LastLine(t, i) = Len(t) \/ t[LastLine(t, i) + 1] \in Groups
<1> DEFINE n == Len(t)
           Ends == {e \in i..n : e = n \/ t[e + 1] \in Groups}
<1>1. n \in Nat /\ i \in Nat /\ i <= n
  OBVIOUS
<1>2. n \in Ends /\ Ends \subseteq Nat
  BY <1>1
<1>3. PICK e \in Ends : \A d \in Ends : e <= d
  <2> HIDE DEF Ends
  <2> QED
    BY <1>2, LeastNatural
<1>4. ASSUME NEW j \in i + 1..e PROVE t[j] \notin Groups
  <2> HIDE DEF n
  <2>1. j - 1 \in i..n /\ (j - 1) + 1 = j /\ ~(e <= j - 1)
    BY <1>1, <1>3, <1>4
  <2>2. j - 1 \notin Ends
    BY <1>3, <2>1
  <2> QED
    BY <2>1, <2>2
<1>5. e \in i..Len(t) /\ NoHeading(t, i + 1, e) /\ (e = Len(t) \/ t[e + 1] \in Groups)
  BY <1>3, <1>4 DEF NoHeading
<1> HIDE DEF n, Ends
<1> QED
  BY <1>5 DEF LastLine

\* The rows of a group are lines of the text.
LEMMA RowsOfLines ==
  ASSUME NEW t \in Seq(Lines), NEW g
  PROVE  RowsOf(t, g) \in Seq(Rows) /\ ToSet(RowsOf(t, g)) \subseteq ToSet(t)
<1> DEFINE pieces == [i \in DOMAIN t |-> IF IsRowOf(t, g, i) THEN <<t[i]>> ELSE <<>>]
           S == Rows \cap ToSet(t)
<1>1. ASSUME NEW i \in DOMAIN t, IsRowOf(t, g, i) PROVE t[i] \in S
  <2>1. PICK h \in 1..i - 1 : NoHeading(t, h + 1, i)
    BY <1>1 DEF IsRowOf
  <2>2. i \in h + 1..i
    OBVIOUS
  <2> QED
    BY <2>1, <2>2 DEF NoHeading, Lines, ToSet
<1>2. pieces \in Seq(Seq(S))
  <2>1. \A i \in DOMAIN t : pieces[i] \in Seq(S)
    <3> HIDE DEF S
    <3> QED
      BY <1>1
  <2>2. DOMAIN t = 1..Len(t) /\ Len(t) \in Nat
    OBVIOUS
  <2> HIDE DEF S
  <2> QED
    BY <2>1, <2>2
<1>3. RowsOf(t, g) \in Seq(S)
  <2> HIDE DEF S, pieces
  <2>1. RowsOf(t, g) = FlattenSeq(pieces)
    BY DEF RowsOf, pieces
  <2> QED
    BY <1>2, <2>1, FlattenElements
<1> QED
  BY <1>3 DEF ToSet

\* A certificate that has one span for a group has the group's one section.
LEMMA OneSpan ==
  ASSUME NEW t \in Seq(Lines), NEW g, Len(SpansOf(t, g)) = 1
  PROVE  \E i \in 1..Len(t) :
           /\ t[i] = g /\ \A j \in 1..Len(t) : t[j] = g => j = i
           /\ SpansOf(t, g)[1] = [from |-> i - 1, to |-> LastLine(t, i)]
<1> DEFINE span(i) == [from |-> i - 1, to |-> LastLine(t, i)]
           pieces == [i \in DOMAIN t |-> IF t[i] = g THEN <<span(i)>> ELSE <<>>]
           S == {span(i) : i \in 1..Len(t)}
           all == SpansOf(t, g)
<1>1. DOMAIN t = 1..Len(t) /\ Len(t) \in Nat
  OBVIOUS
<1>2. pieces \in Seq(Seq(S)) /\ Len(pieces) = Len(t)
  <2>1. \A i \in DOMAIN t : span(i) \in S
    BY <1>1
  <2> HIDE DEF S, span
  <2>2. \A i \in DOMAIN t : pieces[i] \in Seq(S)
    BY <2>1
  <2> QED
    BY <1>1, <2>2
<1>3. all \in Seq(S) /\ ToSet(all) = UNION {ToSet(pieces[i]) : i \in 1..Len(t)}
  <2> HIDE DEF S, pieces
  <2>1. all = FlattenSeq(pieces)
    BY DEF SpansOf, pieces
  <2> HIDE DEF all
  <2> QED
    BY <1>2, <2>1, FlattenElements
<1>4. ToSet(all) = {all[1]}
  <2> HIDE DEF S, all
  <2>1. Len(all) = 1
    BY DEF all
  <2>2. DOMAIN all = {1}
    BY <1>3, <2>1
  <2> QED
    BY <2>2 DEF ToSet
<1>5. \A i \in 1..Len(t) : ToSet(pieces[i]) = IF t[i] = g THEN {span(i)} ELSE {}
  <2> HIDE DEF span
  <2> QED
    BY <1>1 DEF ToSet
<1>6. PICK i \in 1..Len(t) : all[1] \in ToSet(pieces[i])
  <2> HIDE DEF all, pieces
  <2>1. all[1] \in UNION {ToSet(pieces[i]) : i \in 1..Len(t)}
    BY <1>3, <1>4
  <2> QED
    BY <2>1
<1>7. t[i] = g /\ all[1] = span(i)
  <2> HIDE DEF all, pieces, span
  <2> QED
    BY <1>5, <1>6
<1>8. ASSUME NEW j \in 1..Len(t), t[j] = g PROVE j = i
  <2>1. span(j) \in ToSet(all)
    <3>1. span(j) \in ToSet(pieces[j])
      <4> HIDE DEF pieces, span
      <4> QED
        BY <1>5, <1>8
    <3> HIDE DEF all, pieces, span
    <3> QED
      BY <1>3, <3>1
  <2>2. span(j) = span(i)
    BY <1>4, <1>7, <2>1
  <2>3. j - 1 = i - 1
    BY <2>2
  <2> QED
    BY <2>3
<1> QED
  BY <1>7, <1>8

\* The rows of a group with one section are what follows its GROUP record.
LEMMA RowsOfOneSection ==
  ASSUME NEW t \in Seq(Lines), NEW g \in Groups, NEW i \in 1..Len(t), t[i] = g,
         \A j \in 1..Len(t) : t[j] = g => j = i
  PROVE  RowsOf(t, g) = SubSeq(t, i + 1, LastLine(t, i))
<1> DEFINE n == Len(t)
           b == LastLine(t, i)
           pieces == [k \in DOMAIN t |-> IF IsRowOf(t, g, k) THEN <<t[k]>> ELSE <<>>]
<1>1. DOMAIN t = 1..n /\ n \in Nat /\ \A k \in 1..n : t[k] \in Lines
  OBVIOUS
<1>2. b \in i..n /\ NoHeading(t, i + 1, b) /\ (b = n \/ t[b + 1] \in Groups)
  BY LastLineEnds
<1> HIDE DEF n, b
<1>3. ASSUME NEW k \in 1..n PROVE IsRowOf(t, g, k) <=> i < k /\ k <= b
  <2>1. ASSUME IsRowOf(t, g, k) PROVE i < k /\ k <= b
    <3>1. PICK h \in 1..k - 1 : t[h] = g /\ NoHeading(t, h + 1, k)
      BY <2>1 DEF IsRowOf
    <3>2. h \in 1..n
      BY <1>1, <3>1
    <3>3. h = i
      BY <3>1, <3>2 DEF n
    <3>4. b < k => t[b + 1] \notin Groups /\ b # n
      BY <1>1, <1>2, <3>1, <3>3 DEF NoHeading
    <3> QED
      BY <1>1, <1>2, <3>3, <3>4
  <2>2. ASSUME i < k, k <= b PROVE IsRowOf(t, g, k)
    <3>1. i \in 1..k - 1 /\ NoHeading(t, i + 1, k)
      BY <1>1, <1>2, <2>2 DEF NoHeading
    <3> QED
      BY <3>1 DEF IsRowOf
  <2> QED
    BY <2>1, <2>2
<1>4. pieces \in Seq(Seq(Lines)) /\ Len(pieces) = n
  <2>1. \A k \in 1..n : pieces[k] \in Seq(Lines)
    BY <1>1
  <2> QED
    BY <1>1, <2>1
<1>5. \A k \in 1..n : pieces[k] = IF i < k /\ k <= b THEN <<t[k]>> ELSE <<>>
  BY <1>1, <1>3
<1>6. RowsOf(t, g) = FlattenSeq(pieces)
  BY DEF RowsOf
<1>7. i \in 0..Len(t) /\ b \in i..Len(t)
  BY <1>2 DEF n
<1> HIDE DEF pieces
<1>8. FlattenSeq(pieces) = SubSeq(t, i + 1, b)
  BY <1>4, <1>5, <1>7, FlattenWindow DEF n
<1> QED
  BY <1>6, <1>8 DEF b

\* Reading a group's one span is reading the group.
LEMMA SpanIsSection ==
  ASSUME NEW t \in Seq(Lines), NEW g \in Groups, Len(SpansOf(t, g)) = 1
  PROVE  LET span == SpansOf(t, g)[1]
         IN /\ span.from \in Nat /\ span.to \in Nat
            /\ span.from < span.to /\ span.to <= Len(t)
            /\ RowsOf(SubSeq(t, span.from + 1, span.to), g) = RowsOf(t, g)
            /\ g \in Present(t)
<1>1. PICK i \in 1..Len(t) : /\ t[i] = g /\ \A j \in 1..Len(t) : t[j] = g => j = i
                             /\ SpansOf(t, g)[1] = [from |-> i - 1, to |-> LastLine(t, i)]
  BY OneSpan
<1> DEFINE n == Len(t)
           b == LastLine(t, i)
           s == SubSeq(t, i, b)
           m == b - i + 1
<1>2. b \in i..n /\ NoHeading(t, i + 1, b) /\ n \in Nat /\ i \in Nat /\ i >= 1
  BY LastLineEnds
<1>3. \A k \in 1..n : t[k] \in Lines
  OBVIOUS
<1> HIDE DEF n, b
<1>4. s \in Seq(Lines) /\ Len(s) = m /\ \A k \in 1..m : s[k] = t[i + k - 1]
  <2>1. i \in Int /\ b \in Int /\ \A k \in i..b : t[k] \in Lines
    BY <1>2, <1>3
  <2>2. /\ SubSeq(t, i, b) \in Seq(Lines)
        /\ Len(SubSeq(t, i, b)) = IF i <= b THEN b - i + 1 ELSE 0
        /\ \A k \in 1..b - i + 1 : SubSeq(t, i, b)[k] = t[i + k - 1]
    BY <2>1, SubSeqProperties
  <2> QED
    BY <1>2, <2>2
<1> HIDE DEF s
<1>5. 1 \in 1..m /\ m \in Nat /\ s[1] = g
  <2>1. 1 \in 1..m /\ m \in Nat /\ i + 1 - 1 = i
    BY <1>2
  <2> QED
    BY <1>1, <1>4, <2>1
<1>6. ASSUME NEW k \in 1..m, k # 1 PROVE s[k] \notin Groups
  <2>1. i + k - 1 \in i + 1..b
    BY <1>2, <1>6
  <2> QED
    BY <1>2, <1>4, <2>1 DEF NoHeading
<1>7. LastLine(s, 1) = m
  <2>1. /\ LastLine(s, 1) \in 1..Len(s)
        /\ LastLine(s, 1) = Len(s) \/ s[LastLine(s, 1) + 1] \in Groups
    BY <1>4, <1>5, LastLineEnds
  <2>2. ASSUME LastLine(s, 1) # m PROVE FALSE
    <3>1. LastLine(s, 1) + 1 \in 1..m /\ LastLine(s, 1) + 1 # 1
      BY <1>4, <1>5, <2>1, <2>2
    <3> QED
      BY <1>4, <1>6, <2>1, <2>2, <3>1
  <2> QED
    BY <2>2
<1>8. RowsOf(s, g) = SubSeq(s, 2, m)
  <2>1. \A j \in 1..Len(s) : s[j] = g => j = 1
    BY <1>4, <1>6
  <2>2. RowsOf(s, g) = SubSeq(s, 1 + 1, LastLine(s, 1))
    BY <1>4, <1>5, <2>1, RowsOfOneSection
  <2>3. 1 + 1 = 2
    OBVIOUS
  <2> QED
    BY <1>7, <2>2, <2>3
<1>9. RowsOf(t, g) = SubSeq(t, i + 1, b)
  BY <1>1, RowsOfOneSection DEF b
<1>10. SubSeq(s, 2, m) = SubSeq(t, i + 1, b)
  <2>1. CASE m = 1
    <3>1. b < i + 1 /\ m < 2 /\ i + 1 \in Int /\ b \in Int
      BY <1>2, <2>1
    <3> HIDE DEF m
    <3> QED
      BY <1>5, <3>1, SubSeqEmpty
  <2>2. CASE m # 1
    <3>1. /\ i \in 1..Len(t) /\ b \in 1..Len(t) /\ 2 \in 1..b - i + 1 /\ m \in 1..b - i + 1
          /\ i + 2 - 1 = i + 1 /\ i + m - 1 = b
      BY <1>2, <1>5, <2>2 DEF n
    <3>2. SubSeq(SubSeq(t, i, b), 2, m) = SubSeq(t, i + 2 - 1, i + m - 1)
      <4> HIDE DEF m
      <4> QED
        BY <3>1, SubSeqOfSubSeq
    <3> QED
      BY <3>1, <3>2 DEF s
  <2> QED
    BY <2>1, <2>2
<1>11. g \in Present(t)
  BY <1>1 DEF Present, ToSet
<1>12. i - 1 \in Nat /\ b \in Nat /\ i - 1 < b /\ b <= Len(t) /\ (i - 1) + 1 = i
  BY <1>2 DEF n
<1>13. SpansOf(t, g)[1].from = i - 1 /\ SpansOf(t, g)[1].to = b
  BY <1>1 DEF b
<1> QED
  BY <1>8, <1>9, <1>10, <1>11, <1>12, <1>13 DEF s
-----------------------------------------------------------------------------
(* Prefixes, dictionaries and certificates *)

LEMMA CutIsPrefix ==
  ASSUME NEW t \in Seq(Lines), NEW s \in Seq(Lines), IsPrefix(s, t), NEW n \in 0..Len(s)
  PROVE  SubSeq(s, 1, n) \in Seq(Lines) /\ IsPrefix(SubSeq(s, 1, n), t)
<1> DEFINE c == SubSeq(s, 1, n)
<1>1. /\ Len(s) \in Nat /\ Len(t) \in Nat /\ n \in Nat /\ n <= Len(s) /\ Len(s) <= Len(t)
      /\ SubSeq(s, 1, Len(s)) = SubSeq(t, 1, Len(s))
  BY DEF IsPrefix
<1>2. \A i \in 1..Len(s) : s[i] \in Lines /\ s[i] = t[i]
  <2>1. SubSeq(s, 1, Len(s)) = s
    BY SubSeqFull
  <2>2. \A i \in 1..Len(s) : t[i] \in Lines
    BY <1>1
  <2>3. \A i \in 1..Len(s) - 1 + 1 : SubSeq(t, 1, Len(s))[i] = t[1 + i - 1]
    <3>1. 1 \in Int /\ Len(s) \in Int
      BY <1>1
    <3> QED
      BY <2>2, <3>1, SubSeqProperties
  <2>4. \A i \in 1..Len(s) : s[i] = t[1 + i - 1] /\ 1 + i - 1 = i
    BY <1>1, <2>1, <2>3
  <2> QED
    BY <2>4
<1>3. c \in Seq(Lines) /\ Len(c) = n /\ \A i \in 1..n : c[i] = s[i]
  <2>1. 1 \in Int /\ n \in Int /\ \A i \in 1..n : s[i] \in Lines
    BY <1>1, <1>2
  <2>2. /\ c \in Seq(Lines)
        /\ Len(c) = IF 1 <= n THEN n - 1 + 1 ELSE 0
        /\ \A i \in 1..n - 1 + 1 : c[i] = s[1 + i - 1]
    BY <2>1, SubSeqProperties
  <2>3. Len(c) = n
    BY <1>1, <2>2
  <2>4. \A i \in 1..n : c[i] = s[1 + i - 1] /\ 1 + i - 1 = i
    BY <1>1, <2>2
  <2> QED
    BY <2>2, <2>3, <2>4
<1>4. SubSeq(t, 1, n) \in Seq(Lines) /\ Len(SubSeq(t, 1, n)) = n
      /\ \A i \in 1..n : SubSeq(t, 1, n)[i] = t[i]
  <2>1. 1 \in Int /\ n \in Int /\ \A i \in 1..n : t[i] \in Lines
    BY <1>1
  <2>2. /\ SubSeq(t, 1, n) \in Seq(Lines)
        /\ Len(SubSeq(t, 1, n)) = IF 1 <= n THEN n - 1 + 1 ELSE 0
        /\ \A i \in 1..n - 1 + 1 : SubSeq(t, 1, n)[i] = t[1 + i - 1]
    BY <2>1, SubSeqProperties
  <2>3. Len(SubSeq(t, 1, n)) = n
    BY <1>1, <2>2
  <2>4. \A i \in 1..n : SubSeq(t, 1, n)[i] = t[1 + i - 1] /\ 1 + i - 1 = i
    BY <1>1, <2>2
  <2> QED
    BY <2>2, <2>3, <2>4
<1> HIDE DEF c
<1>5. c = SubSeq(t, 1, n)
  <2>1. \A i \in 1..Len(c) : c[i] = SubSeq(t, 1, n)[i]
    BY <1>1, <1>2, <1>3, <1>4
  <2> QED
    BY <1>3, <1>4, <2>1, SeqEqual
<1>6. SubSeq(c, 1, n) = c
  BY <1>3, SubSeqFull
<1> QED
  BY <1>1, <1>3, <1>5, <1>6 DEF IsPrefix, c

\* Reading on from a prefix is reading on from the text.
LEMMA PrefixReads ==
  ASSUME NEW t \in Seq(Lines), NEW s \in Seq(Lines), IsPrefix(s, t),
         NEW m \in Nat, m >= 1, NEW n \in m..Len(s)
  PROVE  SubSeq(s, m, n) = SubSeq(t, m, n)
<1>1. /\ Len(s) \in Nat /\ Len(t) \in Nat /\ Len(s) <= Len(t)
      /\ SubSeq(s, 1, Len(s)) = SubSeq(t, 1, Len(s)) /\ SubSeq(s, 1, Len(s)) = s
  BY SubSeqFull DEF IsPrefix
<1>2. CASE Len(s) = 0
  BY <1>2
<1>3. CASE Len(s) # 0
  <2>1. /\ 1 \in 1..Len(t) /\ Len(s) \in 1..Len(t)
        /\ m \in 1..Len(s) - 1 + 1 /\ n \in 1..Len(s) - 1 + 1
        /\ 1 + m - 1 = m /\ 1 + n - 1 = n
    BY <1>1, <1>3
  <2>2. SubSeq(SubSeq(t, 1, Len(s)), m, n) = SubSeq(t, 1 + m - 1, 1 + n - 1)
    BY <2>1, SubSeqOfSubSeq
  <2> QED
    BY <1>1, <2>1, <2>2
<1> QED
  BY <1>2, <1>3

LEMMA FileDictTyped ==
  ASSUME NEW t \in Seq(Lines)
  PROVE  FileDictOf(t) \in [groups : SUBSET Custom, keyed : SUBSET Custom] /\ FileDictOf(t) # NoDict
<1>1. ToSet(RowsOf(t, DICT)) \subseteq Rows
  BY RowsOfLines DEF ToSet
<1>2. FileDictOf(t) \in [groups : SUBSET Custom, keyed : SUBSET Custom]
  BY <1>1, DeclarationsAssumption DEF FileDictOf
<1> QED
  BY <1>2, SentinelsAssumption

LEMMA CertificateOf ==
  ASSUME NEW t \in Seq(Lines), NEW c \in Certificates(t)
  PROVE  /\ c.size = Len(t) /\ DOMAIN c.groups = Present(t)
         /\ \A g \in Present(t) : c.groups[g] = SpansOf(t, g)
BY DEF Certificates

\* A span the fast path admits is the section of its group.
LEMMA SliceableSpan ==
  ASSUME NEW t \in Seq(Lines), NEW c \in Certificates(t), NEW g \in Groups, Sliceable(c, g)
  PROVE  LET span == c.groups[g][1]
         IN /\ span.from \in Nat /\ span.to \in Nat
            /\ span.from < span.to /\ span.to <= Len(t)
            /\ RowsOf(SubSeq(t, span.from + 1, span.to), g) = RowsOf(t, g)
            /\ g \in Present(t)
<1>1. c.groups[g] = SpansOf(t, g) /\ Len(SpansOf(t, g)) = 1
  BY CertificateOf DEF Sliceable
<1>2. SpansOf(t, g)[1] = c.groups[g][1]
  BY <1>1
<1> QED
  BY <1>1, <1>2, SpanIsSection

\* The span being read.
LEMMA SpanInHand ==
  ASSUME Inv, Slicing
  PROVE  /\ Fetched \in Groups /\ Sliceable(cert, Fetched)
         /\ Span.from \in Nat /\ Span.to \in Nat /\ Span.from < Span.to
         /\ Len(buf) \in Nat /\ At \in Nat /\ At = Span.from + Len(buf) /\ At <= Span.to
         /\ View \in Seq(Lines)
<1>1. Fetched \in Groups
  BY DictAssumption DEF Inv, Types, Fetched, Groups
<1>2. Sliceable(cert, Fetched) /\ At <= Span.to /\ View \in during \ {Missing}
  BY DEF Inv, During
<1>3. PICK t \in Seq(Lines) : cert \in Certificates(t)
  BY DEF Inv, Types, Slicing, Certs
<1>4. Span.from \in Nat /\ Span.to \in Nat /\ Span.from < Span.to
  BY <1>1, <1>2, <1>3, SliceableSpan DEF Span
<1>5. Len(buf) \in Nat
  BY DEF Inv, Types
<1> QED
  BY <1>1, <1>2, <1>4, <1>5 DEF At, Inv, During

-----------------------------------------------------------------------------
(* Other programs *)

LEMMA InitInv == Init => Inv
<1> SUFFICES ASSUME Init PROVE Inv
  OBVIOUS
<1>1. world \in Worlds /\ world.texts \subseteq Seq(Lines)
  BY WorldsAssumption DEF Init
<1>2. {sidecar, minting, cert} \subseteq Certs(world.texts)
  BY DEF Init, Certs
<1>3. Certs(world.texts) \subseteq Certs(Seq(Lines))
  BY <1>1 DEF Certs
<1>4. DICT \in Groups /\ <<>> \in Seq(Lines)
  BY DictAssumption DEF Groups
<1>5. Types
  BY <1>1, <1>2, <1>3, <1>4 DEF Init, Types
<1>6. During /\ OnlyWhatWasThere
  BY DEF Init, During, Slicing, OnlyWhatWasThere
<1>7. Truth
  <2>1. disk # Missing => IsPrefix(disk, disk) /\ disk \in world.texts
    BY <1>1 DEF IsPrefix, Init
  <2> QED
    BY <1>2, <2>1 DEF Init, Truth, Slicing, NoWrongData
<1> QED
  BY <1>5, <1>6, <1>7 DEF Inv

\* Writing the file leaves a slice on a text the path held during the call.
LEMMA WriteInv ==
  ASSUME Inv, NEW kind, World(kind), NEW text \in Seq(Lines) \cup {Missing}, NEW place, Put(text, place),
         handle' \in Seq(Lines) \cup {Follows},
         ~Slicing => handle' = handle,
         Slicing => View' = View \/ (View' = text /\ text # Missing)
  PROVE  Types' /\ During' /\ OnlyWhatWasThere'
<1>1. /\ disk' = text /\ during \subseteq during'
      /\ during' = IF pc = "idle" THEN during ELSE during \cup {text}
      /\ UNCHANGED <<sidecar, minting, world, pc, group, cert, buf, dict, outcome, source>>
  BY DEF World, Put
<1>2. Types'
  BY <1>1 DEF Inv, Types, Slicing
<1>3. During'
  <2>1. during' \subseteq Seq(Lines) \cup {Missing} /\ (pc' # "idle" => disk' \in during')
    BY <1>1 DEF Inv, During
  <2>2. ASSUME Slicing
        PROVE  /\ Sliceable(cert, Fetched)' /\ (At <= Span.to)'
               /\ View' \in during' \ {Missing} /\ ToSet(buf') \subseteq Seen'
    <3>1. Sliceable(cert, Fetched)' /\ (At <= Span.to)'
      BY <1>1, <2>2 DEF Inv, During, Fetched, Span, At, Sliceable
    <3>2. View' \in during' \ {Missing}
      BY <1>1, <2>2 DEF Inv, During, Slicing
    <3>3. Seen \subseteq Seen'
      BY <1>1 DEF Seen
    <3> QED
      BY <1>1, <2>2, <3>1, <3>2, <3>3 DEF Inv, During
  <2>3. Slicing' <=> Slicing
    BY <1>1 DEF Slicing
  <2> QED
    BY <2>1, <2>2, <2>3 DEF During
<1>4. OnlyWhatWasThere'
  BY <1>1 DEF Inv, OnlyWhatWasThere
<1> QED
  BY <1>2, <1>3, <1>4

\* What was true of the texts stays true of them.
LEMMA WriteTruth ==
  ASSUME Inv, NEW kind, World(kind), NEW text, NEW place, Put(text, place), Honest',
         Slicing => \A t \in during \cap world.texts : SlicingOf(t) => IsPrefix(View', t)
  PROVE  /\ {sidecar', minting', cert'} \subseteq Certs(world'.texts)
         /\ Slicing' => \E t \in during' \cap world'.texts : SlicingOf(t)'
         /\ NoWrongData'
<1>1. /\ during \subseteq during' /\ (pc = "idle" => during' = during)
      /\ UNCHANGED <<sidecar, minting, world, pc, group, cert, buf, dict, outcome, source>>
      /\ kinds \subseteq kinds'
  BY DEF World, Put
<1>2. Honest
  BY <1>1 DEF Honest, Distinct, OneText
<1>3. ASSUME Slicing PROVE \E t \in during' \cap world'.texts : SlicingOf(t)'
  <2>1. PICK t \in during \cap world.texts : SlicingOf(t)
    BY <1>2, <1>3 DEF Inv, Truth
  <2>2. SlicingOf(t)'
    BY <1>1, <1>3, <2>1 DEF SlicingOf, At, Span, Fetched
  <2> QED
    BY <1>1, <2>1, <2>2
<1>4. NoWrongData'
  BY <1>1, <1>2 DEF Inv, Truth, NoWrongData
<1> QED
  BY <1>1, <1>2, <1>3, <1>4 DEF Inv, Truth, Slicing

LEMMA ReplaceInv ==
  ASSUME Inv, NEW text \in world.texts \cup {Missing}, Replace(text)
  PROVE  Inv'
<1>1. /\ World("replace") /\ Put(text, disk) /\ disk' = text
      /\ handle' = IF Slicing /\ handle = Follows THEN disk ELSE handle
      /\ kinds' = kinds \cup {"replace"} /\ world' = world
  BY DEF Replace, Slicing, World, Put
<1>2. text \in Seq(Lines) \cup {Missing}
  BY WorldsAssumption DEF Inv, Types
<1>3. Slicing => View' = View /\ handle' \in Seq(Lines) \cup {Follows}
  <2>1. ASSUME Slicing, handle = Follows PROVE View = disk /\ disk \in Seq(Lines)
    BY <2>1 DEF View, Inv, During, Types
  <2> QED
    BY <1>1, <2>1, SentinelsAssumption DEF View, Inv, Types
<1>4. Types' /\ During' /\ OnlyWhatWasThere'
  <2>1. handle' \in Seq(Lines) \cup {Follows} /\ (~Slicing => handle' = handle)
    BY <1>1, <1>3 DEF Inv, Types
  <2> QED
    BY <1>1, <1>2, <1>3, <2>1, WriteInv
<1>5. Truth'
  <2>1. kinds' \subseteq {"replace", "mint"} => disk' \in world'.texts \cup {Missing}
    BY <1>1
  <2>2. ~(kinds' \subseteq {"truncate"})
    BY <1>1
  <2>3. Slicing => \A t \in during \cap world.texts : SlicingOf(t) => IsPrefix(View', t)
    BY <1>3 DEF SlicingOf
  <2> QED
    BY <1>1, <2>1, <2>2, <2>3, WriteTruth DEF Truth
<1> QED
  BY <1>4, <1>5 DEF Inv

LEMMA TruncateInv ==
  ASSUME Inv, NEW n \in 0..MaxFileBytes, Truncate(n)
  PROVE  Inv'
<1> DEFINE text == SubSeq(disk, 1, n)
<1>1. /\ disk # Missing /\ n < Len(disk) /\ World("truncate") /\ Put(text, Follows)
      /\ disk' = text /\ handle' = handle
      /\ kinds' = kinds \cup {"truncate"} /\ world' = world
  BY DEF Truncate, World, Put
<1>2. disk \in Seq(Lines) /\ n \in 0..Len(disk)
  BY <1>1, LimitAssumption DEF Inv, Types
<1>3. text \in Seq(Lines) /\ text # Missing
  <2>1. IsPrefix(disk, disk)
    BY <1>2 DEF IsPrefix
  <2> QED
    BY <1>2, <2>1, CutIsPrefix, SentinelsAssumption
<1>4. Slicing => View' = View \/ (View' = text /\ text # Missing)
  BY <1>1, <1>3 DEF View
<1> HIDE DEF text
<1>5. Types' /\ During' /\ OnlyWhatWasThere'
  <2>1. handle' \in Seq(Lines) \cup {Follows}
    BY <1>1 DEF Inv, Types
  <2> QED
    BY <1>1, <1>3, <1>4, <2>1, WriteInv
<1>6. ~(kinds' \subseteq {"replace", "mint"})
  BY <1>1
<1>7. ASSUME kinds' \subseteq {"truncate"}
      PROVE  handle' = Follows /\ \E t \in world'.texts : IsPrefix(disk', t)
  <2>1. kinds \subseteq {"truncate"}
    BY <1>1, <1>7
  <2>2. handle = Follows /\ \E t \in world.texts : IsPrefix(disk, t)
    BY <1>1, <2>1 DEF Inv, Truth
  <2>3. world.texts \subseteq Seq(Lines)
    BY WorldsAssumption DEF Inv, Types
  <2> QED
    BY <1>1, <1>2, <2>2, <2>3, CutIsPrefix DEF text
<1>8. ASSUME Honest', Slicing, NEW t \in during \cap world.texts, SlicingOf(t)
      PROVE  IsPrefix(View', t)
  <2>1. kinds \subseteq {"truncate"}
    BY <1>1, <1>8 DEF Honest
  <2>2. View = disk /\ View' = text
    BY <1>1, <2>1 DEF Inv, Truth, View
  <2>3. t \in Seq(Lines)
    BY WorldsAssumption DEF Inv, Types
  <2> QED
    BY <1>2, <1>8, <2>2, <2>3, CutIsPrefix DEF SlicingOf, text
<1>9. Truth'
  <2>1. Honest' => /\ {sidecar', minting', cert'} \subseteq Certs(world'.texts)
                   /\ Slicing' => \E t \in during' \cap world'.texts : SlicingOf(t)'
                   /\ NoWrongData'
    BY <1>1, <1>8, WriteTruth
  <2> QED
    BY <1>6, <1>7, <2>1 DEF Truth
<1> QED
  BY <1>5, <1>9 DEF Inv

LEMMA OverwriteInv ==
  ASSUME Inv, NEW i, NEW line \in world.lines, Overwrite(i, line)
  PROVE  Inv'
<1> DEFINE text == [disk EXCEPT ![i] = line]
<1>1. /\ disk # Missing /\ i \in DOMAIN disk /\ World("overwrite") /\ Put(text, Follows)
      /\ disk' = text /\ handle' = handle /\ kinds' = kinds \cup {"overwrite"}
  BY DEF Overwrite, World, Put
<1>2. text \in Seq(Lines) /\ text # Missing
  <2>1. disk \in Seq(Lines) /\ line \in Lines
    BY <1>1, WorldsAssumption DEF Inv, Types
  <2>2. i \in 1..Len(disk)
    BY <1>1, <2>1
  <2> QED
    BY <2>1, <2>2, ExceptSeq, SentinelsAssumption
<1>3. Slicing => View' = View \/ (View' = text /\ text # Missing)
  BY <1>1, <1>2 DEF View
<1> HIDE DEF text
<1>4. Types' /\ During' /\ OnlyWhatWasThere'
  <2>1. handle' \in Seq(Lines) \cup {Follows}
    BY <1>1 DEF Inv, Types
  <2> QED
    BY <1>1, <1>2, <1>3, <2>1, WriteInv
<1>5. Truth'
  BY <1>1 DEF Truth, Honest
<1> QED
  BY <1>4, <1>5 DEF Inv

\* A sidecar that comes and goes changes nothing a read has in hand.
LEMMA SidecarInv ==
  ASSUME Inv, {sidecar', minting'} \subseteq Certs(Seq(Lines)),
         Honest' => Honest /\ {sidecar', minting'} \subseteq Certs(world.texts),
         kinds \subseteq kinds',
         UNCHANGED <<world, disk, pc, group, readVars, outcome, source, during>>
  PROVE  Inv'
<1>1. UNCHANGED <<world, disk, pc, group, cert, handle, buf, dict, outcome, source, during>>
  BY DEF readVars
<1>2. Types' /\ During' /\ OnlyWhatWasThere'
  <2>1. Types'
    BY <1>1 DEF Inv, Types, Slicing
  <2>2. During'
    BY <1>1 DEF Inv, During, Slicing, Fetched, At, Span, View, Seen
  <2> QED
    BY <1>1, <2>1, <2>2 DEF Inv, OnlyWhatWasThere
<1>3. Truth'
  <2>1. \A t : SlicingOf(t) => SlicingOf(t)'
    BY <1>1 DEF SlicingOf, At, Span, Fetched, View
  <2>2. ASSUME Honest'
        PROVE  /\ {sidecar', minting', cert'} \subseteq Certs(world'.texts)
               /\ Slicing' => \E t \in during' \cap world'.texts : SlicingOf(t)'
               /\ NoWrongData'
    <3>1. Honest /\ {sidecar', minting', cert} \subseteq Certs(world.texts)
      BY <2>2 DEF Inv, Truth
    <3> QED
      BY <1>1, <2>1, <3>1 DEF Inv, Truth, Slicing, NoWrongData
  <2> QED
    BY <1>1, <2>2 DEF Inv, Truth
<1> QED
  BY <1>2, <1>3 DEF Inv

LEMMA MintInv ==
  ASSUME Inv, NEW c \in Certificates(disk), Mint(c)
  PROVE  Inv'
<1>1. /\ disk # Missing /\ Clean(disk) /\ minting' = c /\ sidecar' = NoCert
      /\ kinds' = kinds \cup {"mint"} /\ world' = world
      /\ UNCHANGED <<disk, pc, group, readVars, outcome, source, during>>
  BY DEF Mint, World, readVars
<1>2. {sidecar', minting'} \subseteq Certs(Seq(Lines))
  BY <1>1 DEF Inv, Types, Certs
<1>3. ASSUME Honest' PROVE Honest /\ {sidecar', minting'} \subseteq Certs(world.texts)
  <2>1. kinds \subseteq {"replace", "mint"} /\ Distinct
    BY <1>1, <1>3 DEF Honest, Distinct
  <2>2. disk \in world.texts
    BY <1>1, <2>1 DEF Inv, Truth
  <2> QED
    BY <1>1, <2>1, <2>2 DEF Honest, Certs
<1> QED
  BY <1>1, <1>2, <1>3, SidecarInv

LEMMA MintedInv ==
  ASSUME Inv, Minted
  PROVE  Inv'
<1>1. /\ sidecar' = minting /\ minting' = NoCert
      /\ UNCHANGED <<world, disk, edits, kinds, pc, group, readVars, outcome, source, during>>
  BY DEF Minted, callVars
<1>2. {sidecar', minting'} \subseteq Certs(Seq(Lines))
  BY <1>1 DEF Inv, Types, Certs
<1>3. ASSUME Honest' PROVE Honest /\ {sidecar', minting'} \subseteq Certs(world.texts)
  <2>1. Honest
    BY <1>1, <1>3 DEF Honest, Distinct, OneText
  <2> QED
    BY <1>1, <2>1 DEF Inv, Truth, Certs
<1> QED
  BY <1>1, <1>2, <1>3, SidecarInv

-----------------------------------------------------------------------------
(* A read *)

LEMMA CallInv ==
  ASSUME Inv, NEW g \in Groups, NEW encoded \in BOOLEAN, Call(g, encoded)
  PROVE  Inv'
<1>1. /\ pc = "idle" /\ pc' \in {"sidecar", "whole"} /\ group' = g
      /\ outcome' = None /\ during' = {disk}
      /\ UNCHANGED <<world, disk, sidecar, minting, kinds, cert, handle, buf, dict>>
  BY DEF Call, worldVars, readVars
<1>2. Types'
  BY <1>1 DEF Inv, Types, Slicing
<1>3. During' /\ OnlyWhatWasThere'
  BY <1>1 DEF Inv, Types, During, Slicing, OnlyWhatWasThere
<1>4. Truth'
  <2>1. NoWrongData' /\ ~Slicing'
    BY <1>1 DEF NoWrongData, Slicing
  <2>2. Honest' => Honest
    BY <1>1 DEF Honest, Distinct, OneText
  <2> QED
    BY <1>1, <2>1, <2>2 DEF Inv, Truth
<1> QED
  BY <1>2, <1>3, <1>4 DEF Inv

\* A step of a read that has nothing of a slice in hand, or drops it.
LEMMA GotoInv ==
  ASSUME Inv, pc # "idle", NEW point \in {"open", "whole"}, Goto(point),
         cert' \in {NoCert, cert, sidecar}, handle' = Follows, dict' = NoDict, buf' \in {<<>>, buf},
         point = "open" => cert' # NoCert
  PROVE  Inv'
<1>1. pc' = point /\ UNCHANGED <<world, disk, sidecar, minting, kinds, group, outcome, during>>
  BY DEF Goto, worldVars
<1>2. NoCert \in Certs(Seq(Lines)) /\ NoCert \in Certs(world.texts) /\ <<>> \in Seq(Lines)
  BY DEF Certs
<1>3. Types'
  BY <1>1, <1>2 DEF Inv, Types
<1>4. During' /\ OnlyWhatWasThere'
  BY <1>1 DEF Inv, During, Slicing, OnlyWhatWasThere
<1>5. Truth'
  <2>1. NoWrongData' /\ ~Slicing'
    BY <1>1 DEF NoWrongData, Slicing
  <2>2. Honest' => Honest
    BY <1>1 DEF Honest, Distinct, OneText
  <2>3. Honest => {sidecar', minting', cert'} \subseteq Certs(world'.texts)
    BY <1>1, <1>2 DEF Inv, Truth
  <2>4. kinds' = kinds /\ disk' = disk /\ world' = world
    BY <1>1
  <2> QED
    BY <2>1, <2>2, <2>3, <2>4 DEF Inv, Truth
<1> QED
  BY <1>3, <1>4, <1>5 DEF Inv

LEMMA FallBackInv ==
  ASSUME Inv, pc # "idle", FallBack
  PROVE  Inv'
BY GotoInv DEF FallBack, Drop

LEMMA LoadSidecarInv ==
  ASSUME Inv, LoadSidecar
  PROVE  Inv'
<1>1. pc = "sidecar" /\ handle = Follows /\ dict = NoDict
  BY DEF LoadSidecar, Inv, Types, Slicing
<1> QED
  BY <1>1, GotoInv DEF LoadSidecar

\* The file that is opened at the size of an honest certificate is its text.
LEMMA FreshText ==
  ASSUME Inv, Honest, pc = "open", Fresh
  PROVE  disk \in during \cap world.texts /\ Clean(disk) /\ cert \in Certificates(disk)
<1>1. disk # Missing /\ disk \in during /\ disk \in Seq(Lines) /\ Len(disk) = cert.size
  BY DEF Inv, During, Types, Fresh, Readable
<1>2. PICK t \in world.texts : Clean(t) /\ cert \in Certificates(t)
  <2>1. cert # NoCert /\ cert \in Certs(world.texts)
    BY DEF Inv, Types, Truth
  <2> QED
    BY <2>1 DEF Certs
<1>3. t \in Seq(Lines) /\ Len(t) = Len(disk)
  BY <1>1, <1>2, WorldsAssumption, CertificateOf DEF Inv, Types
<1>4. disk = t
  <2>1. CASE Distinct /\ kinds \subseteq {"replace", "mint"}
    <3>1. disk \in world.texts
      BY <1>1, <2>1 DEF Inv, Truth
    <3> QED
      BY <1>2, <1>3, <2>1, <3>1 DEF Distinct
  <2>2. CASE OneText /\ kinds \subseteq {"truncate"}
    <3>1. IsPrefix(disk, t)
      BY <1>1, <1>2, <2>2 DEF Inv, Truth, OneText
    <3>2. SubSeq(disk, 1, Len(disk)) = disk /\ SubSeq(t, 1, Len(t)) = t
      BY <1>1, <1>3, SubSeqFull
    <3> QED
      BY <1>3, <3>1, <3>2 DEF IsPrefix
  <2> QED
    BY <2>1, <2>2 DEF Honest
<1> QED
  BY <1>1, <1>2, <1>4

\* The first fetch of a span: nothing of it is in hand.
LEMMA FetchInv ==
  ASSUME Inv, pc # "idle", NEW point \in {"dict", "slice"}, Fetch(point), cert' = cert, handle' = handle,
         cert # NoCert, View \in during \ {Missing}, Sliceable(cert, IF point = "dict" THEN DICT ELSE group),
         point = "dict" => group \in Custom /\ dict' = NoDict,
         point = "slice" => (group \in Custom <=> dict' # NoDict),
         dict' \in {NoDict} \cup [groups : SUBSET Custom, keyed : SUBSET Custom],
         Honest => \E t \in during \cap world.texts :
                     /\ Clean(t) /\ Readable(t) /\ cert \in Certificates(t) /\ IsPrefix(View, t)
                     /\ point = "slice" /\ group \in Custom =>
                          dict' = FileDictOf(t) /\ group \in dict'.groups
  PROVE  Inv'
<1> DEFINE fetched == IF point = "dict" THEN DICT ELSE group
           span == cert.groups[fetched][1]
<1>1. /\ pc' = point /\ buf' = <<>>
      /\ UNCHANGED <<world, disk, sidecar, minting, kinds, group, outcome, during>>
  BY DEF Fetch, Goto, worldVars
<1>2. Types'
  <2>1. <<>> \in Seq(Lines)
    OBVIOUS
  <2> QED
    BY <1>1, <2>1 DEF Inv, Types, Slicing
<1>3. Fetched' = fetched /\ Span' = span /\ View' = View
  BY <1>1 DEF Fetched, Span, View
<1>4. PICK u \in Seq(Lines) : cert \in Certificates(u)
  BY DEF Inv, Types, Certs
<1>5. fetched \in Groups
  BY DictAssumption DEF Inv, Types, Groups
<1>6. span.from \in Nat /\ span.to \in Nat /\ span.from < span.to
  BY <1>4, <1>5, SliceableSpan
<1> HIDE DEF fetched, span
<1>7. At' = span.from
  <2>1. At' = Span'.from + Len(buf')
    BY DEF At
  <2>2. Len(buf') = 0
    BY <1>1
  <2> QED
    BY <1>3, <1>6, <2>1, <2>2
<1>8. During'
  <2> USE DEF During
  <2>1. Slicing' /\ disk \in during
    BY <1>1 DEF Inv, Slicing
  <2>2. Sliceable(cert, Fetched)' /\ (At <= Span.to)'
    BY <1>3, <1>6, <1>7 DEF Sliceable, fetched
  <2>3. ToSet(buf') \subseteq Seen'
    BY <1>1 DEF ToSet
  <2>4. during' \subseteq Seq(Lines) \cup {Missing} /\ View' \in during' \ {Missing}
    BY <1>1, <1>3 DEF Inv
  <2> QED
    BY <1>1, <2>1, <2>2, <2>3, <2>4
<1>9. OnlyWhatWasThere'
  BY <1>1 DEF OnlyWhatWasThere
<1>10. Truth'
  <2>1. Honest' => Honest
    BY <1>1 DEF Honest, Distinct, OneText
  <2>2. ASSUME Honest PROVE \E t \in during' \cap world'.texts : SlicingOf(t)'
    <3>1. PICK t \in during \cap world.texts :
            /\ Clean(t) /\ Readable(t) /\ cert \in Certificates(t) /\ IsPrefix(View, t)
            /\ point = "slice" /\ group \in Custom => dict' = FileDictOf(t) /\ group \in dict'.groups
      BY <2>2
    <3>2. SubSeq(t, span.from + 1, span.from) = <<>>
      <4>1. span.from + 1 \in Int /\ span.from \in Int /\ span.from < span.from + 1
        BY <1>6
      <4> QED
        BY <4>1, SubSeqEmpty
    <3>3. buf' = SubSeq(t, Span'.from + 1, At')
      BY <1>1, <1>3, <1>7, <3>2
    <3> QED
      BY <1>1, <1>3, <3>1, <3>3 DEF SlicingOf
  <2>3. NoWrongData'
    BY <1>1 DEF NoWrongData
  <2> QED
    BY <1>1, <2>1, <2>2, <2>3 DEF Inv, Truth
<1> QED
  BY <1>2, <1>8, <1>9, <1>10 DEF Inv

LEMMA OpenInv ==
  ASSUME Inv, pc = "open", Fresh, NEW point \in {"dict", "slice"}, Fetch(point),
         UNCHANGED <<cert, handle, dict>>, Sliceable(cert, IF point = "dict" THEN DICT ELSE group),
         point = "dict" <=> group \in Custom
  PROVE  Inv'
<1>1. /\ handle = Follows /\ dict = NoDict /\ cert # NoCert
      /\ View = disk /\ disk \in during \ {Missing} /\ disk \in Seq(Lines) /\ Readable(disk)
  BY DEF Inv, Types, During, Fresh, Readable, View, Slicing
<1>2. IsPrefix(disk, disk)
  BY <1>1 DEF IsPrefix
<1>3. Honest => disk \in during \cap world.texts /\ Clean(disk) /\ cert \in Certificates(disk)
  BY FreshText
<1> QED
  BY <1>1, <1>2, <1>3, FetchInv

LEMMA OpenStandardInv ==
  ASSUME Inv, OpenStandard
  PROVE  Inv'
<1>1. group \notin Custom
  BY LinesAssumption DEF OpenStandard, InRegistry
<1>2. CASE Sliceable(cert, group)
  <2>1. pc = "open" /\ Fresh /\ Fetch("slice") /\ UNCHANGED <<cert, handle, dict>>
    BY <1>2 DEF OpenStandard
  <2> QED
    BY <1>1, <1>2, <2>1, OpenInv
<1>3. CASE ~Sliceable(cert, group)
  BY <1>3, FallBackInv DEF OpenStandard
<1> QED
  BY <1>2, <1>3

LEMMA OpenCustomInv ==
  ASSUME Inv, OpenCustom
  PROVE  Inv'
<1>1. group \in Custom
  BY DEF OpenCustom, InRegistry, Inv, Types, Groups
<1>2. CASE MayDeclare /\ Sliceable(cert, DICT)
  <2>1. pc = "open" /\ Fresh /\ Fetch("dict") /\ UNCHANGED <<cert, handle, dict>>
    BY <1>2 DEF OpenCustom
  <2> QED
    BY <1>1, <1>2, <2>1, OpenInv
<1>3. CASE ~(MayDeclare /\ Sliceable(cert, DICT))
  BY <1>3, FallBackInv DEF OpenCustom
<1> QED
  BY <1>2, <1>3

\* Where a read of n lines more leaves off.
LEMMA ReadAhead ==
  ASSUME NEW from \in Nat, NEW to \in Nat, NEW at \in Nat, from <= at, at <= to,
         NEW n \in 1..to - at, NEW len \in Nat, at + n <= len
  PROVE  /\ n \in Nat /\ n >= 1 /\ at + n <= to /\ at + 1 \in Nat /\ at + n \in Nat
         /\ \A i \in at + 1..at + n : i \in 1..len
         /\ from + 1 \in 1..len + 1 /\ at \in (from + 1) - 1..len /\ at + n \in at..len
         /\ (at + n) - (at + 1) + 1 = n /\ at + 1 <= at + n /\ at + n \in at + 1..len
OBVIOUS

LEMMA ReadSomeInv ==
  ASSUME Inv, ReadSome
  PROVE  Inv'
<1>1. /\ Slicing
      /\ UNCHANGED <<world, disk, sidecar, minting, kinds, pc, group, cert, handle, dict, outcome, during>>
  BY DEF ReadSome, Goto, Slicing, worldVars
<1>2. PICK n \in 1..Span.to - At :
        At + n <= Len(View) /\ buf' = buf \o SubSeq(View, At + 1, At + n)
  BY DEF ReadSome
<1> DEFINE more == SubSeq(View, At + 1, At + n)
<1>3. /\ Span.from \in Nat /\ Span.to \in Nat /\ Span.from < Span.to
      /\ Len(buf) \in Nat /\ At \in Nat /\ At = Span.from + Len(buf) /\ At <= Span.to
      /\ View \in Seq(Lines) /\ buf \in Seq(Lines) /\ View \in during \ {Missing}
  BY <1>1, SpanInHand DEF Inv, Types, During
<1>4. /\ n \in Nat /\ n >= 1 /\ At + n <= Span.to /\ At + 1 \in Nat /\ At + n \in Nat
      /\ Len(View) \in Nat /\ Span.from <= At
      /\ \A i \in At + 1..At + n : i \in 1..Len(View)
  <2>1. Len(View) \in Nat
    BY <1>3
  <2>2. Span.from <= At
    BY <1>3
  <2>3. n \in 1..Span.to - At /\ At + n <= Len(View)
    BY <1>2
  <2>4. Span.from \in Nat /\ Span.to \in Nat /\ At \in Nat /\ At <= Span.to
    BY <1>3
  <2> QED
    BY <2>1, <2>2, <2>3, <2>4, ReadAhead
<1>5. more \in Seq(Lines) /\ Len(more) = n /\ ToSet(more) \subseteq ToSet(View)
  <2>1. \A i \in At + 1..At + n : View[i] \in Lines \cap ToSet(View)
    <3>1. \A i \in 1..Len(View) : View[i] \in Lines \cap ToSet(View)
      BY <1>3 DEF ToSet
    <3>2. \A i \in At + 1..At + n : i \in 1..Len(View)
      BY <1>4
    <3> QED
      BY <3>1, <3>2, Zenon
  <2>2. /\ more \in Seq(Lines \cap ToSet(View))
        /\ Len(more) = IF At + 1 <= At + n THEN (At + n) - (At + 1) + 1 ELSE 0
    <3>1. At + 1 \in Int /\ At + n \in Int
      BY <1>4
    <3> QED
      BY <2>1, <3>1, SubSeqProperties
  <2>3. Len(more) = n
    <3>1. (At + n) - (At + 1) + 1 = n /\ At + 1 <= At + n
      <4>1. At \in Nat /\ n \in Nat /\ n >= 1
        BY <1>3, <1>4
      <4> QED
        BY <4>1
    <3> QED
      BY <2>2, <3>1, Zenon
  <2> HIDE DEF more
  <2>4. more \in Seq(Lines) /\ ToSet(more) \subseteq ToSet(View)
    BY <2>2 DEF ToSet
  <2> QED
    BY <2>3, <2>4
<1>6. buf' = buf \o more
  BY <1>2
<1> HIDE DEF more
<1>7. buf' \in Seq(Lines) /\ Len(buf') = Len(buf) + n /\ ToSet(buf') = ToSet(buf) \cup ToSet(more)
  <2>1. buf \in Seq(Lines) /\ more \in Seq(Lines) /\ Len(more) = n
    BY <1>3, <1>5
  <2>2. buf \o more \in Seq(Lines) /\ Len(buf \o more) = Len(buf) + Len(more)
    BY <2>1, ConcatProperties
  <2>3. ToSet(buf \o more) = ToSet(buf) \cup ToSet(more)
    BY <2>1, ConcatElements
  <2> QED
    BY <1>6, <2>1, <2>2, <2>3, Zenon
<1>8. Span' = Span /\ View' = View /\ Fetched' = Fetched
  BY <1>1 DEF Span, View, Fetched
<1>9. At' = At + n
  <2>1. At' = Span.from + (Len(buf) + n)
    BY <1>7, <1>8 DEF At
  <2>2. At = Span.from + Len(buf) /\ Span.from \in Nat /\ Len(buf) \in Nat /\ n \in Nat
    BY <1>3, <1>4
  <2> HIDE DEF At
  <2> QED
    BY <2>1, <2>2
<1>10. Types'
  BY <1>1, <1>7 DEF Inv, Types, Slicing
<1>11. During'
  <2>1. ToSet(buf') \subseteq Seen'
    BY <1>1, <1>3, <1>5, <1>7 DEF Inv, During, Seen
  <2>2. (At <= Span.to)'
    BY <1>4, <1>8, <1>9
  <2> QED
    BY <1>1, <1>8, <2>1, <2>2 DEF Inv, During, Sliceable, Slicing
<1>12. OnlyWhatWasThere'
  BY <1>1 DEF OnlyWhatWasThere, Slicing
<1>13. Truth'
  <2>1. Honest' => Honest
    BY <1>1 DEF Honest, Distinct, OneText
  <2>2. ASSUME Honest PROVE \E t \in during' \cap world'.texts : SlicingOf(t)'
    <3>1. PICK t \in during \cap world.texts : SlicingOf(t)
      BY <1>1, <2>2 DEF Inv, Truth
    <3>2. t \in Seq(Lines) /\ IsPrefix(View, t) /\ Len(t) \in Nat /\ Len(View) <= Len(t)
      BY <3>1, WorldsAssumption DEF Inv, Types, SlicingOf, IsPrefix
    <3>3. more = SubSeq(t, At + 1, At + n)
      <4>1. At + 1 \in Nat /\ At + 1 >= 1 /\ At + n \in At + 1..Len(View)
        BY <1>2, <1>3, <1>4
      <4>2. t \in Seq(Lines) /\ View \in Seq(Lines) /\ IsPrefix(View, t)
        BY <1>3, <3>2
      <4>3. SubSeq(View, At + 1, At + n) = SubSeq(t, At + 1, At + n)
        BY <4>1, <4>2, PrefixReads
      <4> QED
        BY <4>3 DEF more
    <3>4. SubSeq(t, Span.from + 1, At) \o SubSeq(t, At + 1, At + n) = SubSeq(t, Span.from + 1, At + n)
      <4>1. /\ Span.from + 1 \in 1..Len(t) + 1 /\ At \in (Span.from + 1) - 1..Len(t)
            /\ At + n \in At..Len(t)
        <5>1. At + n <= Len(t)
          BY <1>2, <1>4, <3>2
        <5>2. n \in 1..Span.to - At
          BY <1>2
        <5>3. Span.from \in Nat /\ Span.to \in Nat /\ At \in Nat /\ At <= Span.to /\ Span.from <= At
          BY <1>3, <1>4
        <5>4. Len(t) \in Nat
          BY <3>2
        <5> QED
          BY <5>1, <5>2, <5>3, <5>4, ReadAhead
      <4> QED
        BY <3>2, <4>1, ConcatAdjacentSubSeq
    <3>5. buf' = SubSeq(t, Span'.from + 1, At')
      BY <1>6, <1>8, <1>9, <3>1, <3>3, <3>4 DEF SlicingOf
    <3> QED
      BY <1>1, <1>8, <3>1, <3>5 DEF SlicingOf
  <2>3. NoWrongData' <=> NoWrongData
    BY <1>1 DEF NoWrongData
  <2> QED
    BY <1>1, <2>1, <2>2, <2>3 DEF Inv, Truth
<1> QED
  BY <1>10, <1>11, <1>12, <1>13 DEF Inv

\* The whole span is in hand: it is the group's section.
LEMMA SectionInHand ==
  ASSUME Inv, Honest, Slicing, AllRead
  PROVE  \E t \in during \cap world.texts :
           /\ SlicingOf(t) /\ t \in Seq(Lines)
           /\ RowsOf(buf, Fetched) = RowsOf(t, Fetched) /\ Fetched \in Present(t)
<1>1. PICK t \in during \cap world.texts : SlicingOf(t)
  BY DEF Inv, Truth
<1>2. t \in Seq(Lines) /\ Fetched \in Groups /\ Sliceable(cert, Fetched)
  BY SpanInHand, WorldsAssumption DEF Inv, Types
<1>3. buf = SubSeq(t, Span.from + 1, Span.to)
  BY <1>1 DEF SlicingOf, AllRead
<1>4. /\ RowsOf(SubSeq(t, Span.from + 1, Span.to), Fetched) = RowsOf(t, Fetched)
      /\ Fetched \in Present(t)
  BY <1>1, <1>2, SliceableSpan DEF SlicingOf, Span
<1> QED
  BY <1>1, <1>2, <1>3, <1>4

LEMMA DictReadInv ==
  ASSUME Inv, DictRead
  PROVE  Inv'
<1>1. pc = "dict" /\ AllRead /\ Slicing /\ Fetched = DICT /\ group \in Custom
  BY DEF DictRead, Sliced, Slicing, Fetched, Inv, Types
<1>2. CASE group \in FileDictOf(buf).groups /\ Sliceable(cert, group)
  <2>1. dict' = FileDictOf(buf) /\ Fetch("slice") /\ UNCHANGED <<cert, handle>>
    BY <1>2 DEF DictRead
  <2>2. /\ FileDictOf(buf) \in [groups : SUBSET Custom, keyed : SUBSET Custom]
        /\ FileDictOf(buf) # NoDict
    BY FileDictTyped DEF Inv, Types
  <2>3. cert # NoCert /\ View \in during \ {Missing}
    BY <1>1 DEF Inv, Types, During
  <2>4. ASSUME Honest
        PROVE  \E t \in during \cap world.texts :
                 /\ Clean(t) /\ Readable(t) /\ cert \in Certificates(t) /\ IsPrefix(View, t)
                 /\ dict' = FileDictOf(t) /\ group \in dict'.groups
    <3>1. PICK t \in during \cap world.texts : SlicingOf(t) /\ RowsOf(buf, DICT) = RowsOf(t, DICT)
      BY <1>1, <2>4, SectionInHand
    <3>2. FileDictOf(buf) = FileDictOf(t)
      BY <3>1 DEF FileDictOf
    <3> QED
      BY <1>2, <2>1, <3>1, <3>2 DEF SlicingOf
  <2> QED
    BY <1>1, <1>2, <2>1, <2>2, <2>3, <2>4, FetchInv
<1>3. CASE ~(group \in FileDictOf(buf).groups /\ Sliceable(cert, group))
  BY <1>1, <1>3, FallBackInv DEF DictRead
<1> QED
  BY <1>2, <1>3

\* An answer read from texts that were there then, one of them as long as a text
\* the path held during the call, is the answer of one it held.
LEMMA AnswerInv ==
  ASSUME Inv, NEW answer, NEW from, Answer(answer, from),
         Honest => answer = Refusal("failed") \/ \E t \in during : answer = WholeFile(t, group),
         "rows" \in DOMAIN answer =>
           /\ {group} \cup ToSet(answer.rows) \subseteq LinesOf(from \ {Missing})
           /\ \/ from \subseteq during
              \/ \E u \in from \ {Missing}, t \in during \ {Missing} : Len(u) = Len(t)
  PROVE  Inv'
<1>1. /\ pc' = "idle" /\ outcome' = answer /\ source' = from
      /\ cert' = NoCert /\ handle' = Follows /\ buf' = <<>> /\ dict' = NoDict
      /\ UNCHANGED <<world, disk, sidecar, minting, kinds, group, during>>
  BY DEF Answer, Drop, worldVars
<1>2. NoCert \in Certs(Seq(Lines)) /\ NoCert \in Certs(world.texts) /\ <<>> \in Seq(Lines)
  BY DEF Certs
<1>3. Types' /\ During'
  BY <1>1, <1>2 DEF Inv, Types, During, Slicing
<1>4. OnlyWhatWasThere'
  BY <1>1 DEF OnlyWhatWasThere, LinesOf
<1>5. Truth'
  <2>1. Honest' => Honest
    BY <1>1 DEF Honest, Distinct, OneText
  <2>2. Honest => NoWrongData'
    <3>1. \A t : WholeFile(t, group') = WholeFile(t, group)
      BY <1>1
    <3> QED
      BY <1>1, <3>1 DEF NoWrongData
  <2>3. Honest => {sidecar', minting', cert'} \subseteq Certs(world'.texts)
    BY <1>1, <1>2 DEF Inv, Truth
  <2> QED
    BY <1>1, <2>1, <2>2, <2>3 DEF Inv, Truth, Slicing
<1> QED
  BY <1>3, <1>4, <1>5 DEF Inv

LEMMA SliceReadInv ==
  ASSUME Inv, SliceRead
  PROVE  Inv'
<1> DEFINE answer == Table(RowsOf(buf, group), group, dict)
<1>1. /\ pc = "slice" /\ Slicing /\ AllRead /\ Fetched = group /\ Answer(answer, during)
      /\ buf # <<>> /\ buf[1] = group /\ buf \in Seq(Lines)
  BY DEF SliceRead, Sliced, Slicing, Fetched, Inv, Types
<1>2. answer.rows = RowsOf(buf, group)
  BY DEF Table
<1>3. {group} \cup ToSet(answer.rows) \subseteq Seen
  <2>1. ToSet(RowsOf(buf, group)) \subseteq ToSet(buf)
    BY <1>1, RowsOfLines
  <2>2. 1 \in DOMAIN buf
    BY <1>1, EmptySeq
  <2>3. group \in ToSet(buf)
    BY <1>1, <2>2 DEF ToSet
  <2> QED
    BY <1>1, <1>2, <2>1, <2>3 DEF Inv, During
<1>4. ASSUME Honest PROVE \E t \in during : answer = WholeFile(t, group)
  <2>1. PICK t \in during \cap world.texts :
          /\ SlicingOf(t) /\ RowsOf(buf, group) = RowsOf(t, group) /\ group \in Present(t)
    BY <1>1, <1>4, SectionInHand
  <2>2. WholeFile(t, group) = Whole(t, group)
    BY <2>1 DEF WholeFile, SlicingOf, Clean
  <2>3. CASE group \in Standard
    <3>1. dict = NoDict
      BY <1>1, <2>3, LinesAssumption DEF Inv, Types
    <3> QED
      BY <2>1, <2>2, <2>3, <3>1 DEF Whole
  <2>4. CASE group \notin Standard
    <3>1. group \in Custom
      BY <2>4 DEF Inv, Types, Groups
    <3>2. dict = FileDictOf(t) /\ group \in FileDictOf(t).groups
      BY <1>1, <2>1, <3>1 DEF SlicingOf
    <3> QED
      BY <2>1, <2>2, <2>4, <3>2 DEF Whole
  <2> QED
    BY <2>3, <2>4
<1> HIDE DEF answer
<1> QED
  BY <1>1, <1>3, <1>4, AnswerInv DEF Seen, LinesOf

-----------------------------------------------------------------------------
(* Whole-file reads *)

\* In the honest worlds a length names one text.
LEMMA KnownText ==
  ASSUME Types, Honest, NEW u \in Seq(Lines), NEW t \in Seq(Lines), Len(u) = Len(t),
         Known(u, world.texts, kinds), Known(t, world.texts, kinds)
  PROVE  u = t
<1>1. CASE Distinct /\ kinds \subseteq {"replace", "mint"}
  BY <1>1 DEF Known, Distinct
<1>2. CASE OneText /\ kinds \subseteq {"truncate"}
  <2>1. PICK full \in world.texts : IsPrefix(u, full) /\ IsPrefix(t, full)
    BY <1>2 DEF Known, OneText
  <2>2. SubSeq(u, 1, Len(u)) = u /\ SubSeq(t, 1, Len(t)) = t
    BY SubSeqFull
  <2> QED
    BY <2>1, <2>2 DEF IsPrefix
<1> QED
  BY <1>1, <1>2 DEF Honest

\* What is known stays known while nothing else than it allows is done.
LEMMA KnownKept ==
  ASSUME NEW texts, NEW done, NEW more, done \subseteq more
  PROVE  \A t : Known(t, texts, done) => Known(t, texts, more)
BY DEF Known

\* The file at the path is known in the honest worlds.
LEMMA DiskKnown ==
  ASSUME Inv, Honest, disk # Missing
  PROVE  disk \in Seq(Lines) /\ Known(disk, world.texts, kinds) /\ IsPrefix(disk, disk)
BY DEF Inv, Types, Truth, Known, IsPrefix

LEMMA EmptyPrefix ==
  ASSUME NEW t \in Seq(Lines)
  PROVE  IsPrefix(<<>>, t)
<1>1. SubSeq(t, 1, 0) = <<>>
  BY SubSeqEmpty
<1>2. Len(<<>>) = 0 /\ SubSeq(<<>>, 1, 0) = <<>> /\ Len(t) \in Nat
  OBVIOUS
<1> QED
  BY <1>1, <1>2 DEF IsPrefix

\* A prefix that is not shorter than the text is the text.
LEMMA FullPrefix ==
  ASSUME NEW t \in Seq(Lines), NEW b \in Seq(Lines), IsPrefix(b, t), ~(Len(b) < Len(t))
  PROVE  b = t
<1>1. SubSeq(b, 1, Len(b)) = b /\ SubSeq(t, 1, Len(t)) = t
  BY SubSeqFull
<1>2. Len(b) = Len(t)
  BY DEF IsPrefix
<1> QED
  BY <1>1, <1>2 DEF IsPrefix

\* What one more read of the file leaves in the buffer.
LEMMA ReadOn ==
  ASSUME NEW b \in Seq(Lines), NEW v \in Seq(Lines), NEW n \in 1..Len(v) - Len(b)
  PROVE  LET more == b \o SubSeq(v, Len(b) + 1, Len(b) + n)
         IN /\ more \in Seq(Lines)
            /\ ToSet(more) \subseteq ToSet(b) \cup ToSet(v)
            /\ \A t \in Seq(Lines) : IsPrefix(b, t) /\ IsPrefix(v, t) => IsPrefix(more, t)
<1> DEFINE m == Len(b)
           tail == SubSeq(v, m + 1, m + n)
           more == b \o tail
<1>1. /\ m \in Nat /\ n \in Nat /\ n >= 1 /\ Len(v) \in Nat /\ m + n <= Len(v) /\ m + n \in Nat
      /\ m + 1 \in Int /\ m + n \in Int /\ m + 1 <= m + n /\ (m + n) - (m + 1) + 1 = n
      /\ \A i \in m + 1..m + n : i \in 1..Len(v)
  OBVIOUS
<1> HIDE DEF m
<1>2. \A i \in m + 1..m + n : v[i] \in Lines \cap ToSet(v)
  <2>1. \A i \in 1..Len(v) : v[i] \in Lines \cap ToSet(v)
    BY DEF ToSet
  <2> QED
    BY <1>1, <2>1, Zenon
<1>3. /\ tail \in Seq(Lines \cap ToSet(v))
      /\ Len(tail) = IF m + 1 <= m + n THEN (m + n) - (m + 1) + 1 ELSE 0
  BY <1>1, <1>2, SubSeqProperties
<1>4. Len(tail) = n
  BY <1>1, <1>3, Zenon
<1>5. tail \in Seq(Lines) /\ ToSet(tail) \subseteq ToSet(v)
  <2> HIDE DEF tail
  <2> QED
    BY <1>3 DEF ToSet
<1>6. more \in Seq(Lines) /\ Len(more) = m + n /\ ToSet(more) = ToSet(b) \cup ToSet(tail)
  <2> HIDE DEF tail
  <2>1. b \o tail \in Seq(Lines) /\ Len(b \o tail) = Len(b) + Len(tail)
    BY <1>5, ConcatProperties
  <2>2. ToSet(b \o tail) = ToSet(b) \cup ToSet(tail)
    BY <1>5, ConcatElements
  <2>3. Len(b \o tail) = m + n
    BY <1>4, <2>1 DEF m
  <2> QED
    BY <2>1, <2>2, <2>3
<1>7. ASSUME NEW t \in Seq(Lines), IsPrefix(b, t), IsPrefix(v, t)
      PROVE  IsPrefix(more, t)
  <2>1. Len(t) \in Nat /\ m <= Len(t) /\ Len(v) <= Len(t)
    BY <1>7 DEF IsPrefix, m
  <2>2. b = SubSeq(t, 1, m)
    BY <1>7, SubSeqFull DEF IsPrefix, m
  <2>3. tail = SubSeq(t, m + 1, m + n)
    <3>1. m + 1 \in Nat /\ m + 1 >= 1 /\ m + n \in m + 1..Len(v)
      BY <1>1
    <3> QED
      BY <1>7, <3>1, PrefixReads
  <2>4. SubSeq(t, 1, m) \o SubSeq(t, m + 1, m + n) = SubSeq(t, 1, m + n)
    <3>1. 1 \in 1..Len(t) + 1 /\ m \in 1 - 1..Len(t) /\ m + n \in m..Len(t)
      BY <1>1, <2>1
    <3> QED
      BY <3>1, ConcatAdjacentSubSeq
  <2>5. more = SubSeq(t, 1, m + n)
    BY <2>2, <2>3, <2>4
  <2>6. SubSeq(more, 1, Len(more)) = more /\ Len(more) <= Len(t)
    <3>1. m + n <= Len(t)
      BY <1>1, <2>1
    <3> HIDE DEF more
    <3> QED
      BY <1>6, <3>1, SubSeqFull
  <2> HIDE DEF more
  <2> QED
    BY <1>6, <2>5, <2>6 DEF IsPrefix
<1> QED
  BY <1>5, <1>6, <1>7 DEF m

\* A handle that is pinned goes on with the text it was on; one that follows
\* sees what is written.
LEMMA MovedSound ==
  ASSUME NEW read, read # NoRead, NEW d, NEW text, NEW place, Sound(read, d),
         place = d \/ (place = Follows /\ text \in Seq(Lines))
  PROVE  LET m == Moved(read, text, place)
         IN /\ Sound(m, text)
            /\ read.handle # Follows => m = read /\ Holding(m, text) = Holding(read, d)
            /\ read.handle = Follows => Holding(m, text) = IF place = Follows THEN text ELSE d
            /\ read.seen \subseteq m.seen /\ m.seen \subseteq read.seen \cup {text}
            /\ m.point = read.point /\ m.size = read.size /\ m.buf = read.buf
<1> DEFINE m == Moved(read, text, place)
<1>1. read \in Reads /\ Holding(read, d) \in read.seen /\ read.seen \subseteq Seq(Lines)
  BY DEF Sound, Reads
<1>2. CASE read.handle # Follows
  <2>1. m = read
    BY <1>2 DEF Moved
  <2> QED
    BY <1>2, <2>1 DEF Sound, Holding
<1>3. CASE read.handle = Follows /\ place = d
  <2>1. d \in read.seen /\ d \in Seq(Lines) /\ d # Follows
    BY <1>1, <1>3, SentinelsAssumption DEF Holding
  <2>2. m = [read EXCEPT !.handle = d]
    BY <1>1, <1>3, <2>1 DEF Moved, Reads
  <2>3. /\ m \in Reads /\ m.handle = d /\ m.seen = read.seen
        /\ m.point = read.point /\ m.size = read.size /\ m.buf = read.buf
    BY <1>1, <2>1, <2>2 DEF Reads
  <2> HIDE DEF m
  <2>4. Sound(m, text) /\ Holding(m, text) = d
    BY <1>3, <2>1, <2>3 DEF Sound, Holding
  <2> QED
    BY <1>3, <2>1, <2>3, <2>4 DEF m
<1>4. CASE read.handle = Follows /\ place = Follows /\ text \in Seq(Lines)
  <2>1. m = [read EXCEPT !.handle = Follows, !.seen = read.seen \cup {text}]
    BY <1>1, <1>4 DEF Moved, Reads
  <2>2. /\ m.handle = Follows /\ m.seen = read.seen \cup {text}
        /\ m.point = read.point /\ m.size = read.size /\ m.buf = read.buf
    BY <1>1, <1>4, <2>1 DEF Reads
  <2>3. m \in Reads
    <3>1. read.seen \cup {text} \in SUBSET Seq(Lines) /\ Follows \in Seq(Lines) \cup {Follows}
      BY <1>1, <1>4
    <3> HIDE DEF m
    <3> QED
      BY <1>1, <2>1, <3>1 DEF Reads
  <2> HIDE DEF m
  <2>4. Sound(m, text)
    BY <1>4, <2>2, <2>3 DEF Sound, Holding, LinesOf
  <2> QED
    BY <1>4, <2>2, <2>4 DEF Holding, m
<1> QED
  BY <1>2, <1>3, <1>4

LEMMA MovedFaithful ==
  ASSUME NEW read, read # NoRead, NEW d, NEW text, NEW place, Sound(read, d),
         NEW texts, NEW done, NEW more, done \subseteq more, Faithful(read, d, texts, done),
         \/ place = d
         \/ /\ place = Follows /\ text \in Seq(Lines)
            /\ \A t \in Seq(Lines) : IsPrefix(d, t) => IsPrefix(text, t)
  PROVE  Faithful(Moved(read, text, place), text, texts, more)
<1> DEFINE m == Moved(read, text, place)
<1>1. /\ Sound(m, text)
      /\ read.handle # Follows => m = read /\ Holding(m, text) = Holding(read, d)
      /\ read.handle = Follows => Holding(m, text) = IF place = Follows THEN text ELSE d
      /\ read.seen \subseteq m.seen /\ m.seen \subseteq read.seen \cup {text}
      /\ m.point = read.point /\ m.size = read.size /\ m.buf = read.buf
  BY MovedSound
<1> HIDE DEF m
<1>2. PICK t \in read.seen :
        /\ Known(t, texts, done) /\ Len(t) = read.size
        /\ IsPrefix(read.buf, t) /\ IsPrefix(Holding(read, d), t)
        /\ read.point = "publish" => read.buf = t
  BY DEF Faithful
<1>3. t \in Seq(Lines)
  BY <1>2 DEF Sound, Reads
<1>4. IsPrefix(Holding(m, text), t)
  <2>1. CASE read.handle # Follows
    BY <1>1, <1>2, <2>1
  <2>2. CASE read.handle = Follows
    <3>1. Holding(read, d) = d /\ d # Follows
      BY <2>2, SentinelsAssumption DEF Sound, Reads, Holding
    <3>2. Holding(m, text) = IF place = Follows THEN text ELSE d
      BY <1>1, <2>2
    <3> QED
      BY <1>2, <1>3, <3>1, <3>2
  <2> QED
    BY <2>1, <2>2
<1>5. Known(t, texts, more)
  BY <1>2, KnownKept
<1> QED
  BY <1>1, <1>2, <1>4, <1>5 DEF Faithful, m

\* What writes the file leaves the whole-file reads sound.
LEMMA WorldWholes ==
  ASSUME IInv, NEW kind, World(kind), NEW text, NEW place, Put(text, place),
         \/ place = disk
         \/ /\ place = Follows /\ text \in Seq(Lines)
            /\ Honest' => \A t \in Seq(Lines) : IsPrefix(disk, t) => IsPrefix(text, t)
  PROVE  Wholes'
<1>1. /\ disk' = text /\ kinds \subseteq kinds' /\ world' = world /\ cached' = cached /\ pc' = pc /\ utf8' = utf8
      /\ during' = IF pc = "idle" THEN during ELSE during \cup {text}
      /\ whole' = [r \in Readers |-> Moved(whole[r], text, place)]
  BY DEF World, Put
<1>2. Honest' => Honest
  BY <1>1 DEF Honest, Distinct, OneText
<1>3. ASSUME NEW r \in Readers
      PROVE  /\ whole'[r] \in Reads \cup {NoRead}
             /\ whole'[r] # NoRead =>
                  /\ Sound(whole'[r], disk')
                  /\ Honest' => Faithful(whole'[r], disk', world'.texts, kinds')
             /\ whole'[r] # NoRead => whole[r] # NoRead /\ whole'[r].seen \subseteq whole[r].seen \cup {text}
  <2>1. whole'[r] = Moved(whole[r], text, place)
    BY <1>1
  <2>2. CASE whole[r] = NoRead
    BY <2>1, <2>2 DEF Moved
  <2>3. CASE whole[r] # NoRead
    <3>1. Sound(whole[r], disk) /\ (Honest => Faithful(whole[r], disk, world.texts, kinds))
      BY <2>3 DEF IInv, Wholes
    <3>2. Sound(whole'[r], text) /\ whole'[r].seen \subseteq whole[r].seen \cup {text}
      BY <2>1, <2>3, <3>1, MovedSound
    <3>3. Honest' => Faithful(whole'[r], text, world.texts, kinds')
      BY <1>1, <1>2, <2>1, <2>3, <3>1, MovedFaithful
    <3> QED
      BY <1>1, <2>3, <3>2, <3>3 DEF Sound
  <2> QED
    BY <2>2, <2>3
<1>4. whole' \in [Readers -> Reads \cup {NoRead}]
  BY <1>1, <1>3
<1>5. ASSUME NEW k \in DOMAIN cached'
      PROVE  /\ SoundEntry(k.size, cached'[k])
             /\ Honest' => FaithfulEntry(k.size, cached'[k], world'.texts, kinds')
  BY <1>1, <1>2, KnownKept DEF IInv, Wholes, FaithfulEntry
<1>6. whole'[Caller] # NoRead => pc' = "whole" /\ whole'[Caller].seen \subseteq during'
  <2>1. Caller \in Readers
    BY DEF Readers
  <2> QED
    BY <1>1, <1>3, <2>1 DEF IInv, Wholes
<1> QED
  BY <1>1, <1>3, <1>4, <1>5, <1>6 DEF IInv, Wholes

\* What neither writes the file nor reads it whole leaves them too.
LEMMA WholesKept ==
  ASSUME Wholes, UNCHANGED <<world, disk, cached, whole>>, utf8' \in BOOLEAN,
         kinds \subseteq kinds', Honest' => Honest,
         whole[Caller] # NoRead => pc' = "whole" /\ during \subseteq during'
  PROVE  Wholes'
<1>1. ASSUME NEW r \in Readers, whole'[r] # NoRead
      PROVE  /\ Sound(whole'[r], disk')
             /\ Honest' => Faithful(whole'[r], disk', world'.texts, kinds')
  BY <1>1, KnownKept DEF Wholes, Faithful
<1>2. ASSUME NEW k \in DOMAIN cached'
      PROVE  /\ SoundEntry(k.size, cached'[k])
             /\ Honest' => FaithfulEntry(k.size, cached'[k], world'.texts, kinds')
  BY KnownKept DEF Wholes, FaithfulEntry
<1> QED
  BY <1>1, <1>2 DEF Wholes

\* The call is not reading the file whole, or goes on doing so.
LEMMA CallWholes ==
  ASSUME IInv, UNCHANGED <<worldVars, utf8, wholeVars>>, pc # "whole" \/ (pc' = pc /\ during' = during)
  PROVE  Wholes'
<1>1. /\ UNCHANGED <<world, disk, kinds, utf8, cached, whole>>
  BY DEF worldVars, wholeVars
<1>2. Honest' => Honest
  BY <1>1 DEF Honest, Distinct, OneText
<1>3. utf8' \in BOOLEAN /\ (whole[Caller] # NoRead => pc' = "whole" /\ during \subseteq during')
  BY <1>1 DEF IInv, Wholes
<1> QED
  BY <1>1, <1>2, <1>3, WholesKept DEF IInv

\* A step of one whole-file read.
LEMMA ReadWholes ==
  ASSUME IInv, NEW r \in Readers, NEW read, whole' = [whole EXCEPT ![r] = read],
         UNCHANGED <<worldVars, utf8>>,
         read # NoRead => Sound(read, disk) /\ (Honest => Faithful(read, disk, world.texts, kinds)),
         IF r = Caller THEN read # NoRead => pc' = "whole" /\ read.seen \subseteq during'
                       ELSE UNCHANGED <<pc, during>>,
         \A k \in DOMAIN cached' :
           SoundEntry(k.size, cached'[k]) /\ (Honest => FaithfulEntry(k.size, cached'[k], world.texts, kinds))
  PROVE  Wholes'
<1>1. UNCHANGED <<world, disk, kinds, utf8>>
  BY DEF worldVars
<1>2. Honest' => Honest
  BY <1>1 DEF Honest, Distinct, OneText
<1>3. whole \in [Readers -> Reads \cup {NoRead}]
  BY DEF IInv, Wholes
<1>4. read \in Reads \cup {NoRead}
  BY DEF Sound
<1>5. whole' \in [Readers -> Reads \cup {NoRead}] /\ \A q \in Readers : whole'[q] = IF q = r THEN read ELSE whole[q]
  BY <1>3, <1>4
<1>6. ASSUME NEW q \in Readers, whole'[q] # NoRead
      PROVE  /\ Sound(whole'[q], disk')
             /\ Honest' => Faithful(whole'[q], disk', world'.texts, kinds')
  BY <1>1, <1>2, <1>5, <1>6 DEF IInv, Wholes
<1>7. whole'[Caller] # NoRead => pc' = "whole" /\ whole'[Caller].seen \subseteq during'
  <2>1. Caller \in Readers
    BY DEF Readers
  <2> QED
    BY <1>5, <2>1 DEF IInv, Wholes
<1>8. utf8' \in BOOLEAN
  BY <1>1 DEF IInv, Wholes
<1> QED
  BY <1>1, <1>2, <1>5, <1>6, <1>7, <1>8 DEF Wholes

\* What the cache holds, of which the read in hand is one key.
LEMMA CachedSound ==
  ASSUME IInv, NEW k \in DOMAIN cached
  PROVE  SoundEntry(k.size, cached[k]) /\ (Honest => FaithfulEntry(k.size, cached[k], world.texts, kinds))
BY DEF IInv, Wholes

\* A read in hand.
LEMMA ReadInHand ==
  ASSUME IInv, NEW r \in Readers, whole[r] # NoRead
  PROVE  /\ Sound(whole[r], disk) /\ (Honest => Faithful(whole[r], disk, world.texts, kinds))
         /\ WholeView(r) = Holding(whole[r], disk) /\ WholeView(r) \in whole[r].seen
         /\ whole[r].seen \subseteq Seq(Lines) /\ whole[r].buf \in Seq(Lines)
         /\ r = Caller => pc = "whole" /\ whole[r].seen \subseteq during
BY DEF IInv, Wholes, WholeView, Holding, Sound, Reads
\* What changes none of this.
LEMMA StillInv ==
  ASSUME Inv, UNCHANGED <<worldVars, pc, group, readVars, outcome, source, during>>
  PROVE  Inv'
<1>1. /\ UNCHANGED <<world, disk, sidecar, minting, kinds, pc, group, cert, handle, buf, dict>>
      /\ UNCHANGED <<outcome, source, during>>
  BY DEF worldVars, readVars
<1>2. Honest' => Honest
  BY <1>1 DEF Honest, Distinct, OneText
<1>3. kinds' = kinds /\ {sidecar', minting'} = {sidecar, minting} /\ world' = world
  BY <1>1
<1>4. Honest => {sidecar, minting} \subseteq Certs(world.texts)
  BY DEF Inv, Truth
<1>5. {sidecar, minting} \subseteq Certs(Seq(Lines))
  BY DEF Inv, Types
<1> QED
  BY <1>1, <1>2, <1>3, <1>4, <1>5, SidecarInv DEF readVars

LEMMA FinishInv ==
  ASSUME Inv, NEW r \in Readers, NEW answer, NEW from, Finish(r, answer, from),
         r = Caller /\ Honest =>
           answer = Refusal("failed") \/ \E t \in during : answer = WholeFile(t, group),
         r = Caller /\ "rows" \in DOMAIN answer =>
           /\ {group} \cup ToSet(answer.rows) \subseteq LinesOf(from \ {Missing})
           /\ \/ from \subseteq during
              \/ \E u \in from \ {Missing}, t \in during \ {Missing} : Len(u) = Len(t)
  PROVE  Inv'
<1>1. CASE r = Caller
  BY <1>1, AnswerInv DEF Finish
<1>2. CASE r # Caller
  BY <1>2, StillInv DEF Finish, callVars
<1> QED
  BY <1>1, <1>2

\* A step of a read that goes on.
LEMMA StepInv ==
  ASSUME IInv, NEW r \in Readers, NEW read, Step(r, read), whole[r] # NoRead,
         Sound(read, disk), Honest => Faithful(read, disk, world.texts, kinds),
         read.seen = whole[r].seen
  PROVE  IInv'
<1>1. whole' = [whole EXCEPT ![r] = read] /\ UNCHANGED <<worldVars, callVars, cached>>
  BY DEF Step
<1>2. Inv'
  BY <1>1, StillInv DEF IInv, callVars
<1>3. r = Caller => pc' = "whole" /\ read.seen \subseteq during'
  BY <1>1, ReadInHand DEF callVars
<1>4. \A k \in DOMAIN cached' :
        SoundEntry(k.size, cached'[k]) /\ (Honest => FaithfulEntry(k.size, cached'[k], world.texts, kinds))
  BY <1>1, CachedSound
<1>5. Wholes'
  BY <1>1, <1>3, <1>4, ReadWholes DEF callVars
<1> QED
  BY <1>2, <1>5 DEF IInv

LEMMA OpenWholes ==
  ASSUME IInv, NEW r \in Readers, NEW encoded \in BOOLEAN, OpenWhole(r, encoded),
         UNCHANGED <<worldVars, pc, group, utf8, readVars, outcome, source, during, cached>>,
         r = Caller => pc = "whole"
  PROVE  IInv'
<1> DEFINE read == [point |-> "lookup", utf8 |-> encoded, size |-> Len(disk),
                    handle |-> Follows, buf |-> <<>>, seen |-> {disk}]
<1>1. /\ Readable(disk) /\ whole' = [whole EXCEPT ![r] = read] /\ disk # Missing
      /\ disk \in Seq(Lines) /\ Len(disk) \in 0..MaxFileBytes
  BY LimitAssumption DEF OpenWhole, Readable, IInv, Inv, Types
<1>2. Inv'
  BY StillInv DEF IInv
<1>3. Sound(read, disk)
  <2>1. read \in Reads
    BY <1>1 DEF Reads
  <2>2. Holding(read, disk) \in read.seen /\ Len(disk) = read.size /\ disk \in read.seen
    BY DEF Holding
  <2>3. ToSet(read.buf) = {}
    BY DEF ToSet
  <2>4. read.point # "publish"
    OBVIOUS
  <2> HIDE DEF read
  <2> QED
    BY <2>1, <2>2, <2>3, <2>4 DEF Sound
<1>4. Honest => Faithful(read, disk, world.texts, kinds)
  <2>1. IsPrefix(<<>>, disk)
    BY <1>1, EmptyPrefix
  <2>2. Honest => Known(disk, world.texts, kinds) /\ IsPrefix(disk, disk)
    BY <1>1, DiskKnown DEF IInv
  <2> QED
    BY <2>1, <2>2 DEF Faithful, Holding
<1>5. r = Caller => pc' = "whole" /\ read.seen \subseteq during'
  BY <1>1 DEF IInv, Inv, During
<1> HIDE DEF read
<1>6. \A k \in DOMAIN cached' :
        SoundEntry(k.size, cached'[k]) /\ (Honest => FaithfulEntry(k.size, cached'[k], world.texts, kinds))
  BY CachedSound
<1>7. Wholes'
  BY <1>1, <1>3, <1>4, <1>5, <1>6, ReadWholes
<1> QED
  BY <1>2, <1>7 DEF IInv

LEMMA MissInv ==
  ASSUME IInv, NEW r \in Readers, Miss(r)
  PROVE  IInv'
<1> DEFINE read == [whole[r] EXCEPT !.point = "slurp"]
<1>1. whole[r] # NoRead /\ Step(r, read)
  BY DEF Miss, Reading
<1>2. Sound(whole[r], disk) /\ (Honest => Faithful(whole[r], disk, world.texts, kinds))
  BY <1>1, ReadInHand
<1>3. /\ read \in Reads /\ read.point = "slurp"
      /\ read.seen = whole[r].seen /\ read.buf = whole[r].buf /\ read.size = whole[r].size
      /\ read.handle = whole[r].handle
  BY <1>2 DEF Sound, Reads
<1> HIDE DEF read
<1>4. Sound(read, disk) /\ (Honest => Faithful(read, disk, world.texts, kinds))
  BY <1>2, <1>3 DEF Sound, Faithful, Holding
<1> QED
  BY <1>1, <1>3, <1>4, StepInv

LEMMA SlurpInv ==
  ASSUME IInv, NEW r \in Readers, Slurp(r)
  PROVE  IInv'
<1>1. whole[r] # NoRead /\ whole[r].point = "slurp"
  BY DEF Slurp, Reading
<1>2. PICK n \in 1..Len(WholeView(r)) - Len(whole[r].buf) :
        Step(r, [whole[r] EXCEPT
          !.buf = whole[r].buf \o SubSeq(WholeView(r), Len(whole[r].buf) + 1, Len(whole[r].buf) + n)])
  BY DEF Slurp
<1> DEFINE more == whole[r].buf \o SubSeq(WholeView(r), Len(whole[r].buf) + 1, Len(whole[r].buf) + n)
           read == [whole[r] EXCEPT !.buf = more]
<1>3. /\ Sound(whole[r], disk) /\ (Honest => Faithful(whole[r], disk, world.texts, kinds))
      /\ WholeView(r) = Holding(whole[r], disk) /\ WholeView(r) \in whole[r].seen
      /\ whole[r].seen \subseteq Seq(Lines) /\ whole[r].buf \in Seq(Lines)
  BY <1>1, ReadInHand
<1>4. /\ more \in Seq(Lines)
      /\ ToSet(more) \subseteq ToSet(whole[r].buf) \cup ToSet(WholeView(r))
      /\ \A t \in Seq(Lines) : IsPrefix(whole[r].buf, t) /\ IsPrefix(WholeView(r), t) => IsPrefix(more, t)
  <2>1. WholeView(r) \in Seq(Lines)
    BY <1>3
  <2> QED
    BY <1>3, <2>1, ReadOn
<1>5. Step(r, read)
  BY <1>2
<1> HIDE DEF more
<1>6. /\ read \in Reads /\ read.point = "slurp"
      /\ read.seen = whole[r].seen /\ read.buf = more /\ read.size = whole[r].size
      /\ read.handle = whole[r].handle
  BY <1>1, <1>3, <1>4 DEF Sound, Reads
<1> HIDE DEF read
<1>7. Sound(read, disk)
  <2>1. ToSet(more) \subseteq LinesOf(whole[r].seen)
    BY <1>3, <1>4 DEF Sound, LinesOf
  <2> QED
    BY <1>3, <1>6, <2>1 DEF Sound, Holding
<1>8. Honest => Faithful(read, disk, world.texts, kinds)
  BY <1>3, <1>4, <1>6 DEF Faithful, Holding
<1> QED
  BY <1>1, <1>5, <1>6, <1>7, <1>8, StepInv

\* A slurp that is done and not short has the text its size names.
LEMMA SlurpedText ==
  ASSUME IInv, Honest, NEW r \in Readers, whole[r] # NoRead, ~Short(r)
  PROVE  /\ whole[r].buf \in whole[r].seen /\ Len(whole[r].buf) = whole[r].size
         /\ Known(whole[r].buf, world.texts, kinds)
         /\ IsPrefix(whole[r].buf, whole[r].buf) /\ IsPrefix(WholeView(r), whole[r].buf)
<1>1. /\ Faithful(whole[r], disk, world.texts, kinds) /\ WholeView(r) = Holding(whole[r], disk)
      /\ whole[r].seen \subseteq Seq(Lines) /\ whole[r].buf \in Seq(Lines)
  BY ReadInHand
<1>2. PICK t \in whole[r].seen :
        /\ Known(t, world.texts, kinds) /\ Len(t) = whole[r].size
        /\ IsPrefix(whole[r].buf, t) /\ IsPrefix(WholeView(r), t)
  BY <1>1 DEF Faithful
<1>3. whole[r].buf = t
  BY <1>1, <1>2, FullPrefix DEF Short
<1> QED
  BY <1>2, <1>3

LEMMA ParseInv ==
  ASSUME IInv, NEW r \in Readers, Parse(r)
  PROVE  IInv'
<1> DEFINE read == [whole[r] EXCEPT !.point = "publish"]
<1>1. whole[r] # NoRead /\ ~Short(r) /\ Parses(whole[r].buf) /\ Step(r, read)
  BY DEF Parse, AtEof, Reading
<1>2. Sound(whole[r], disk) /\ WholeView(r) = Holding(whole[r], disk)
  BY <1>1, ReadInHand
<1>3. /\ read \in Reads /\ read.point = "publish"
      /\ read.seen = whole[r].seen /\ read.buf = whole[r].buf /\ read.size = whole[r].size
      /\ read.handle = whole[r].handle
  BY <1>2 DEF Sound, Reads
<1> HIDE DEF read
<1>4. Sound(read, disk)
  BY <1>1, <1>2, <1>3 DEF Sound, Holding
<1>5. Honest => Faithful(read, disk, world.texts, kinds)
  <2>1. Holding(read, disk) = WholeView(r)
    BY <1>2, <1>3 DEF Holding
  <2> QED
    BY <1>1, <1>3, <2>1, SlurpedText DEF Faithful
<1> QED
  BY <1>1, <1>3, <1>4, <1>5, StepInv

\* The table of a parse is in the lines of the text parsed.
LEMMA WholeLines ==
  ASSUME NEW t \in Seq(Lines), NEW g, "rows" \in DOMAIN Whole(t, g)
  PROVE  {g} \cup ToSet(Whole(t, g).rows) \subseteq ToSet(t)
<1>1. \A why : "rows" \notin DOMAIN Refusal(why)
  BY DEF Refusal
<1>2. g \in Present(t) /\ Whole(t, g).rows = RowsOf(t, g)
  <2>1. \/ Whole(t, g) = Refusal("not found") \/ Whole(t, g) = Refusal("undeclared")
        \/ g \in Present(t) /\ \E fd : Whole(t, g) = Table(RowsOf(t, g), g, fd)
    BY DEF Whole
  <2>2. g \in Present(t) /\ \E fd : Whole(t, g) = Table(RowsOf(t, g), g, fd)
    BY <1>1, <2>1
  <2> QED
    BY <2>2 DEF Table
<1>3. ToSet(RowsOf(t, g)) \subseteq ToSet(t) /\ g \in ToSet(t)
  BY <1>2, RowsOfLines DEF Present
<1> QED
  BY <1>2, <1>3

\* A read that is done: it answers, and leaves the cache sound.
LEMMA FinishWholes ==
  ASSUME IInv, NEW r \in Readers, NEW answer, NEW from, Finish(r, answer, from),
         \A k \in DOMAIN cached' :
           SoundEntry(k.size, cached'[k]) /\ (Honest => FaithfulEntry(k.size, cached'[k], world.texts, kinds))
  PROVE  Wholes'
<1>1. whole' = [whole EXCEPT ![r] = NoRead]
  BY DEF Finish
<1>2. UNCHANGED <<worldVars, utf8>> /\ (r # Caller => UNCHANGED <<pc, during>>)
  BY DEF Finish, Answer, callVars
<1> QED
  BY <1>1, <1>2, ReadWholes

LEMMA HitInv ==
  ASSUME IInv, NEW r \in Readers, Hit(r)
  PROVE  IInv'
<1> DEFINE read == whole[r]
           entry == cached[Key(r)]
<1>1. /\ read # NoRead /\ Key(r) \in DOMAIN cached /\ Key(r).size = read.size /\ cached' = cached
      /\ Finish(r, Whole(entry.text, group), entry.seen)
  BY DEF Hit, Reading, Key
<1>2. /\ SoundEntry(read.size, entry)
      /\ Honest => FaithfulEntry(read.size, entry, world.texts, kinds)
  BY <1>1, CachedSound
<1>3. /\ Sound(read, disk) /\ (Honest => Faithful(read, disk, world.texts, kinds))
      /\ read.seen \subseteq Seq(Lines) /\ (r = Caller => read.seen \subseteq during)
  BY <1>1, ReadInHand
<1>4. /\ entry.text \in Seq(Lines) /\ entry.seen \subseteq Seq(Lines) /\ Parses(entry.text)
      /\ ToSet(entry.text) \subseteq LinesOf(entry.seen)
  BY <1>2 DEF SoundEntry
<1> HIDE DEF read, entry
<1>5. ASSUME r = Caller, Honest PROVE \E t \in during : Whole(entry.text, group) = WholeFile(t, group)
  <2>1. PICK t \in read.seen : Known(t, world.texts, kinds) /\ Len(t) = read.size
    BY <1>3, <1>5 DEF Faithful
  <2>2. t \in Seq(Lines) /\ t \in during /\ Len(t) <= MaxFileBytes /\ t # Missing
    BY <1>3, <1>5, <2>1, SentinelsAssumption, LimitAssumption DEF Sound, Reads
  <2>3. entry.text = t
    BY <1>2, <1>4, <1>5, <2>1, <2>2, KnownText DEF FaithfulEntry, IInv, Inv
  <2>4. WholeFile(t, group) = Whole(t, group)
    BY <1>4, <2>2, <2>3 DEF WholeFile, Readable
  <2> QED
    BY <2>2, <2>3, <2>4
<1>6. ASSUME r = Caller, "rows" \in DOMAIN Whole(entry.text, group)
      PROVE  /\ {group} \cup ToSet(Whole(entry.text, group).rows) \subseteq LinesOf(entry.seen \ {Missing})
             /\ \E u \in entry.seen \ {Missing}, t \in during \ {Missing} : Len(u) = Len(t)
  <2>1. Missing \notin entry.seen /\ entry.seen \ {Missing} = entry.seen /\ Missing \notin read.seen
    BY <1>3, <1>4, SentinelsAssumption
  <2>2. {group} \cup ToSet(Whole(entry.text, group).rows) \subseteq LinesOf(entry.seen)
    BY <1>4, <1>6, WholeLines
  <2>3. PICK u \in entry.seen : Len(u) = read.size
    BY <1>2 DEF SoundEntry
  <2>4. PICK t \in read.seen : Len(t) = read.size
    BY <1>3 DEF Sound
  <2>5. t \in during \ {Missing}
    BY <1>3, <1>6, <2>1, <2>4
  <2> QED
    BY <2>1, <2>2, <2>3, <2>4, <2>5
<1>7. Inv'
  BY <1>1, <1>5, <1>6, FinishInv DEF IInv
<1>8. Wholes'
  BY <1>1, CachedSound, FinishWholes
<1> QED
  BY <1>7, <1>8 DEF IInv

\* A read that refuses is one that could not read or parse what it names.
LEMMA RefusedInv ==
  ASSUME IInv, NEW r \in Readers, NEW why, Finish(r, Refusal(why), during), cached' = cached,
         r = Caller /\ Honest => why = "failed" \/ \E t \in during : Refusal(why) = WholeFile(t, group)
  PROVE  IInv'
<1>1. "rows" \notin DOMAIN Refusal(why)
  BY DEF Refusal
<1>2. Inv'
  BY <1>1, FinishInv DEF IInv
<1>3. Wholes'
  BY CachedSound, FinishWholes
<1> QED
  BY <1>2, <1>3 DEF IInv

LEMMA ParseFailsInv ==
  ASSUME IInv, NEW r \in Readers, ParseFails(r)
  PROVE  IInv'
<1>1. /\ whole[r] # NoRead /\ ~Short(r) /\ ~Parses(whole[r].buf) /\ cached' = cached
      /\ Finish(r, Refusal("unreadable"), during)
  BY DEF ParseFails, AtEof, Reading
<1>2. ASSUME r = Caller, Honest
      PROVE  \E t \in during : Refusal("unreadable") = WholeFile(t, group)
  <2>1. whole[r].buf \in during
    BY <1>1, <1>2, ReadInHand, SlurpedText
  <2> QED
    BY <1>1, <2>1 DEF WholeFile
<1> QED
  BY <1>1, <1>2, RefusedInv

LEMMA PublishInv ==
  ASSUME IInv, NEW r \in Readers, Publish(r)
  PROVE  IInv'
<1> DEFINE read == whole[r]
           entry == [text |-> read.buf, seen |-> read.seen]
<1>1. /\ read # NoRead /\ read.point = "publish" /\ Key(r).size = read.size
      /\ Finish(r, Whole(read.buf, group), read.seen)
      /\ cached' = [k \in DOMAIN cached \cup {Key(r)} |-> IF k = Key(r) THEN entry ELSE cached[k]]
  BY DEF Publish, Reading, Key
<1>2. /\ Sound(read, disk) /\ (Honest => Faithful(read, disk, world.texts, kinds))
      /\ read.seen \subseteq Seq(Lines) /\ read.buf \in Seq(Lines)
      /\ r = Caller => read.seen \subseteq during
  BY <1>1, ReadInHand
<1>3. Parses(read.buf) /\ ToSet(read.buf) \subseteq LinesOf(read.seen) /\ \E t \in read.seen : Len(t) = read.size
  BY <1>1, <1>2 DEF Sound
<1>4. Honest => Known(read.buf, world.texts, kinds) /\ Len(read.buf) = read.size /\ read.buf \in read.seen
  BY <1>1, <1>2 DEF Faithful
<1> HIDE DEF read
<1>5. SoundEntry(read.size, entry) /\ (Honest => FaithfulEntry(read.size, entry, world.texts, kinds))
  BY <1>2, <1>3, <1>4 DEF SoundEntry, FaithfulEntry
<1> HIDE DEF entry
<1>6. \A k \in DOMAIN cached' :
        SoundEntry(k.size, cached'[k]) /\ (Honest => FaithfulEntry(k.size, cached'[k], world.texts, kinds))
  BY <1>1, <1>5, CachedSound
<1>7. ASSUME r = Caller, Honest PROVE \E t \in during : Whole(read.buf, group) = WholeFile(t, group)
  <2>1. read.buf \in during /\ Len(read.buf) <= MaxFileBytes /\ read.buf # Missing
    BY <1>2, <1>4, <1>7, SentinelsAssumption, LimitAssumption DEF Sound, Reads
  <2> QED
    BY <1>3, <2>1 DEF WholeFile, Readable
<1>8. ASSUME r = Caller, "rows" \in DOMAIN Whole(read.buf, group)
      PROVE  /\ {group} \cup ToSet(Whole(read.buf, group).rows) \subseteq LinesOf(read.seen \ {Missing})
             /\ read.seen \subseteq during
  <2>1. read.seen \ {Missing} = read.seen
    BY <1>2, SentinelsAssumption
  <2> QED
    BY <1>2, <1>3, <1>8, <2>1, WholeLines
<1>9. Inv'
  BY <1>1, <1>7, <1>8, FinishInv DEF IInv
<1> QED
  BY <1>1, <1>6, <1>9, FinishWholes DEF IInv

\* A refusal without a read of the file.
LEMMA OpenRefusedInv ==
  ASSUME IInv, NEW why, Refused(why), why = "failed" \/ (why = "unreadable" /\ ~Readable(disk))
  PROVE  IInv'
<1>1. /\ pc = "whole" /\ whole[Caller] = NoRead /\ Answer(Refusal(why), during) /\ UNCHANGED wholeVars
  BY DEF Refused
<1>2. why = "failed" \/ \E t \in during : Refusal(why) = WholeFile(t, group)
  <2>1. disk \in during
    BY <1>1 DEF IInv, Inv, During
  <2> QED
    BY <2>1 DEF WholeFile
<1>3. "rows" \notin DOMAIN Refusal(why)
  BY DEF Refusal
<1>4. Inv'
  BY <1>1, <1>2, <1>3, AnswerInv DEF IInv
<1>5. Wholes'
  <2>1. UNCHANGED <<world, disk, kinds, utf8, cached, whole>>
    BY <1>1 DEF Answer, worldVars, wholeVars
  <2>2. Honest' => Honest
    BY <2>1 DEF Honest, Distinct, OneText
  <2> QED
    BY <1>1, <2>1, <2>2, WholesKept DEF IInv, Wholes
<1> QED
  BY <1>4, <1>5 DEF IInv

LEMMA EvictInv ==
  ASSUME IInv, NEW key, Evict(key)
  PROVE  IInv'
<1>1. Inv'
  BY StillInv DEF Evict, IInv, callVars
<1>2. /\ UNCHANGED <<world, disk, kinds, utf8, whole, pc, during>>
      /\ cached' = [k \in DOMAIN cached \ {key} |-> cached[k]]
  BY DEF Evict, worldVars, callVars, Restrict
<1>3. Honest' => Honest
  BY <1>2 DEF Honest, Distinct, OneText
<1>4. Wholes'
  BY <1>2, <1>3 DEF IInv, Wholes
<1> QED
  BY <1>1, <1>4 DEF IInv

\* A whole-file read, of whatever thread.
LEMMA ReadsWholeInv ==
  ASSUME IInv, NEW r \in Readers, ReadsWhole(r)
  PROVE  IInv'
<1>1. CASE SlurpShort(r)
  BY <1>1, RefusedInv DEF SlurpShort
<1> QED
  BY <1>1, HitInv, MissInv, SlurpInv, ParseFailsInv, ParseInv, PublishInv DEF ReadsWhole

-----------------------------------------------------------------------------
(* Every step *)

\* The steps of the fast path leave the whole-file reads alone.
LEMMA FastWholes ==
  ASSUME IInv,
         LoadSidecar \/ NoSidecar \/ OpenStale \/ OpenStandard \/ OpenCustom \/ ReadSome \/ ShortRead
           \/ BadSlice \/ DictRead \/ SliceRead \/ ReadFails
  PROVE  Wholes'
<1>1. pc # "whole"
  BY DEF LoadSidecar, NoSidecar, OpenStale, OpenStandard, OpenCustom, ReadSome, ShortRead,
         BadSlice, AllRead, DictRead, SliceRead, ReadFails
<1>2. (\E point : Goto(point)) \/ (SliceRead /\ UNCHANGED wholeVars)
  BY DEF LoadSidecar, NoSidecar, OpenStale, OpenStandard, OpenCustom, ReadSome, ShortRead,
         BadSlice, DictRead, SliceRead, ReadFails, FallBack, Fetch
<1>3. UNCHANGED <<worldVars, utf8, wholeVars>>
  BY <1>2 DEF Goto, SliceRead, Answer
<1> QED
  BY <1>1, <1>3, CallWholes

LEMMA WorldInv ==
  ASSUME IInv,
         \/ \E t \in world.texts \cup {Missing} : Replace(t)
         \/ \E n \in 0..MaxFileBytes : Truncate(n)
         \/ \E i \in 1..MaxFileBytes, line \in world.lines : Overwrite(i, line)
         \/ disk # Missing /\ \E c \in Certificates(disk) : Mint(c)
         \/ Minted
  PROVE  IInv'
<1>1. ASSUME NEW t \in world.texts \cup {Missing}, Replace(t) PROVE IInv'
  BY <1>1, ReplaceInv, WorldWholes DEF Replace, IInv
<1>2. ASSUME NEW n \in 0..MaxFileBytes, Truncate(n) PROVE IInv'
  <2>1. disk \in Seq(Lines) /\ n \in 0..Len(disk)
    BY <1>2, LimitAssumption DEF Truncate, IInv, Inv, Types
  <2>2. IsPrefix(disk, disk)
    BY <2>1 DEF IsPrefix
  <2>3. /\ SubSeq(disk, 1, n) \in Seq(Lines)
        /\ \A t \in Seq(Lines) : IsPrefix(disk, t) => IsPrefix(SubSeq(disk, 1, n), t)
    BY <2>1, <2>2, CutIsPrefix
  <2>4. World("truncate") /\ Put(SubSeq(disk, 1, n), Follows)
    BY <1>2 DEF Truncate
  <2>5. Wholes'
    BY <2>3, <2>4, WorldWholes
  <2> QED
    BY <1>2, <2>5, TruncateInv DEF IInv
<1>3. ASSUME NEW i, NEW line \in world.lines, Overwrite(i, line) PROVE IInv'
  <2>1. disk \in Seq(Lines) /\ line \in Lines /\ i \in 1..Len(disk)
    BY <1>3, WorldsAssumption DEF Overwrite, IInv, Inv, Types
  <2>2. [disk EXCEPT ![i] = line] \in Seq(Lines)
    BY <2>1, ExceptSeq
  <2>3. World("overwrite") /\ Put([disk EXCEPT ![i] = line], Follows)
    BY <1>3 DEF Overwrite
  <2>4. ~Honest'
    BY <2>3 DEF World, Honest
  <2>5. Wholes'
    BY <2>2, <2>3, <2>4, WorldWholes
  <2> QED
    BY <1>3, <2>5, OverwriteInv DEF IInv
<1>4. ASSUME NEW c \in Certificates(disk), Mint(c) PROVE IInv'
  <2>1. /\ UNCHANGED <<world, disk, cached, whole, utf8, pc, during>>
        /\ kinds' = kinds \cup {"mint"}
    BY <1>4 DEF Mint, World
  <2>2. Honest' => Honest
    BY <2>1 DEF Honest, Distinct, OneText
  <2>3. utf8' \in BOOLEAN /\ (whole[Caller] # NoRead => pc' = "whole" /\ during \subseteq during')
    BY <2>1 DEF IInv, Wholes
  <2>4. kinds \subseteq kinds'
    BY <2>1
  <2>5. Wholes'
    BY <2>1, <2>2, <2>3, <2>4, WholesKept DEF IInv
  <2> QED
    BY <1>4, <2>5, MintInv DEF IInv
<1>5. CASE Minted
  <2>1. UNCHANGED <<world, disk, kinds, utf8, pc, during, cached, whole>>
    BY <1>5 DEF Minted, callVars, wholeVars
  <2>2. Honest' => Honest
    BY <2>1 DEF Honest, Distinct, OneText
  <2>3. utf8' \in BOOLEAN /\ (whole[Caller] # NoRead => pc' = "whole" /\ during \subseteq during')
    BY <2>1 DEF IInv, Wholes
  <2>4. Wholes'
    BY <2>1, <2>2, <2>3, WholesKept DEF IInv
  <2> QED
    BY <1>5, <2>4, MintedInv DEF IInv
<1> QED
  BY <1>1, <1>2, <1>3, <1>4, <1>5

LEMMA NextInv ==
  ASSUME IInv, [Next]_vars
  PROVE  IInv'
<1>1. Caller \in Readers /\ world.others \subseteq Readers
  BY WorldsAssumption DEF Readers, IInv, Inv, Types
<1>2. ASSUME NEW key, Evict(key) PROVE IInv'
  BY <1>2, EvictInv
<1>3. ASSUME NEW r \in world.others, ReadsWhole(r) PROVE IInv'
  BY <1>1, <1>3, ReadsWholeInv
<1>4. ASSUME NEW r \in world.others, NEW encoded \in BOOLEAN, OtherOpen(r, encoded) PROVE IInv'
  <2>1. r # Caller
    BY <1>4, WorldsAssumption, ReadersAssumption DEF IInv, Inv, Types
  <2> QED
    BY <1>1, <1>4, <2>1, OpenWholes DEF OtherOpen
<1>5. ASSUME NEW r \in Readers, WholeFails(r) PROVE IInv'
  BY <1>5, RefusedInv DEF WholeFails
<1>6. ASSUME NEW g \in Groups, NEW encoded \in BOOLEAN, Call(g, encoded) PROVE IInv'
  <2>1. /\ UNCHANGED <<world, disk, kinds, cached, whole>> /\ utf8' \in BOOLEAN /\ pc = "idle"
    BY <1>6 DEF Call, worldVars, wholeVars
  <2>2. Honest' => Honest
    BY <2>1 DEF Honest, Distinct, OneText
  <2>3. Wholes'
    BY <2>1, <2>2, WholesKept DEF IInv, Wholes
  <2> QED
    BY <1>6, <2>3, CallInv DEF IInv
<1>7. CASE Progress
  <2>1. CASE LoadSidecar
    BY <2>1, LoadSidecarInv, FastWholes DEF IInv
  <2>2. CASE NoSidecar \/ OpenStale \/ ShortRead \/ BadSlice
    BY <2>2, FallBackInv, FastWholes DEF NoSidecar, OpenStale, ShortRead, BadSlice, AllRead, IInv
  <2>3. CASE OpenStandard
    BY <2>3, OpenStandardInv, FastWholes DEF IInv
  <2>4. CASE OpenCustom
    BY <2>4, OpenCustomInv, FastWholes DEF IInv
  <2>5. CASE ReadSome
    BY <2>5, ReadSomeInv, FastWholes DEF IInv
  <2>6. CASE DictRead
    BY <2>6, DictReadInv, FastWholes DEF IInv
  <2>7. CASE SliceRead
    BY <2>7, SliceReadInv, FastWholes DEF IInv
  <2>8. CASE OwnOpen
    <3>1. utf8 \in BOOLEAN
      BY DEF IInv, Wholes
    <3> QED
      BY <1>1, <2>8, <3>1, OpenWholes DEF OwnOpen, callVars
  <2>9. CASE OpenRefused
    BY <2>9, OpenRefusedInv DEF OpenRefused
  <2>10. CASE ReadsWhole(Caller)
    BY <1>1, <2>10, ReadsWholeInv
  <2> QED
    BY <1>7, <2>1, <2>2, <2>3, <2>4, <2>5, <2>6, <2>7, <2>8, <2>9, <2>10 DEF Progress
<1>8. CASE ReadFails
  BY <1>8, FallBackInv, FastWholes DEF ReadFails, IInv
<1>9. CASE OpenFails
  BY <1>9, OpenRefusedInv DEF OpenFails
<1>10. CASE UNCHANGED vars
  <2>1. /\ UNCHANGED <<worldVars, pc, group, readVars, outcome, source, during>>
        /\ UNCHANGED <<utf8, wholeVars>>
    BY <1>10 DEF vars, worldVars, readVars, wholeVars
  <2>2. Inv'
    BY <2>1, StillInv DEF IInv
  <2>3. Wholes'
    BY <2>1, CallWholes
  <2> QED
    BY <2>2, <2>3 DEF IInv
<1> QED
  BY <1>2, <1>3, <1>4, <1>5, <1>6, <1>7, <1>8, <1>9, <1>10, WorldInv DEF Next, Done

LEMMA InitWholes == Init => Wholes
<1> SUFFICES ASSUME Init PROVE Wholes
  OBVIOUS
<1>1. whole = [r \in Readers |-> NoRead] /\ cached = <<>> /\ utf8 \in BOOLEAN
  BY DEF Init
<1>2. DOMAIN cached = {} /\ Caller \in Readers
  BY <1>1 DEF Readers
<1> QED
  BY <1>1, <1>2 DEF Wholes

THEOREM Invariance == Spec => []IInv
<1>1. Init => IInv
  BY InitInv, InitWholes DEF IInv
<1> QED
  BY <1>1, NextInv, PTL DEF Spec

-----------------------------------------------------------------------------
(* The theorems *)

\* The state has its types, and a custom group is sliced with the file's
\* declarations in hand and no other group is (cert.rs, sliced_group).
THEOREM TypesHold == Spec => []TypeOK
<1>1. IInv => TypeOK
  BY DEF IInv, Inv, Types, TypeOK
<1> QED
  BY <1>1, Invariance, PTL

\* Over files that are replaced whole, by files their lengths tell apart, a
\* read answers what the whole-file read of a text the path held would have
\* answered, with any certificates, minted at any time (cert.rs).
THEOREM ReplacedIsNoWrongDataHolds == Spec => []ReplacedIsNoWrongData
<1>1. IInv => ReplacedIsNoWrongData
  BY DEF IInv, Inv, Truth, Honest, ReplacedIsNoWrongData
<1> QED
  BY <1>1, Invariance, PTL

\* The same over a file that is cut at any time, also between two partial reads
\* of one span (cert.rs, read_group_span).
THEOREM ShrunkIsNoWrongDataHolds == Spec => []ShrunkIsNoWrongData
<1>1. IInv => ShrunkIsNoWrongData
  BY DEF IInv, Inv, Truth, Honest, ShrunkIsNoWrongData
<1> QED
  BY <1>1, Invariance, PTL

\* Whatever is written into the file, a table has only rows, and only a group,
\* that were in the file while it was read, and it was read during the call or
\* for an earlier read of a file of that length (cert.rs, parse_group_slice;
\* cache.rs, get_or_try_insert).
THEOREM OnlyWhatWasThereHolds == Spec => []OnlyWhatWasThere
<1>1. IInv => OnlyWhatWasThere
  BY DEF IInv, Inv
<1> QED
  BY <1>1, Invariance, PTL
=============================================================================
