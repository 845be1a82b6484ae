------------------------------ MODULE LruCache ------------------------------
(***************************************************************************)
(* What the parse cache promises (the module comment of src/src/cache.rs): *)
(* a byte-capped LRU memo, each operation one atomic step.  There are no   *)
(* stamps, totals or lock here: recency is an order on the keys, and what  *)
(* fits is said of a set of keys as a whole.                               *)
(***************************************************************************)
EXTENDS Integers, FiniteSets

CONSTANTS Workers, Paths, Sizes, Encodings, Parses, NoParse, Caps, MinEntryCost

VARIABLES
  held,     \* the resident keys, each with its parse
  older,    \* <<j, k>>: j was used before k was last used
  cap,
  phase,    \* "idle", "asked", or "building" for each worker
  key,
  answer    \* what the worker's last finished call returned

lruVars == <<held, older, cap, phase, key, answer>>

Key == [path: Paths, size: Sizes, encoding: Encodings]

Cost(k) == IF k.size > MinEntryCost THEN k.size ELSE MinEntryCost

\* What a set of keys costs: one unit per byte charged.
Charge(S) == Cardinality(UNION {{k} \X (1..Cost(k)) : k \in S})

Fits(S) == Charge(S) <= cap \/ Cardinality(S) <= 1

\* k and all that is newer, of the keys S in the order r.
From(S, r, k) == {j \in S : j = k \/ <<k, j>> \in r}

\* The newest keys that fit together; the newest one is always among them.
Newest(S, r) == {k \in S : Fits(From(S, r, k))}

\* k is used: it is newer than all that is held.
Used(k) ==
  {e \in older : k \notin {e[1], e[2]}} \cup {<<j, k>> : j \in DOMAIN held \ {k}}

Init ==
  /\ held = [k \in {} |-> NoParse]
  /\ older = {}
  /\ cap \in Caps
  /\ phase = [w \in Workers |-> "idle"]
  /\ key = [w \in Workers |-> CHOOSE k \in Key : TRUE]
  /\ answer = [w \in Workers |-> NoParse]

Ask(w, k) ==
  /\ phase[w] = "idle"
  /\ phase' = [phase EXCEPT ![w] = "asked"]
  /\ key' = [key EXCEPT ![w] = k]
  /\ answer' = [answer EXCEPT ![w] = NoParse]
  /\ UNCHANGED <<held, older, cap>>

\* A resident key is answered without a build and becomes the newest.
Hit(w) ==
  /\ phase[w] = "asked"
  /\ key[w] \in DOMAIN held
  /\ older' = Used(key[w])
  /\ answer' = [answer EXCEPT ![w] = held[key[w]]]
  /\ phase' = [phase EXCEPT ![w] = "idle"]
  /\ UNCHANGED <<held, cap, key>>

\* Only a miss builds.
Miss(w) ==
  /\ phase[w] = "asked"
  /\ key[w] \notin DOMAIN held
  /\ phase' = [phase EXCEPT ![w] = "building"]
  /\ UNCHANGED <<held, older, cap, key, answer>>

\* A build that failed leaves the cache alone.
Fail(w) ==
  /\ phase[w] = "building"
  /\ phase' = [phase EXCEPT ![w] = "idle"]
  /\ UNCHANGED <<held, older, cap, key, answer>>

\* k is published with p: the oldest keys that do not fit beside it are dropped.
Keep(k, p) ==
  LET kept == Newest(DOMAIN held \cup {k}, Used(k))
  IN /\ held' = [j \in kept |-> IF j = k THEN p ELSE held[j]]
     /\ older' = Used(k) \cap (kept \X kept)

\* A build that succeeded answers its own caller and, unless the cache is
\* disabled, becomes the newest entry: the last writer of a key wins.
Put(w, p) ==
  /\ phase[w] = "building"
  /\ \/ cap = 0 /\ UNCHANGED <<held, older>>
     \/ cap # 0 /\ Keep(key[w], p)
  /\ answer' = [answer EXCEPT ![w] = p]
  /\ phase' = [phase EXCEPT ![w] = "idle"]
  /\ UNCHANGED <<cap, key>>

Next ==
  \E w \in Workers :
    \/ \E k \in Key : Ask(w, k)
    \/ Hit(w) \/ Miss(w) \/ Fail(w)
    \/ \E p \in Parses : Put(w, p)

Spec == Init /\ [][Next]_lruVars
=============================================================================
