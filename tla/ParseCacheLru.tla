---------------------------- MODULE ParseCacheLru ----------------------------
(***************************************************************************)
(* ParseCache refines LruCache: the stamps are the recency order, the      *)
(* evictions still to come are already made, and a build that is not       *)
(* published yet is still being built.                                     *)
(***************************************************************************)
EXTENDS ParseCache

\* k and all that is stamped later.
Since(k) == {j \in DOMAIN map : map[k].tick <= map[j].tick}

UnitsOf(S) == UNION {{k} \X (1..Cost(k.size)) : k \in S}

\* What the eviction leaves.
Kept ==
  {k \in DOMAIN map :
     Cardinality(UnitsOf(Since(k))) <= cap \/ Cardinality(Since(k)) <= 1}

Held == [k \in Kept |-> map[k].parsed]
Older == {e \in Kept \X Kept : map[e[1]].tick < map[e[2]].tick}

PhaseOf(point) ==
  IF point \in {"idle", "evict"} THEN "idle"
  ELSE IF point = "lookup" THEN "asked" ELSE "building"

Phase == [w \in Workers |-> PhaseOf(pc[w])]

Answer == [w \in Workers |-> IF pc[w] = "insert" THEN NoParse ELSE parsed[w]]

Lru == INSTANCE LruCache WITH
         held <- Held, older <- Older, phase <- Phase, answer <- Answer

\* The stamped, incrementally charged, lock-protected map implements a
\* byte-capped LRU memo: a call is answered from the cache exactly when its key
\* is resident, each publication drops just the oldest entries that do not fit,
\* and whoever publishes a key last is who later calls are answered from.
ImplementsLru == Lru!Spec
=============================================================================
