-------------------------- MODULE ParseCacheProofs --------------------------
(***************************************************************************)
(* Theorems about ParseCache, for every set of workers, keys, parses and   *)
(* caps and every bound on the calls; last, that it implements LruCache.   *)
(***************************************************************************)
EXTENDS ParseCacheLru, FiniteSetTheorems, TLAPS

(* What the total counts: units of charge.                                 *)

\* The units one entry contributes.
Block(k, cost) == {k} \X (1..cost)

LEMMA BlockCardinality ==
  ASSUME NEW k, NEW cost \in Nat
  PROVE  IsFiniteSet(Block(k, cost)) /\ Cardinality(Block(k, cost)) = cost
<1>1. IsFiniteSet({k}) /\ Cardinality({k}) = 1
  BY FS_Singleton
<1>2. IsFiniteSet(1..cost) /\ Cardinality(1..cost) = cost
  BY FS_Interval
<1>3. /\ IsFiniteSet({k} \X (1..cost))
      /\ Cardinality({k} \X (1..cost)) = Cardinality({k}) * Cardinality(1..cost)
  BY <1>1, <1>2, FS_Product
<1> QED
  BY <1>1, <1>2, <1>3 DEF Block

\* Two disjoint sets of units count separately.
LEMMA DisjointUnion ==
  ASSUME NEW S, NEW T, IsFiniteSet(S), IsFiniteSet(T), S \cap T = {}
  PROVE  /\ IsFiniteSet(S \cup T)
         /\ Cardinality(S \cup T) = Cardinality(S) + Cardinality(T)
<1>1. Cardinality(S) \in Nat /\ Cardinality(T) \in Nat
  BY FS_CardinalityType
<1>2. Cardinality(S \cap T) = 0
  BY FS_EmptySet
<1>3. /\ IsFiniteSet(S \cup T)
      /\ Cardinality(S \cup T) =
           Cardinality(S) + Cardinality(T) - Cardinality(S \cap T)
  BY FS_Union
<1> QED
  BY <1>1, <1>2, <1>3

\* Charging every key of a set the same amount.
LEMMA FlatCharge ==
  ASSUME NEW S, IsFiniteSet(S), NEW n \in Nat
  PROVE  /\ IsFiniteSet(S \X (1..n))
         /\ Cardinality(S \X (1..n)) = Cardinality(S) * n
<1>1. IsFiniteSet(1..n) /\ Cardinality(1..n) = n
  BY FS_Interval
<1>2. /\ IsFiniteSet(S \X (1..n))
      /\ Cardinality(S \X (1..n)) = Cardinality(S) * Cardinality(1..n)
  BY <1>1, FS_Product
<1> QED
  BY <1>1, <1>2

\* Dropping an entry gives back exactly its cost.
LEMMA UnitsDrop ==
  ASSUME NEW m, NEW k \in DOMAIN m, m[k].cost \in Nat, IsFiniteSet(Units(m))
  PROVE  LET rest == Restrict(m, DOMAIN m \ {k}) IN
         /\ IsFiniteSet(Units(rest))
         /\ Cardinality(Units(rest)) \in Nat
         /\ Cardinality(Units(m)) = Cardinality(Units(rest)) + m[k].cost
<1> DEFINE rest == Restrict(m, DOMAIN m \ {k})
<1>1. Units(m) = Units(rest) \cup Block(k, m[k].cost)
  BY DEF Units, Restrict, Block
<1>2. Units(rest) \cap Block(k, m[k].cost) = {}
  BY DEF Units, Restrict, Block
<1>3. IsFiniteSet(Units(rest))
  BY <1>1, FS_Subset
<1>4. Cardinality(Units(m)) = Cardinality(Units(rest)) + m[k].cost
  <2> HIDE DEF rest
  <2>1. /\ IsFiniteSet(Block(k, m[k].cost))
        /\ Cardinality(Block(k, m[k].cost)) = m[k].cost
    BY BlockCardinality
  <2> QED
    BY <1>1, <1>2, <1>3, <2>1, DisjointUnion
<1> QED
  BY <1>3, <1>4, FS_CardinalityType

\* Publishing an entry gives back the charge of the one it replaces.
LEMMA UnitsPut ==
  ASSUME NEW m, NEW k, NEW e, e.cost \in Nat, IsFiniteSet(Units(m)),
         k \in DOMAIN m => m[k].cost \in Nat,
         NEW put, put = [j \in DOMAIN m \cup {k} |-> IF j = k THEN e ELSE m[j]],
         NEW old, old = IF k \in DOMAIN m THEN m[k].cost ELSE 0
  PROVE  /\ IsFiniteSet(Units(put))
         /\ Cardinality(Units(put)) \in Nat
         /\ Cardinality(Units(put)) = Cardinality(Units(m)) - old + e.cost
<1> DEFINE rest == Restrict(m, DOMAIN m \ {k})
<1>1. /\ IsFiniteSet(Units(rest))
      /\ Cardinality(Units(rest)) \in Nat
      /\ Cardinality(Units(m)) = Cardinality(Units(rest)) + old
  <2>1. CASE k \in DOMAIN m
    BY <2>1, UnitsDrop
  <2>2. CASE k \notin DOMAIN m
    <3>1. Units(rest) = Units(m)
      BY <2>2 DEF Units, Restrict
    <3> QED
      BY <2>2, <3>1, FS_CardinalityType
  <2> QED
    BY <2>1, <2>2
<1>2. Units(put) = Units(rest) \cup Block(k, e.cost)
  <2>1. /\ DOMAIN put = DOMAIN rest \cup {k}
        /\ k \notin DOMAIN rest
        /\ put[k] = e
        /\ \A j \in DOMAIN rest : put[j] = rest[j]
    BY DEF Restrict
  <2> HIDE DEF rest
  <2>2. \A j \in DOMAIN put :
          Block(j, put[j].cost) = IF j = k THEN Block(k, e.cost) ELSE Block(j, rest[j].cost)
    BY <2>1
  <2>3. Units(put) = UNION {Block(j, put[j].cost) : j \in DOMAIN put}
    BY DEF Units, Block
  <2>4. Units(rest) = UNION {Block(j, rest[j].cost) : j \in DOMAIN rest}
    BY DEF Units, Block
  <2>5. ASSUME NEW u \in Units(put) PROVE u \in Units(rest) \cup Block(k, e.cost)
    <3>1. PICK j \in DOMAIN put : u \in Block(j, put[j].cost)
      BY <2>3
    <3>2. CASE j = k
      BY <2>2, <3>1, <3>2
    <3>3. CASE j # k
      BY <2>1, <2>2, <2>4, <3>1, <3>3
    <3> QED
      BY <3>2, <3>3
  <2>6. ASSUME NEW u \in Units(rest) PROVE u \in Units(put)
    <3>1. PICK j \in DOMAIN rest : u \in Block(j, rest[j].cost)
      BY <2>4
    <3>2. j \in DOMAIN put /\ u \in Block(j, put[j].cost)
      BY <2>1, <3>1
    <3> QED
      BY <2>3, <3>2
  <2>7. Block(k, e.cost) \subseteq Units(put)
    BY <2>1, <2>2, <2>3
  <2> QED
    BY <2>5, <2>6, <2>7
<1>3. Units(rest) \cap Block(k, e.cost) = {}
  BY DEF Units, Restrict, Block
<1>4. /\ IsFiniteSet(Units(put))
      /\ Cardinality(Units(put)) = Cardinality(Units(rest)) + e.cost
  <2> HIDE DEF rest
  <2>1. IsFiniteSet(Block(k, e.cost)) /\ Cardinality(Block(k, e.cost)) = e.cost
    BY BlockCardinality
  <2> QED
    BY <1>1, <1>2, <1>3, <2>1, DisjointUnion
<1>5. old \in Nat
  OBVIOUS
<1> HIDE DEF rest
<1>6. Cardinality(Units(put)) \in Nat
  BY <1>4, FS_CardinalityType
<1>7. Cardinality(Units(put)) = Cardinality(Units(m)) - old + e.cost
  BY <1>1, <1>4, <1>5
<1> QED
  BY <1>4, <1>6, <1>7

\* Units depend on the keys and the costs only.
LEMMA UnitsSame ==
  ASSUME NEW m, NEW n, DOMAIN n = DOMAIN m,
         \A k \in DOMAIN m : n[k].cost = m[k].cost
  PROVE  Units(n) = Units(m)
BY DEF Units

-----------------------------------------------------------------------------
(* The inductive invariant.                                                *)

\* The initial state satisfies it: nothing is resident, nobody has called.
LEMMA InitIndInv == Init => IndInv
<1> SUFFICES ASSUME Init PROVE IndInv
  OBVIOUS
<1>1. Units(map) = {} /\ DOMAIN map = {}
  BY DEF Init, Units
<1>2. Finite /\ ChargeExact
  BY <1>1, FS_EmptySet DEF Finite, ChargeExact, Init
<1>3. \E k : k \in Key
  <2>1. PICK p \in Paths, s \in Sizes, e \in Encodings : TRUE
    BY KeysAssumption
  <2>2. [path |-> p, size |-> s, encoding |-> e] \in Key
    BY DEF Key
  <2> QED
    BY <2>2
<1>4. TypeOK
  BY <1>1, <1>3, CapsAssumption, CallsAssumption DEF Init, TypeOK, Points, Entry
<1>5. LockHeld /\ Publishing /\ Charged /\ TicksDistinct /\ CapRespected
  BY <1>1, <1>4, WorkersAssumption, CapsAssumption
  DEF Init, LockHeld, Publishing, Charged, TicksDistinct, CapRespected, TypeOK
<1>6. DisabledHoldsNothing
  BY <1>1 DEF Init, DisabledHoldsNothing
<1> QED
  BY <1>2, <1>4, <1>5, <1>6 DEF IndInv

\* A step outside the critical sections' writes: the map and the total stay.
LEMMA QuietStep ==
  ASSUME IndInv, UNCHANGED <<map, total, cap>>, TypeOK',
         clock' >= clock, LockHeld', Publishing', lock' = lock
  PROVE  IndInv'
<1>1. Finite' /\ ChargeExact' /\ Charged' /\ DisabledHoldsNothing' /\ CapRespected'
  BY DEF IndInv, Finite, ChargeExact, Charged, DisabledHoldsNothing,
         CapRespected, Units
<1>2. TicksDistinct'
  BY DEF IndInv, TicksDistinct, TypeOK, Entry
<1> QED
  BY <1>1, <1>2 DEF IndInv

LEMMA EnterStep ==
  ASSUME IndInv, NEW w \in Workers, NEW k \in Key, Enter(w, k)
  PROVE  IndInv'
<1> USE DEF IndInv
<1>1. TypeOK'
  BY DEF TypeOK, Enter, Points
<1>2. LockHeld' /\ Publishing'
  BY DEF Enter, LockHeld, Publishing, TypeOK
<1> QED
  BY <1>1, <1>2, QuietStep DEF Enter, TypeOK

LEMMA LookupDisabledStep ==
  ASSUME IndInv, NEW w \in Workers, LookupDisabled(w)
  PROVE  IndInv'
<1> USE DEF IndInv
<1>1. TypeOK'
  BY DEF TypeOK, LookupDisabled, Points
<1>2. LockHeld' /\ Publishing'
  BY DEF LookupDisabled, LockHeld, Publishing, TypeOK
<1> QED
  BY <1>1, <1>2, QuietStep DEF LookupDisabled, TypeOK

LEMMA LookupMissStep ==
  ASSUME IndInv, NEW w \in Workers, LookupMiss(w)
  PROVE  IndInv'
<1> USE DEF IndInv
<1>1. TypeOK'
  BY DEF TypeOK, LookupMiss, Points
<1>2. LockHeld' /\ Publishing'
  BY WorkersAssumption DEF LookupMiss, LockHeld, Publishing, TypeOK
<1> QED
  BY <1>1, <1>2, QuietStep DEF LookupMiss, TypeOK

LEMMA BuildFailStep ==
  ASSUME IndInv, NEW w \in Workers, BuildFail(w)
  PROVE  IndInv'
<1> USE DEF IndInv
<1>1. TypeOK'
  BY DEF TypeOK, BuildFail, Points
<1>2. LockHeld' /\ Publishing'
  BY DEF BuildFail, LockHeld, Publishing, TypeOK
<1> QED
  BY <1>1, <1>2, QuietStep DEF BuildFail, TypeOK

LEMMA BuildOkStep ==
  ASSUME IndInv, NEW w \in Workers, NEW p \in Parses, BuildOk(w, p)
  PROVE  IndInv'
<1> USE DEF IndInv
<1>1. TypeOK'
  BY DEF TypeOK, BuildOk, Points
<1>2. LockHeld' /\ Publishing'
  BY DEF BuildOk, LockHeld, Publishing, TypeOK
<1> QED
  BY <1>1, <1>2, QuietStep DEF BuildOk, TypeOK

\* A hit only restamps one entry.
LEMMA LookupHitStep ==
  ASSUME IndInv, NEW w \in Workers, LookupHit(w)
  PROVE  IndInv'
<1> USE DEF IndInv
<1>1. /\ DOMAIN map' = DOMAIN map
      /\ \A k \in DOMAIN map :
           map'[k] = [map[k] EXCEPT !.tick = IF k = key[w] THEN clock + 1 ELSE @]
  BY DEF LookupHit, TypeOK, Entry
<1>2. \A k \in DOMAIN map : map'[k].cost = map[k].cost
  BY <1>1 DEF TypeOK, Entry
<1>3. TypeOK'
  <2>1. map' \in [DOMAIN map -> Entry]
    BY DEF LookupHit, TypeOK, Entry
  <2>2. parsed' \in [Workers -> Parses \cup {NoParse}]
    BY DEF LookupHit, TypeOK, Entry
  <2> QED
    BY <1>1, <2>1, <2>2 DEF LookupHit, TypeOK, Points
<1>4. Finite' /\ ChargeExact'
  <2>1. Units(map') = Units(map)
    BY <1>1, <1>2, UnitsSame
  <2> QED
    BY <1>1, <2>1 DEF Finite, ChargeExact, LookupHit
<1>5. TicksDistinct'
  BY <1>1 DEF TicksDistinct, LookupHit, TypeOK, Entry
<1>6. LockHeld' /\ Publishing'
  BY WorkersAssumption DEF LookupHit, LockHeld, Publishing, TypeOK
<1>7. Charged' /\ CapRespected' /\ DisabledHoldsNothing'
  BY <1>1, <1>2 DEF Charged, CapRespected, DisabledHoldsNothing, LookupHit
<1> QED
  BY <1>3, <1>4, <1>5, <1>6, <1>7

\* Publishing replaces or adds one entry, stamped newer than all others.
LEMMA InsertStep ==
  ASSUME IndInv, NEW w \in Workers, Insert(w)
  PROVE  IndInv'
<1> USE DEF IndInv
<1> DEFINE cost == Cost(key[w].size)
           e == [parsed |-> parsed[w], cost |-> cost, tick |-> clock + 1]
           old == IF key[w] \in DOMAIN map THEN map[key[w]].cost ELSE 0
<1>1. key[w] \in Key /\ parsed[w] \in Parses /\ cap # 0
  BY DEF TypeOK, Insert, Publishing
<1>2. cost \in Nat /\ cost >= MinEntryCost /\ e \in Entry
  BY <1>1, SizesAssumption, FloorAssumption DEF Cost, Key, Entry, TypeOK
<1> HIDE DEF cost
<1>3. /\ map' = [k \in DOMAIN map \cup {key[w]} |-> IF k = key[w] THEN e ELSE map[k]]
      /\ total' = total - old + cost
      /\ clock' = clock + 1
      /\ lock = NoWorker /\ lock' = w
      /\ pc' = [pc EXCEPT ![w] = "evict"]
      /\ UNCHANGED <<cap, key, parsed, calls>>
  BY DEF Insert, Publish, Put, OldCost, cost
<1>4. DOMAIN map' = DOMAIN map \cup {key[w]}
  BY <1>3
<1>5. e.cost = cost /\ e.tick = clock + 1 /\ e.parsed = parsed[w]
  OBVIOUS
<1> HIDE DEF e
<1>6. /\ IsFiniteSet(Units(map'))
      /\ Cardinality(Units(map')) \in Nat
      /\ Cardinality(Units(map')) = Cardinality(Units(map)) - old + e.cost
  <2>1. /\ e.cost \in Nat
        /\ IsFiniteSet(Units(map))
        /\ key[w] \in DOMAIN map => map[key[w]].cost \in Nat
    BY <1>2, <1>5 DEF Finite, TypeOK, Entry
  <2>2. map' = [j \in DOMAIN map \cup {key[w]} |-> IF j = key[w] THEN e ELSE map[j]]
    BY <1>3
  <2> DEFINE charged == IF key[w] \in DOMAIN map THEN map[key[w]].cost ELSE 0
  <2>3. old = charged
    OBVIOUS
  <2> HIDE DEF IndInv, old
  <2> QED
    BY <2>1, <2>2, <2>3, UnitsPut
<1>7. Finite' /\ ChargeExact' /\ total' \in Nat
  <2>1. IsFiniteSet(DOMAIN map')
    BY <1>4, FS_AddElement DEF Finite
  <2> QED
    BY <1>3, <1>5, <1>6, <2>1 DEF Finite, ChargeExact
<1>8. TypeOK'
  <2>1. DOMAIN map' \subseteq Key /\ map' \in [DOMAIN map' -> Entry]
    BY <1>1, <1>2, <1>3, <1>4 DEF TypeOK
  <2> QED
    BY <1>3, <1>7, <2>1 DEF TypeOK, Points
<1>9. TicksDistinct'
  BY <1>3, <1>4, <1>5 DEF TicksDistinct, TypeOK, Entry
<1>10. LockHeld'
  BY <1>3, WorkersAssumption DEF LockHeld, TypeOK
<1>11. Publishing'
  BY <1>1, <1>3, <1>4, <1>5, WorkersAssumption DEF Publishing, LockHeld, TypeOK
<1>12. Charged'
  BY <1>3, <1>4, <1>5 DEF Charged, cost
<1>13. CapRespected' /\ DisabledHoldsNothing'
  BY <1>1, <1>3, WorkersAssumption DEF CapRespected, DisabledHoldsNothing
<1> QED
  BY <1>7, <1>8, <1>9, <1>10, <1>11, <1>12, <1>13

\* The victim of an eviction is never the entry just published: another entry
\* is resident, and every other one is older.
LEMMA VictimIsOld ==
  ASSUME IndInv, NEW w \in Workers, EvictOne(w),
         NEW k \in DOMAIN map, IsVictim(k)
  PROVE  k # key[w]
<1> USE DEF IndInv
<1>1. key[w] \in DOMAIN map /\ map[key[w]].tick = clock
  BY DEF EvictOne, Publishing
<1>2. PICK j \in DOMAIN map : j # key[w]
  <2>1. SUFFICES ASSUME DOMAIN map = {key[w]} PROVE FALSE
    BY <1>1
  <2>2. Cardinality(DOMAIN map) = 1
    BY <2>1, FS_Singleton
  <2> QED
    BY <2>2 DEF EvictOne, OverCap
<1>3. map[j].tick <= clock /\ map[j].tick # clock
  BY <1>1, <1>2 DEF TicksDistinct
<1>4. map[j].tick < map[key[w]].tick /\ map[j].tick \in Nat
  BY <1>1, <1>3 DEF TypeOK, Entry
<1> QED
  BY <1>1, <1>2, <1>4 DEF IsVictim, TypeOK, Entry

LEMMA EvictOneStep ==
  ASSUME IndInv, NEW w \in Workers, EvictOne(w)
  PROVE  IndInv'
<1> USE DEF IndInv
<1>1. PICK k \in DOMAIN map :
        /\ IsVictim(k)
        /\ map' = Restrict(map, DOMAIN map \ {k})
        /\ total' = total - map[k].cost
  BY DEF EvictOne
<1>2. /\ DOMAIN map' = DOMAIN map \ {k}
      /\ \A j \in DOMAIN map' : map'[j] = map[j]
  BY <1>1 DEF Restrict
<1>3. k # key[w]
  BY <1>1, VictimIsOld
<1>4. Finite' /\ ChargeExact' /\ total' \in Nat
  <2>1. IsFiniteSet(DOMAIN map')
    BY <1>2, FS_RemoveElement DEF Finite
  <2>2. map[k].cost \in Nat
    BY DEF TypeOK, Entry
  <2>3. /\ IsFiniteSet(Units(map'))
        /\ Cardinality(Units(map')) \in Nat
        /\ Cardinality(Units(map)) = Cardinality(Units(map')) + map[k].cost
    BY <1>1, <2>2, UnitsDrop DEF Finite
  <2> QED
    BY <1>1, <2>1, <2>2, <2>3 DEF Finite, ChargeExact
<1>5. TypeOK'
  <2>1. DOMAIN map' \subseteq Key /\ map' \in [DOMAIN map' -> Entry]
    BY <1>1, <1>2 DEF TypeOK, Restrict
  <2> QED
    BY <1>4, <2>1 DEF TypeOK, EvictOne, Points
<1>6. TicksDistinct' /\ Charged' /\ LockHeld'
  BY <1>2 DEF TicksDistinct, Charged, LockHeld, EvictOne
<1>7. \A v \in Workers : pc[v] = "evict" => v = w
  BY DEF LockHeld, EvictOne
<1>8. Publishing'
  BY <1>2, <1>3, <1>7 DEF Publishing, EvictOne
<1>9. lock' = w /\ cap # 0 /\ cap' = cap
  BY DEF LockHeld, Publishing, EvictOne
<1>10. CapRespected' /\ DisabledHoldsNothing'
  BY <1>9, WorkersAssumption DEF CapRespected, DisabledHoldsNothing
<1> QED
  BY <1>4, <1>5, <1>6, <1>8, <1>10

LEMMA UnlockStep ==
  ASSUME IndInv, NEW w \in Workers, Unlock(w)
  PROVE  IndInv'
<1> USE DEF IndInv
<1>1. TypeOK'
  BY DEF TypeOK, Unlock, Points
<1>2. LockHeld' /\ Publishing'
  BY WorkersAssumption DEF Unlock, LockHeld, Publishing, TypeOK
<1>3. Finite' /\ ChargeExact' /\ Charged' /\ DisabledHoldsNothing' /\ TicksDistinct'
  BY DEF Unlock, Finite, ChargeExact, Charged, DisabledHoldsNothing,
         TicksDistinct, Units
<1>4. CapRespected'
  <2>1. Cardinality(DOMAIN map) \in Nat
    BY FS_CardinalityType DEF Finite
  <2> QED
    BY <2>1, CapsAssumption DEF CapRespected, Unlock, OverCap, TypeOK
<1> QED
  BY <1>1, <1>2, <1>3, <1>4

\* IndInv is inductive.
LEMMA NextIndInv == IndInv /\ [Next]_vars => IndInv'
<1> SUFFICES ASSUME IndInv, [Next]_vars PROVE IndInv'
  OBVIOUS
<1>1. CASE UNCHANGED vars
  BY <1>1 DEF vars, IndInv, TypeOK, Finite, LockHeld, Publishing, Charged,
              ChargeExact, TicksDistinct, CapRespected, DisabledHoldsNothing, Units
<1>2. ASSUME NEW w \in Workers, NEW k \in Key, Enter(w, k) PROVE IndInv'
  BY <1>2, EnterStep
<1>3. ASSUME NEW w \in Workers, Lookup(w) PROVE IndInv'
  BY <1>3, LookupDisabledStep, LookupHitStep, LookupMissStep DEF Lookup
<1>4. ASSUME NEW w \in Workers, Build(w) PROVE IndInv'
  BY <1>4, BuildFailStep, BuildOkStep DEF Build
<1>5. ASSUME NEW w \in Workers, Insert(w) \/ EvictOne(w) \/ Unlock(w) PROVE IndInv'
  BY <1>5, InsertStep, EvictOneStep, UnlockStep
<1> QED
  BY <1>1, <1>2, <1>3, <1>4, <1>5 DEF Next, Step, Done

LEMMA AlwaysIndInv == Spec => []IndInv
<1> QED
  BY InitIndInv, NextIndInv, PTL DEF Spec

-----------------------------------------------------------------------------
(* The theorems.                                                           *)

\* Type correctness: in particular the total stays a natural number, so the
\* unsigned subtractions of Insert and EvictOne never wrap.
THEOREM TypeCorrect == Spec => []TypeOK
<1>1. IndInv => TypeOK
  BY DEF IndInv
<1> QED
  BY <1>1, AlwaysIndInv, PTL

\* The kept total is the sum of the resident costs at every step.
THEOREM ChargeIsExact == Spec => []ChargeExact
<1>1. IndInv => ChargeExact
  BY DEF IndInv
<1> QED
  BY <1>1, AlwaysIndInv, PTL

\* Recency stamps are distinct, so the eviction victim is unique.
THEOREM TicksAreDistinct == Spec => []TicksDistinct
<1>1. IndInv => TicksDistinct
  BY DEF IndInv
<1> QED
  BY <1>1, AlwaysIndInv, PTL

\* Outside the critical sections the cache is within its cap or holds a single
\* entry.
THEOREM CapIsRespected == Spec => []CapRespected
<1>1. IndInv => CapRespected
  BY DEF IndInv
<1> QED
  BY <1>1, AlwaysIndInv, PTL

\* A cap of zero retains nothing.
THEOREM DisabledIsEmpty == Spec => []DisabledHoldsNothing
<1>1. IndInv => DisabledHoldsNothing
  BY DEF IndInv
<1> QED
  BY <1>1, AlwaysIndInv, PTL

\* The floor bounds the number of resident entries: each contributes at least
\* MinEntryCost units, so entries times floor is at most the total.
THEOREM EntriesAreBounded == Spec => []EntriesBounded
<1>1. IndInv => EntriesBounded
  <2> SUFFICES ASSUME IndInv, lock = NoWorker, ~(Cardinality(DOMAIN map) <= 1)
               PROVE  Cardinality(DOMAIN map) * MinEntryCost <= cap
    BY DEF EntriesBounded
  <2>1. IsFiniteSet(DOMAIN map) /\ IsFiniteSet(Units(map))
    BY DEF IndInv, Finite
  <2> DEFINE floors == (DOMAIN map) \X (1..MinEntryCost)
  <2>3. /\ IsFiniteSet(floors)
        /\ Cardinality(floors) = Cardinality(DOMAIN map) * MinEntryCost
    BY <2>1, FloorAssumption, FlatCharge
  <2>4. floors \subseteq Units(map)
    <3>1. SUFFICES ASSUME NEW k \in DOMAIN map, NEW n \in 1..MinEntryCost
                   PROVE  <<k, n>> \in Units(map)
      BY <2>1
    <3>2. n \in 1..map[k].cost
      <4>1. k.size \in Nat /\ map[k].cost = Cost(k.size)
        BY SizesAssumption DEF IndInv, Charged, TypeOK, Key
      <4> QED
        BY <4>1, FloorAssumption DEF Cost
    <3>3. <<k, n>> \in {k} \X (1..map[k].cost)
      BY <3>2
    <3> QED
      BY <3>3 DEF Units
  <2> HIDE DEF floors
  <2>5. Cardinality(floors) <= Cardinality(Units(map))
    BY <2>1, <2>4, FS_Subset
  <2>6. Cardinality(floors) \in Nat
    BY <2>3, FS_CardinalityType
  <2> QED
    BY <2>3, <2>5, <2>6, CapsAssumption
    DEF IndInv, ChargeExact, CapRespected, TypeOK
<1> QED
  BY <1>1, AlwaysIndInv, PTL

\* The parse a call publishes is still resident when the call returns.
THEOREM PublishedParseSurvives == Spec => PublishedSurvives
<1>1. ASSUME IndInv, NEW w \in Workers, Unlock(w)
      PROVE  key[w] \in DOMAIN map' /\ map'[key[w]].parsed = parsed[w]
  BY <1>1 DEF IndInv, Publishing, Unlock
<1>2. IndInv /\ [Next]_vars =>
        [\A w \in Workers : Unlock(w) =>
           /\ key[w] \in DOMAIN map'
           /\ map'[key[w]].parsed = parsed[w]]_vars
  BY <1>1
<1> QED
  BY <1>2, AlwaysIndInv, PTL DEF Spec, PublishedSurvives

\* Eviction drops only entries older than everything it keeps.
THEOREM EvictionIsLru == Spec => EvictsOldest
<1> DEFINE OldestGoes == \A gone \in DOMAIN map \ DOMAIN map', kept \in DOMAIN map' :
                           map[gone].tick < map'[kept].tick
<1>1. ASSUME IndInv, NEW w \in Workers, EvictOne(w) PROVE OldestGoes
  <2>1. PICK k \in DOMAIN map :
          /\ IsVictim(k)
          /\ map' = Restrict(map, DOMAIN map \ {k})
    BY <1>1 DEF EvictOne
  <2>2. /\ DOMAIN map' = DOMAIN map \ {k}
        /\ \A j \in DOMAIN map' : map'[j] = map[j]
    BY <2>1 DEF Restrict
  <2>3. \A j \in DOMAIN map : j # k => map[k].tick < map[j].tick
    BY <1>1, <2>1 DEF IsVictim, IndInv, TicksDistinct, TypeOK, Entry
  <2> QED
    BY <2>2, <2>3
<1>2. ASSUME IndInv, NEW w \in Workers, Insert(w) PROVE OldestGoes
  BY <1>2 DEF Insert, Publish, Put
<1>3. ASSUME IndInv, NEW w \in Workers, LookupHit(w) PROVE OldestGoes
  BY <1>3 DEF LookupHit
<1>4. IndInv /\ Next => OldestGoes
  <2> SUFFICES ASSUME IndInv, Next PROVE OldestGoes
    OBVIOUS
  <2> HIDE DEF OldestGoes
  <2>1. CASE UNCHANGED map
    BY <2>1 DEF OldestGoes
  <2>2. CASE \E w \in Workers : LookupHit(w) \/ Insert(w) \/ EvictOne(w)
    BY <2>2, <1>1, <1>2, <1>3
  <2> QED
    BY <2>1, <2>2 DEF Next, Step, Lookup, Build, Enter, LookupDisabled, LookupMiss,
       BuildFail, BuildOk, Unlock, Done, vars
<1>5. IndInv /\ [Next]_vars => [OldestGoes]_vars
  BY <1>4
<1> QED
  BY <1>5, AlwaysIndInv, PTL DEF Spec, EvictsOldest

-----------------------------------------------------------------------------
(* The refinement of LruCache.                                             *)

LEMMA CardinalityIs == \A S : Lru!Cardinality(S) = Cardinality(S)
BY DEF Lru!Cardinality, Cardinality

\* The abstract cache charges a set of keys as the concrete one does.
LEMMA ChargeIs == ASSUME NEW S PROVE Lru!Charge(S) = Cardinality(UnitsOf(S))
<1> DEFINE units == UNION {{k} \X (1..Lru!Cost(k)) : k \in S}
<1>1. \A k : Lru!Cost(k) = Cost(k.size)
  BY DEF Lru!Cost, Cost
<1>2. units = UnitsOf(S)
  BY <1>1 DEF UnitsOf
<1>3. Lru!Charge(S) = Cardinality(units)
  BY CardinalityIs DEF Lru!Charge
<1> QED
  BY <1>2, <1>3

\* Some of the entries cost no more than all of them.
LEMMA PartCharge ==
  ASSUME IndInv, NEW S, S \subseteq DOMAIN map
  PROVE  /\ Cardinality(UnitsOf(S)) \in Nat /\ Cardinality(UnitsOf(S)) <= total
         /\ Cardinality(S) \in Nat /\ Cardinality(S) <= Cardinality(DOMAIN map)
<1>1. UnitsOf(S) \subseteq Units(map)
  BY DEF UnitsOf, Units, IndInv, Charged
<1>2. /\ IsFiniteSet(Units(map)) /\ total = Cardinality(Units(map))
      /\ IsFiniteSet(DOMAIN map)
  BY DEF IndInv, Finite, ChargeExact
<1> QED
  BY <1>1, <1>2, FS_Subset, FS_CardinalityType

\* While the mutex is free nothing is left to evict.
LEMMA AllKept == IndInv /\ lock = NoWorker => Kept = DOMAIN map
<1> SUFFICES ASSUME IndInv, lock = NoWorker
             PROVE  Kept = DOMAIN map
  OBVIOUS
<1>1. total <= cap \/ Cardinality(DOMAIN map) <= 1
  BY DEF IndInv, CapRespected
<1>2. total \in Nat /\ cap \in Nat /\ Cardinality(DOMAIN map) \in Nat
  BY CapsAssumption, FS_CardinalityType DEF IndInv, TypeOK, Finite
<1>3. ASSUME NEW k \in DOMAIN map
      PROVE  Cardinality(UnitsOf(Since(k))) <= cap \/ Cardinality(Since(k)) <= 1
  <2>1. Since(k) \subseteq DOMAIN map
    BY DEF Since
  <2> DEFINE part == Cardinality(UnitsOf(Since(k)))
             some == Cardinality(Since(k))
  <2>2. /\ part \in Nat /\ part <= total
        /\ some \in Nat /\ some <= Cardinality(DOMAIN map)
    BY <2>1, PartCharge
  <2> HIDE DEF part, some
  <2>3. part <= cap \/ some <= 1
    BY <1>1, <1>2, <2>2
  <2> QED
    BY <2>3 DEF part, some
<1> QED
  BY <1>3 DEF Kept

LEMMA PhaseMoves ==
  ASSUME TypeOK, NEW w \in Workers, NEW at, pc' = [pc EXCEPT ![w] = at]
  PROVE  Phase' = [Phase EXCEPT ![w] = PhaseOf(at)]
<1>1. \A v \in Workers : pc'[v] = IF v = w THEN at ELSE pc[v]
  BY DEF TypeOK
<1>2. Phase' = [v \in Workers |-> IF v = w THEN PhaseOf(at) ELSE PhaseOf(pc[v])]
  <2>1. \A v \in Workers : PhaseOf(pc'[v]) = IF v = w THEN PhaseOf(at) ELSE PhaseOf(pc[v])
    BY <1>1
  <2>2. Phase' = [v \in Workers |-> PhaseOf(pc'[v])]
    BY DEF Phase, PhaseOf
  <2> QED
    BY <2>1, <2>2
<1> QED
  BY <1>2 DEF Phase

LEMMA AnswerMoves ==
  ASSUME TypeOK, NEW w \in Workers, NEW at, pc' = [pc EXCEPT ![w] = at],
         NEW p, parsed' = [parsed EXCEPT ![w] = p]
  PROVE  Answer' = [Answer EXCEPT ![w] = IF at = "insert" THEN NoParse ELSE p]
<1>1. \A v \in Workers : /\ pc'[v] = IF v = w THEN at ELSE pc[v]
                         /\ parsed'[v] = IF v = w THEN p ELSE parsed[v]
  BY DEF TypeOK
<1> QED
  BY <1>1 DEF Answer

\* A point of the call that neither is nor was the publication's.
LEMMA AnswerStays ==
  ASSUME TypeOK, NEW w \in Workers, NEW at, pc' = [pc EXCEPT ![w] = at],
         pc[w] # "insert", at # "insert", UNCHANGED parsed
  PROVE  UNCHANGED Answer
<1>1. \A v \in Workers : pc'[v] = IF v = w THEN at ELSE pc[v]
  BY DEF TypeOK
<1> QED
  BY <1>1 DEF Answer

LEMMA MapStays ==
  ASSUME UNCHANGED <<map, cap>>
  PROVE  UNCHANGED <<Held, Older>>
<1>1. UNCHANGED Kept
  BY DEF Kept, Since, UnitsOf
<1> QED
  BY <1>1 DEF Held, Older

LEMMA EnterIsAsk ==
  ASSUME IndInv, NEW w \in Workers, NEW k \in Key, Enter(w, k)
  PROVE  Lru!Ask(w, k)
<1>1. TypeOK
  BY DEF IndInv
<1>2. UNCHANGED <<Held, Older, cap>>
  BY MapStays DEF Enter
<1>3. Phase[w] = "idle" /\ Phase' = [Phase EXCEPT ![w] = "asked"]
  BY <1>1, PhaseMoves DEF Enter, Phase, PhaseOf
<1>4. Answer' = [Answer EXCEPT ![w] = NoParse]
  BY <1>1, AnswerMoves DEF Enter
<1> QED
  BY <1>2, <1>3, <1>4 DEF Lru!Ask, Enter

\* A miss of a disabled cache and of an enabled one.
LEMMA MissIsMiss ==
  ASSUME IndInv, NEW w \in Workers, LookupDisabled(w) \/ LookupMiss(w)
  PROVE  Lru!Miss(w)
<1>1. TypeOK
  BY DEF IndInv
<1>2. UNCHANGED <<Held, Older, cap>>
  BY MapStays DEF LookupDisabled, LookupMiss
<1>3. /\ pc[w] = "lookup" /\ pc' = [pc EXCEPT ![w] = "build"]
      /\ UNCHANGED <<parsed, key>>
  BY DEF LookupDisabled, LookupMiss
<1>4. Phase[w] = "asked" /\ Phase' = [Phase EXCEPT ![w] = "building"]
  <2>1. Phase' = [Phase EXCEPT ![w] = PhaseOf("build")]
    BY <1>1, <1>3, PhaseMoves
  <2> QED
    BY <1>3, <2>1 DEF Phase, PhaseOf
<1>5. UNCHANGED Answer
  BY <1>1, <1>3, AnswerStays
<1>6. key[w] \notin DOMAIN map
  BY DEF LookupDisabled, LookupMiss, IndInv, DisabledHoldsNothing
<1>7. key[w] \notin DOMAIN Held
  BY <1>6 DEF Held, Kept
<1> QED
  BY <1>2, <1>3, <1>4, <1>5, <1>7 DEF Lru!Miss

LEMMA BuildFailIsFail ==
  ASSUME IndInv, NEW w \in Workers, BuildFail(w)
  PROVE  Lru!Fail(w)
<1>1. TypeOK
  BY DEF IndInv
<1>2. UNCHANGED <<Held, Older, cap>>
  BY MapStays DEF BuildFail
<1>3. Phase[w] = "building" /\ Phase' = [Phase EXCEPT ![w] = "idle"]
  BY <1>1, PhaseMoves DEF BuildFail, Phase, PhaseOf
<1>4. UNCHANGED Answer
  BY <1>1, AnswerStays DEF BuildFail
<1> QED
  BY <1>2, <1>3, <1>4 DEF Lru!Fail, BuildFail

\* A build is put at once where the cache is disabled, and else held back until
\* it is published.
LEMMA BuildOkIsPut ==
  ASSUME IndInv, NEW w \in Workers, NEW p \in Parses, BuildOk(w, p)
  PROVE  Lru!Put(w, p) \/ UNCHANGED Lru!lruVars
<1>1. TypeOK
  BY DEF IndInv
<1>2. UNCHANGED <<Held, Older, cap, key>>
  BY MapStays DEF BuildOk
<1>3. Phase[w] = "building"
  BY DEF BuildOk, Phase, PhaseOf
<1>4. CASE cap = 0
  <2>1. Phase' = [Phase EXCEPT ![w] = "idle"]
    BY <1>1, <1>4, PhaseMoves DEF BuildOk, PhaseOf
  <2>2. Answer' = [Answer EXCEPT ![w] = p]
    <3>1. pc' = [pc EXCEPT ![w] = "idle"] /\ parsed' = [parsed EXCEPT ![w] = p]
      BY <1>4 DEF BuildOk
    <3>2. Answer' = [Answer EXCEPT ![w] = IF "idle" = "insert" THEN NoParse ELSE p]
      BY <1>1, <3>1, AnswerMoves
    <3> QED
      BY <3>2
  <2> QED
    BY <1>2, <1>3, <1>4, <2>1, <2>2 DEF Lru!Put
<1>5. CASE cap # 0
  <2>1. Phase' = [Phase EXCEPT ![w] = "building"]
    <3>1. pc' = [pc EXCEPT ![w] = "insert"]
      BY <1>5 DEF BuildOk
    <3>2. Phase' = [Phase EXCEPT ![w] = PhaseOf("insert")]
      BY <1>1, <3>1, PhaseMoves
    <3> QED
      BY <3>2 DEF PhaseOf
  <2>2. Answer' = [Answer EXCEPT ![w] = NoParse]
    BY <1>1, <1>5, AnswerMoves DEF BuildOk
  <2>3. Answer[w] = NoParse
    BY DEF BuildOk, Answer, IndInv, Publishing
  <2>4. UNCHANGED Phase /\ UNCHANGED Answer
    BY <1>3, <2>1, <2>2, <2>3 DEF Phase, Answer
  <2> QED
    BY <1>2, <2>4 DEF Lru!lruVars
<1> QED
  BY <1>4, <1>5

LEMMA UnlockIsSilent ==
  ASSUME IndInv, NEW w \in Workers, Unlock(w)
  PROVE  UNCHANGED Lru!lruVars
<1>1. TypeOK
  BY DEF IndInv
<1>2. UNCHANGED <<Held, Older, cap, key>>
  BY MapStays DEF Unlock
<1>3. Phase[w] = "idle" /\ Phase' = [Phase EXCEPT ![w] = "idle"]
  BY <1>1, PhaseMoves DEF Unlock, Phase, PhaseOf
<1>4. UNCHANGED Phase
  BY <1>3 DEF Phase
<1>5. UNCHANGED Answer
  BY <1>1, AnswerStays DEF Unlock
<1> QED
  BY <1>2, <1>4, <1>5 DEF Lru!lruVars

\* What fits, abstractly, in terms of the concrete charge.
LEMMA FitsIs ==
  ASSUME NEW S
  PROVE  Lru!Fits(S) <=> Cardinality(UnitsOf(S)) <= cap \/ Cardinality(S) <= 1
BY ChargeIs, CardinalityIs DEF Lru!Fits

\* A use of k puts it after everything that is held.
LEMMA UseIs ==
  ASSUME IndInv, Kept = DOMAIN map, NEW k, NEW new, NEW i \in DOMAIN map \cup {k},
         NEW j \in DOMAIN map \cup {k},
         new = [n \in DOMAIN map \cup {k} |-> IF n = k THEN clock + 1 ELSE map[n].tick]
  PROVE  <<i, j>> \in Lru!Used(k) <=> new[i] < new[j]
<1>1. \A n \in DOMAIN map : map[n].tick \in Nat /\ map[n].tick <= clock
  BY DEF IndInv, TypeOK, Entry, TicksDistinct
<1>2. clock \in Nat
  BY DEF IndInv, TypeOK
<1>3. <<i, j>> \in Older <=> i \in DOMAIN map /\ j \in DOMAIN map /\ map[i].tick < map[j].tick
  BY DEF Older
<1>4. DOMAIN Held = DOMAIN map
  BY DEF Held
<1>5. <<i, j>> \in Lru!Used(k) <=>
        \/ <<i, j>> \in Older /\ i # k /\ j # k
        \/ i \in DOMAIN map /\ i # k /\ j = k
  BY <1>4 DEF Lru!Used
<1>6. CASE j = k
  BY <1>1, <1>2, <1>5, <1>6
<1>7. CASE j # k /\ i = k
  BY <1>1, <1>2, <1>5, <1>7
<1>8. CASE j # k /\ i # k
  BY <1>1, <1>2, <1>3, <1>5, <1>8
<1> QED
  BY <1>6, <1>7, <1>8


LEMMA HitIsHit ==
  ASSUME IndInv, IndInv', NEW w \in Workers, LookupHit(w)
  PROVE  Lru!Hit(w)
<1> DEFINE k == key[w]
<1>1. TypeOK /\ k \in DOMAIN map
  BY DEF IndInv, LookupHit
<1>2. Kept = DOMAIN map
  BY AllKept DEF LookupHit
<1>3. Kept' = DOMAIN map'
  <2>1. (IndInv /\ lock = NoWorker => Kept = DOMAIN map)'
    BY AllKept, PTL
  <2> QED
    BY <2>1 DEF LookupHit
<1>4. /\ DOMAIN map' = DOMAIN map
      /\ \A j \in DOMAIN map : /\ map'[j].parsed = map[j].parsed
                               /\ map'[j].tick = IF j = k THEN clock + 1 ELSE map[j].tick
  BY <1>1 DEF LookupHit, TypeOK, Entry
<1>5. Held' = Held /\ DOMAIN Held = DOMAIN map
  BY <1>2, <1>3, <1>4 DEF Held
<1>6. Older' = Lru!Used(k)
  <2> DEFINE new == [n \in DOMAIN map \cup {k} |-> IF n = k THEN clock + 1 ELSE map[n].tick]
  <2>1. \A i, j \in DOMAIN map : <<i, j>> \in Lru!Used(k) <=> new[i] < new[j]
    <3> HIDE DEF k, new
    <3>0. new = [n \in DOMAIN map \cup {k} |-> IF n = k THEN clock + 1 ELSE map[n].tick]
      BY DEF new
    <3>1. ASSUME NEW i \in DOMAIN map \cup {k}, NEW j \in DOMAIN map \cup {k}
          PROVE  <<i, j>> \in Lru!Used(k) <=> new[i] < new[j]
      BY <1>2, <3>0, UseIs
    <3> QED
      BY <3>1
  <2>2. \A j \in DOMAIN map : map'[j].tick = new[j]
    BY <1>4
  <2> DEFINE D == DOMAIN map
  <2>3. Kept = D /\ Kept' = D /\ k \in D /\ DOMAIN Held = D
    BY <1>1, <1>2, <1>3, <1>4, <1>5
  <2> HIDE DEF k, new, D
  <2>4. Older' = {e \in D \X D : map'[e[1]].tick < map'[e[2]].tick}
    BY <2>3 DEF Older
  <2>5. Lru!Used(k) \subseteq D \X D
    <3>1. Older \subseteq Kept \X Kept
      BY DEF Older
    <3>2. Lru!Used(k) = {e \in Older : k \notin {e[1], e[2]}} \cup {<<j, k>> : j \in D \ {k}}
      BY <2>3 DEF Lru!Used
    <3>3. {<<j, k>> : j \in D \ {k}} \subseteq D \X D
      BY <2>3
    <3> QED
      BY <2>3, <3>1, <3>2, <3>3
  <2>6. ASSUME NEW i \in D, NEW j \in D
        PROVE  <<i, j>> \in Older' <=> <<i, j>> \in Lru!Used(k)
    <3>1. <<i, j>> \in Lru!Used(k) <=> new[i] < new[j]
      BY <2>1 DEF D
    <3>2. map'[i].tick = new[i] /\ map'[j].tick = new[j]
      BY <2>2 DEF D
    <3> QED
      BY <2>4, <3>1, <3>2
  <2>7. Older' \subseteq D \X D
    BY <2>4
  <2> QED
    BY <2>5, <2>6, <2>7
<1>7. pc[w] = "lookup" /\ pc' = [pc EXCEPT ![w] = "idle"]
      /\ parsed' = [parsed EXCEPT ![w] = map[k].parsed] /\ UNCHANGED <<cap, key>>
  BY DEF LookupHit
<1>8. Phase[w] = "asked" /\ Phase' = [Phase EXCEPT ![w] = "idle"]
  <2>1. Phase' = [Phase EXCEPT ![w] = PhaseOf("idle")]
    BY <1>1, <1>7, PhaseMoves
  <2> QED
    BY <1>7, <2>1 DEF Phase, PhaseOf
<1>9. Answer' = [Answer EXCEPT ![w] = Held[k]]
  <2>1. Answer' = [Answer EXCEPT ![w] = IF "idle" = "insert" THEN NoParse ELSE map[k].parsed]
    BY <1>1, <1>7, AnswerMoves
  <2>2. Held[k] = map[k].parsed
    BY <1>1, <1>2 DEF Held
  <2> QED
    BY <2>1, <2>2
<1> QED
  BY <1>1, <1>5, <1>6, <1>7, <1>8, <1>9 DEF Lru!Hit

\* A publication drops at once what the eviction is going to drop.
LEMMA InsertIsPut ==
  ASSUME IndInv, IndInv', NEW w \in Workers, Insert(w)
  PROVE  Lru!Put(w, parsed[w])
<1> DEFINE k == key[w]
           all == DOMAIN map \cup {k}
           new == [n \in all |-> IF n = k THEN clock + 1 ELSE map[n].tick]
           kept == Lru!Newest(all, Lru!Used(k))
<1>1. TypeOK /\ parsed[w] \in Parses /\ cap # 0
  BY DEF IndInv, Insert, Publishing
<1>2. Kept = DOMAIN map
  BY AllKept DEF Insert
<1>3. /\ DOMAIN map' = all
      /\ \A j \in all : map'[j] = IF j = k THEN [parsed |-> parsed[w], cost |-> Cost(k.size), tick |-> clock + 1]
                                 ELSE map[j]
  BY DEF Insert, Publish, Put
<1>4. \A j \in all : /\ map'[j].tick = new[j]
                    /\ map'[j].parsed = IF j = k THEN parsed[w] ELSE map[j].parsed
  BY <1>3
<1>5. \A i, j \in all : <<i, j>> \in Lru!Used(k) <=> new[i] < new[j]
  <2> HIDE DEF k
  <2> QED
    BY <1>2, UseIs
<1>6. \A j \in all : new[j] \in Nat /\ \A i \in all : new[i] = new[j] => i = j
  <2>1. \A j \in DOMAIN map : map[j].tick \in Nat /\ map[j].tick <= clock
    BY DEF IndInv, TypeOK, Entry, TicksDistinct
  <2>2. \A i, j \in DOMAIN map : map[i].tick = map[j].tick => i = j
    BY DEF IndInv, TicksDistinct
  <2> QED
    BY <1>1, <2>1, <2>2 DEF TypeOK
<1> HIDE DEF k, new, all
<1>7. ASSUME NEW j \in all PROVE Since(j)' = Lru!From(all, Lru!Used(k), j)
  <2>1. Since(j)' = {i \in all : new[j] <= new[i]}
    BY <1>3, <1>4 DEF Since
  <2>2. ASSUME NEW i \in all PROVE new[j] <= new[i] <=> i = j \/ <<j, i>> \in Lru!Used(k)
    BY <1>5, <1>6
  <2> QED
    BY <2>1, <2>2 DEF Lru!From
<1>8. Kept' = kept
  <2>1. UNCHANGED cap
    BY DEF Insert
  <2>2. Kept' = {j \in all : \/ Cardinality(UnitsOf(Since(j)')) <= cap
                              \/ Cardinality(Since(j)') <= 1}
    BY <1>3, <2>1 DEF Kept, UnitsOf
  <2>3. ASSUME NEW j \in all
        PROVE  Lru!Fits(Lru!From(all, Lru!Used(k), j)) <=>
                 \/ Cardinality(UnitsOf(Since(j)')) <= cap
                 \/ Cardinality(Since(j)') <= 1
    BY <1>7, FitsIs
  <2> QED
    BY <2>2, <2>3 DEF Lru!Newest
<1> HIDE DEF kept
<1>9. kept \subseteq all
  BY <1>8, <1>3 DEF Kept
<1>10. DOMAIN Held = DOMAIN map /\ \A j \in DOMAIN map : Held[j] = map[j].parsed
  BY <1>2 DEF Held
<1>11. Held' = [j \in kept |-> IF j = k THEN parsed[w] ELSE Held[j]]
  <2>1. Held' = [j \in kept |-> map'[j].parsed]
    BY <1>8 DEF Held
  <2>2. ASSUME NEW j \in kept PROVE map'[j].parsed = IF j = k THEN parsed[w] ELSE Held[j]
    BY <1>4, <1>9, <1>10 DEF all
  <2> QED
    BY <2>1, <2>2
<1>12. Older' = Lru!Used(k) \cap (kept \X kept)
  <2>1. Older' = {e \in kept \X kept : map'[e[1]].tick < map'[e[2]].tick}
    BY <1>8 DEF Older
  <2>2. ASSUME NEW i \in kept, NEW j \in kept
        PROVE  <<i, j>> \in Lru!Used(k) <=> map'[i].tick < map'[j].tick
    BY <1>4, <1>5, <1>9
  <2> QED
    BY <2>1, <2>2
<1>13. Lru!Keep(k, parsed[w])
  BY <1>10, <1>11, <1>12 DEF Lru!Keep, kept, all
<1>14. pc[w] = "insert" /\ pc' = [pc EXCEPT ![w] = "evict"] /\ UNCHANGED <<cap, key, parsed>>
  BY DEF Insert
<1>15. Phase[w] = "building" /\ Phase' = [Phase EXCEPT ![w] = "idle"]
  <2>1. Phase' = [Phase EXCEPT ![w] = PhaseOf("evict")]
    BY <1>1, <1>14, PhaseMoves
  <2> QED
    BY <1>14, <2>1 DEF Phase, PhaseOf
<1>16. Answer' = [Answer EXCEPT ![w] = parsed[w]]
  <2>1. parsed' = [parsed EXCEPT ![w] = parsed[w]]
    BY <1>1, <1>14 DEF TypeOK
  <2>2. Answer' = [Answer EXCEPT ![w] = IF "evict" = "insert" THEN NoParse ELSE parsed[w]]
    BY <1>1, <1>14, <2>1, AnswerMoves
  <2> QED
    BY <2>2
<1> QED
  BY <1>1, <1>13, <1>14, <1>15, <1>16 DEF Lru!Put, k

\* The entry an eviction drops was not kept to begin with.
LEMMA EvictIsSilent ==
  ASSUME IndInv, NEW w \in Workers, EvictOne(w)
  PROVE  UNCHANGED Lru!lruVars
<1>1. PICK v \in DOMAIN map : IsVictim(v) /\ map' = Restrict(map, DOMAIN map \ {v})
  BY DEF EvictOne
<1>2. /\ DOMAIN map' = DOMAIN map \ {v} /\ \A j \in DOMAIN map' : map'[j] = map[j]
      /\ UNCHANGED <<cap, pc, key, parsed>> /\ OverCap
  BY <1>1 DEF Restrict, EvictOne
<1>3. \A j \in DOMAIN map : map[j].tick \in Nat
  BY DEF IndInv, TypeOK, Entry
<1>4. \A j \in DOMAIN map : j # v => map[v].tick < map[j].tick
  BY <1>1, <1>3 DEF IsVictim, IndInv, TicksDistinct
<1>5. v \notin Kept
  <2>1. Since(v) = DOMAIN map
    <3>1. \A j \in DOMAIN map : map[v].tick <= map[j].tick
      BY <1>1 DEF IsVictim
    <3> QED
      BY <3>1 DEF Since
  <2>2. UnitsOf(DOMAIN map) = Units(map)
    BY DEF UnitsOf, Units, IndInv, Charged
  <2>3. Cardinality(UnitsOf(Since(v))) = total
    BY <2>1, <2>2 DEF IndInv, ChargeExact
  <2>4. total \in Nat /\ cap \in Nat /\ Cardinality(DOMAIN map) \in Nat
    BY CapsAssumption, FS_CardinalityType DEF IndInv, TypeOK, Finite
  <2> QED
    BY <1>2, <2>1, <2>3, <2>4 DEF Kept, OverCap
<1>6. ASSUME NEW j \in DOMAIN map' PROVE Since(j)' = Since(j)
  <2>1. j \in DOMAIN map /\ j # v
    BY <1>2
  <2>2. map[v].tick < map[j].tick /\ map[v].tick \in Nat /\ map[j].tick \in Nat
    BY <1>4, <1>3, <2>1
  <2>3. ~(map[j].tick <= map[v].tick)
    BY <2>2
  <2> QED
    BY <1>2, <2>1, <2>3 DEF Since
<1>7. Kept' = Kept
  <2>1. Kept' = {j \in DOMAIN map' : \/ Cardinality(UnitsOf(Since(j)')) <= cap
                                     \/ Cardinality(Since(j)') <= 1}
    BY <1>2 DEF Kept, UnitsOf
  <2>2. Kept' = {j \in DOMAIN map' : \/ Cardinality(UnitsOf(Since(j))) <= cap
                                     \/ Cardinality(Since(j)) <= 1}
    BY <1>6, <2>1
  <2> QED
    BY <1>2, <1>5, <2>2 DEF Kept
<1>8. \A j \in Kept : map'[j] = map[j]
  BY <1>2, <1>5 DEF Kept
<1>9. UNCHANGED <<Held, Older>>
  BY <1>7, <1>8 DEF Held, Older
<1>10. UNCHANGED <<Phase, Answer>>
  BY <1>2 DEF Phase, Answer
<1> QED
  BY <1>2, <1>9, <1>10 DEF Lru!lruVars

LEMMA InitIsInit == Init => Lru!Init
<1> SUFFICES ASSUME Init PROVE Lru!Init
  OBVIOUS
<1>1. DOMAIN map = {}
  BY DEF Init
<1>2. Held = [k \in {} |-> NoParse] /\ Older = {}
  BY <1>1 DEF Held, Older, Kept
<1>3. /\ Phase = [w \in Workers |-> "idle"]
      /\ Answer = [w \in Workers |-> NoParse]
  BY DEF Init, Phase, PhaseOf, Answer
<1>4. key = [w \in Workers |-> CHOOSE k \in Lru!Key : TRUE] /\ cap \in Caps
  BY DEF Init, Key, Lru!Key
<1> QED
  BY <1>2, <1>3, <1>4 DEF Lru!Init

LEMMA StepIsStep == IndInv /\ IndInv' /\ [Next]_vars => [Lru!Next]_(Lru!lruVars)
<1> SUFFICES ASSUME IndInv, IndInv', [Next]_vars
             PROVE  Lru!Next \/ UNCHANGED Lru!lruVars
  OBVIOUS
<1>1. CASE UNCHANGED vars
  <2>1. UNCHANGED <<Held, Older>>
    BY <1>1, MapStays DEF vars
  <2>2. UNCHANGED <<Phase, Answer, cap, key>>
    BY <1>1 DEF vars, Phase, Answer
  <2> QED
    BY <2>1, <2>2 DEF Lru!lruVars
<1>2. ASSUME NEW w \in Workers, NEW k \in Key, Enter(w, k) PROVE Lru!Next
  <2>1. k \in Lru!Key
    BY DEF Key, Lru!Key
  <2> QED
    BY <1>2, <2>1, EnterIsAsk DEF Lru!Next
<1>3. ASSUME NEW w \in Workers, Lookup(w) PROVE Lru!Next
  BY <1>3, MissIsMiss, HitIsHit DEF Lookup, Lru!Next
<1>4. ASSUME NEW w \in Workers, Build(w) PROVE Lru!Next \/ UNCHANGED Lru!lruVars
  BY <1>4, BuildFailIsFail, BuildOkIsPut DEF Build, Lru!Next
<1>5. ASSUME NEW w \in Workers, Insert(w) PROVE Lru!Next
  <2>1. parsed[w] \in Parses
    BY <1>5 DEF IndInv, Publishing, Insert
  <2> QED
    BY <1>5, <2>1, InsertIsPut DEF Lru!Next
<1>6. ASSUME NEW w \in Workers, EvictOne(w) \/ Unlock(w) PROVE UNCHANGED Lru!lruVars
  BY <1>6, EvictIsSilent, UnlockIsSilent
<1> QED
  BY <1>1, <1>2, <1>3, <1>4, <1>5, <1>6 DEF Next, Step, Done

\* The cache implements the memo.
THEOREM ImplementsLruHolds == Spec => ImplementsLru
<1> QED
  BY InitIsInit, StepIsStep, AlwaysIndInv, PTL DEF Spec, ImplementsLru, Lru!Spec
=============================================================================
