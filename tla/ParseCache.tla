----------------------------- MODULE ParseCache -----------------------------
(***************************************************************************)
(* The process-global cache of parsed AGS files (src/src/cache.rs): a      *)
(* mutex-guarded map with a byte-capped LRU.  Workers are the DuckDB       *)
(* threads that bind table functions; each call of get_or_try_insert is    *)
(* two critical sections with the build (slurp and parse) between them,    *)
(* outside the lock.                                                       *)
(***************************************************************************)
EXTENDS Integers, FiniteSets, FiniteSetsExt, Functions

CONSTANTS
  Workers,        \* threads of the host process that call the cache
  NoWorker,       \* the mutex is free
  Paths,          \* file paths, as strings handed to read_ags
  Sizes,          \* byte sizes a VFS size() may report
  Encodings,      \* canonical encoding names
  Parses,         \* what a build may return
  NoParse,        \* no parse: a call not answered yet, or answered by an error
  Caps,           \* values LATERITE_AGS_CACHE_BYTES may hold
  MinEntryCost,   \* the floor charged for one entry
  MaxCalls        \* bound: calls made in one behaviour

ASSUME WorkersAssumption == NoWorker \notin Workers
ASSUME ParsesAssumption == NoParse \notin Parses
ASSUME SizesAssumption == Sizes \subseteq Nat
ASSUME KeysAssumption == Paths # {} /\ Sizes # {} /\ Encodings # {}
ASSUME CapsAssumption == Caps \subseteq Nat
ASSUME FloorAssumption == MinEntryCost \in Nat \ {0}
ASSUME CallsAssumption == MaxCalls \in Nat

VARIABLES
  map,      \* Key -> Entry, on the keys that are resident
  total,    \* bytes charged, kept incrementally
  cap,      \* fixed when the cache is first touched
  clock,    \* logical clock that stamps recency
  lock,     \* the worker inside the mutex across steps
  pc,       \* where each worker is inside get_or_try_insert
  key,      \* the key of its current or last call
  parsed,   \* what it holds: the Arc it built, or its call's answer
  calls     \* calls made so far

cacheVars == <<map, total, cap, clock>>
callVars == <<pc, key, parsed, calls>>
vars == <<map, total, cap, clock, lock, pc, key, parsed, calls>>

Key == [path: Paths, size: Sizes, encoding: Encodings]
Entry == [parsed: Parses, cost: Nat, tick: Nat]
Points == {"idle", "lookup", "build", "insert", "evict"}

\* Mutant: no floor under an entry's charge.
CostNoFloor(size) == size
Cost(size) == IF size > MinEntryCost THEN size ELSE MinEntryCost

\* Mutant: the last two entries are kept.
OverCapKeepsTwo == total > cap /\ Cardinality(DOMAIN map) > 2

\* The while condition of evict_to_cap.
OverCap == total > cap /\ Cardinality(DOMAIN map) > 1

\* Mutants: the newest entry is dropped; any entry is dropped.
IsNewest(k) ==
  /\ k \in DOMAIN map
  /\ \A j \in DOMAIN map : map[j].tick <= map[k].tick
IsAny(k) == k \in DOMAIN map

\* The key min_by_key picks.
IsVictim(k) ==
  /\ k \in DOMAIN map
  /\ \A j \in DOMAIN map : map[k].tick <= map[j].tick

Init ==
  /\ map = [k \in {} |-> NoParse]
  /\ total = 0
  /\ cap \in Caps
  /\ clock = 0
  /\ lock = NoWorker
  /\ pc = [w \in Workers |-> "idle"]
  /\ key = [w \in Workers |-> CHOOSE k \in Key : TRUE]
  /\ parsed = [w \in Workers |-> NoParse]
  /\ calls = 0

-----------------------------------------------------------------------------
(* get_or_try_insert *)

\* A worker calls with the key it derived from the open handle.
Enter(w, k) ==
  /\ pc[w] = "idle"
  /\ calls < MaxCalls
  /\ pc' = [pc EXCEPT ![w] = "lookup"]
  /\ key' = [key EXCEPT ![w] = k]
  /\ parsed' = [parsed EXCEPT ![w] = NoParse]
  /\ calls' = calls + 1
  /\ UNCHANGED <<map, total, cap, clock, lock>>

\* First critical section, cache disabled: unlock and build.
LookupDisabled(w) ==
  /\ pc[w] = "lookup"
  /\ lock = NoWorker
  /\ cap = 0
  /\ pc' = [pc EXCEPT ![w] = "build"]
  /\ UNCHANGED <<map, total, cap, clock, lock, key, parsed, calls>>

\* Mutant: a hit does not renew the entry's recency.
LookupHitStale(w) ==
  /\ pc[w] = "lookup"
  /\ lock = NoWorker
  /\ cap # 0
  /\ key[w] \in DOMAIN map
  /\ clock' = clock + 1
  /\ parsed' = [parsed EXCEPT ![w] = map[key[w]].parsed]
  /\ pc' = [pc EXCEPT ![w] = "idle"]
  /\ UNCHANGED <<map, total, cap, lock, key, calls>>

\* First critical section, the key is resident: bump its recency and return
\* the Arc it holds.
LookupHit(w) ==
  /\ pc[w] = "lookup"
  /\ lock = NoWorker
  /\ cap # 0
  /\ key[w] \in DOMAIN map
  /\ clock' = clock + 1
  /\ map' = [map EXCEPT ![key[w]] = [@ EXCEPT !.tick = clock + 1]]
  /\ parsed' = [parsed EXCEPT ![w] = map[key[w]].parsed]
  /\ pc' = [pc EXCEPT ![w] = "idle"]
  /\ UNCHANGED <<total, cap, lock, key, calls>>

\* First critical section, a miss: the clock still advances.
LookupMiss(w) ==
  /\ pc[w] = "lookup"
  /\ lock = NoWorker
  /\ cap # 0
  /\ key[w] \notin DOMAIN map
  /\ clock' = clock + 1
  /\ pc' = [pc EXCEPT ![w] = "build"]
  /\ UNCHANGED <<map, total, cap, lock, key, parsed, calls>>

\* The build fails: the error is the call's answer, nothing is cached.
BuildFail(w) ==
  /\ pc[w] = "build"
  /\ pc' = [pc EXCEPT ![w] = "idle"]
  /\ UNCHANGED <<map, total, cap, clock, lock, key, parsed, calls>>

\* Mutant: a disabled cache still publishes.
BuildOkPublishes(w, p) ==
  /\ pc[w] = "build"
  /\ parsed' = [parsed EXCEPT ![w] = p]
  /\ pc' = [pc EXCEPT ![w] = "insert"]
  /\ UNCHANGED <<map, total, cap, clock, lock, key, calls>>

\* The build succeeds: answer at once when the cache is disabled, else publish.
BuildOk(w, p) ==
  /\ pc[w] = "build"
  /\ parsed' = [parsed EXCEPT ![w] = p]
  /\ pc' = [pc EXCEPT ![w] = IF cap = 0 THEN "idle" ELSE "insert"]
  /\ UNCHANGED <<map, total, cap, clock, lock, key, calls>>

OldCost(k) == IF k \in DOMAIN map THEN map[k].cost ELSE 0

Put(k, p, tick) ==
  map' = [j \in DOMAIN map \cup {k} |->
            IF j = k THEN [parsed |-> p, cost |-> Cost(k.size), tick |-> tick]
                     ELSE map[j]]

\* Mutants: the replaced entry's charge is kept; only a new key is charged; the
\* stamp is read before the clock advances.
PublishKeepsCharge(w) ==
  Put(key[w], parsed[w], clock + 1) /\ total' = total + Cost(key[w].size)
PublishChargesNew(w) ==
  /\ Put(key[w], parsed[w], clock + 1)
  /\ total' = total - OldCost(key[w])
              + (IF key[w] \in DOMAIN map THEN 0 ELSE Cost(key[w].size))
PublishOldStamp(w) ==
  /\ Put(key[w], parsed[w], clock)
  /\ total' = total - OldCost(key[w]) + Cost(key[w].size)

\* What the map and the total become when w publishes its parse: the entry of a
\* concurrent first touch is replaced and its charge given back.
Publish(w) ==
  /\ Put(key[w], parsed[w], clock + 1)
  /\ total' = total - OldCost(key[w]) + Cost(key[w].size)

\* Second critical section: take the lock and publish.
Insert(w) ==
  /\ pc[w] = "insert"
  /\ lock = NoWorker
  /\ lock' = w
  /\ clock' = clock + 1
  /\ Publish(w)
  /\ pc' = [pc EXCEPT ![w] = "evict"]
  /\ UNCHANGED <<cap, key, parsed, calls>>

\* Mutant: the victim is found but not removed.
EvictNothing(w) ==
  /\ pc[w] = "evict"
  /\ OverCap
  /\ UNCHANGED vars

\* One turn of evict_to_cap's loop, still inside the lock.
EvictOne(w) ==
  /\ pc[w] = "evict"
  /\ OverCap
  /\ \E k \in DOMAIN map :
       /\ IsVictim(k)
       /\ map' = Restrict(map, DOMAIN map \ {k})
       /\ total' = total - map[k].cost
  /\ UNCHANGED <<cap, clock, lock, pc, key, parsed, calls>>

\* The loop is over: the guard is dropped and the call returns its own parse.
Unlock(w) ==
  /\ pc[w] = "evict"
  /\ ~OverCap
  /\ lock' = NoWorker
  /\ pc' = [pc EXCEPT ![w] = "idle"]
  /\ UNCHANGED <<map, total, cap, clock, key, parsed, calls>>

Lookup(w) == LookupDisabled(w) \/ LookupHit(w) \/ LookupMiss(w)

Build(w) == BuildFail(w) \/ \E p \in Parses : BuildOk(w, p)

\* Everything a worker does once it has called.
Step(w) == Lookup(w) \/ Build(w) \/ Insert(w) \/ EvictOne(w) \/ Unlock(w)

\* The bound on calls is spent and every call has returned.
Done ==
  /\ calls = MaxCalls
  /\ \A w \in Workers : pc[w] = "idle"
  /\ UNCHANGED vars

Next ==
  \/ \E w \in Workers, k \in Key : Enter(w, k)
  \/ \E w \in Workers : Step(w)
  \/ Done

\* The host schedules every thread that is inside a call; the builds end.
Fairness == \A w \in Workers : WF_vars(Step(w))

Spec == Init /\ [][Next]_vars /\ Fairness

-----------------------------------------------------------------------------
(* Properties *)

\* Every variable keeps its type; the charge never underflows its usize.
TypeOK ==
  /\ DOMAIN map \subseteq Key
  /\ map \in [DOMAIN map -> Entry]
  /\ total \in Nat
  /\ cap \in Caps
  /\ clock \in Nat
  /\ lock \in Workers \cup {NoWorker}
  /\ pc \in [Workers -> Points]
  /\ key \in [Workers -> Key]
  /\ parsed \in [Workers -> Parses \cup {NoParse}]
  /\ calls \in Nat

\* One unit per byte charged: as many units as the costs of the entries add up
\* to.
Units(m) == UNION {{k} \X (1..m[k].cost) : k \in DOMAIN m}

\* The incrementally kept total is exactly what the resident entries cost: no
\* charge is lost when a concurrent first touch of the same key is replaced or
\* when an entry is evicted, so the cap is compared with the truth and the
\* unsigned subtractions never wrap.
ChargeExact == total = Cardinality(Units(map))

\* No two entries carry the same recency stamp and none carries one from the
\* future, so the eviction victim is unique whatever order the hash map is
\* iterated in.
TicksDistinct ==
  /\ \A k \in DOMAIN map : map[k].tick <= clock
  /\ \A j, k \in DOMAIN map : map[j].tick = map[k].tick => j = k

\* Whenever the mutex is free the cache is within its cap, or holds the single
\* entry that is larger than the whole cap.
CapRespected ==
  lock = NoWorker => total <= cap \/ Cardinality(DOMAIN map) <= 1

\* The floor makes empty files count: the number of resident entries is bounded
\* by the cap however small the files are.
EntriesBounded ==
  lock = NoWorker =>
    \/ Cardinality(DOMAIN map) * MinEntryCost <= cap
    \/ Cardinality(DOMAIN map) <= 1

\* A cap of zero disables the cache entirely: nothing is ever retained, by any
\* interleaving of calls.
DisabledHoldsNothing == cap = 0 => DOMAIN map = {} /\ total = 0

\* A parse just published is resident when its call returns: eviction frees the
\* other entries first, and never the last one, however large it is.
PublishedSurvives ==
  [][\A w \in Workers : Unlock(w) =>
       /\ key[w] \in DOMAIN map'
       /\ map'[key[w]].parsed = parsed[w]]_vars

\* What eviction drops is older than everything it keeps.
EvictsOldest ==
  [][\A gone \in DOMAIN map \ DOMAIN map', kept \in DOMAIN map' :
       map[gone].tick < map'[kept].tick]_vars

\* Every call returns: no lost wake-up of the mutex, no eviction loop that
\* spins inside it.
CallsReturn == \A w \in Workers : pc[w] # "idle" ~> pc[w] = "idle"

-----------------------------------------------------------------------------
(* The inductive strengthening the proofs use: what holds at every step,     *)
(* inside the critical sections too.                                         *)

Finite == IsFiniteSet(DOMAIN map) /\ IsFiniteSet(Units(map))

\* The only critical section that spans steps is the eviction.
LockHeld == \A w \in Workers : lock = w <=> pc[w] = "evict"

\* A worker holds no parse until it has built one or hit one; it publishes
\* what it built, into an enabled cache; while it evicts,
\* its own entry is resident and is the newest.
Publishing ==
  \A w \in Workers :
    /\ pc[w] \in {"lookup", "build"} => parsed[w] = NoParse
    /\ pc[w] \in {"insert", "evict"} => parsed[w] \in Parses /\ cap # 0
    /\ pc[w] = "evict" =>
         /\ key[w] \in DOMAIN map
         /\ map[key[w]].parsed = parsed[w]
         /\ map[key[w]].tick = clock

\* An entry is charged for the size in its key.
Charged == \A k \in DOMAIN map : map[k].cost = Cost(k.size)

IndInv ==
  /\ TypeOK /\ Finite /\ LockHeld /\ Publishing /\ Charged
  /\ ChargeExact /\ TicksDistinct /\ CapRespected /\ DisabledHoldsNothing
=============================================================================
