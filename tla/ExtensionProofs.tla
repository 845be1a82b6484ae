--------------------------- MODULE ExtensionProofs ---------------------------
(***************************************************************************)
(* Theorems about Extension, for every list of functions, every set of     *)
(* threads and every number of LOADs and binds.                            *)
(***************************************************************************)
EXTENDS Extension, FiniteSetTheorems, TLAPS

-----------------------------------------------------------------------------
(* The inductive invariant *)

Types ==
  /\ load \in {"idle", "api", "database", "connect", "create", "register", "destroy", "disconnect"}
  /\ current \in 1..Len(Functions) + 1
  /\ failed \in BOOLEAN /\ con \in BOOLEAN /\ handle \in BOOLEAN
  /\ answer \in {"none", "loaded", "failed"}
  /\ catalog \subseteq Names /\ IsFiniteSet(catalog)
  /\ boxes \in Nat

\* What LOAD holds follows from where it is: a connection from connect to
\* disconnect, a handle while one function is registered, and a producer that
\* the catalog does not share from the handle's making until it is shared or
\* the handle is destroyed.
Unshared == load = "register" \/ (load = "destroy" /\ failed)
LoadHolds ==
  /\ con <=> load \in {"create", "register", "destroy", "disconnect"}
  /\ handle <=> load \in {"register", "destroy"}
  /\ boxes = Cardinality(catalog) + (IF Unshared THEN 1 ELSE 0)

\* How far LOAD has come, unless it has failed.
Below(n) == \A i \in DOMAIN Functions : i < n => Functions[i] \in catalog
LoadProgressed ==
  /\ load \in {"api", "database", "connect"} => current = 1
  /\ load \in {"register", "destroy"} => current <= Len(Functions)
  /\ load \notin {"destroy", "disconnect", "idle"} => ~failed
  /\ load \in {"create", "register"} => Below(current)
  /\ load = "destroy" /\ ~failed => Below(current + 1)
  /\ load = "disconnect" /\ ~failed => Below(Len(Functions) + 1)
  /\ answer = "loaded" => Below(Len(Functions) + 1)

BindTypes ==
  /\ pc \in [Binders -> {"idle", "context", "filesystem", "produce", "release"} \cup Opening]
  /\ fn \in [Binders -> Names \cup {Functions[1]}]
  /\ ctx \in [Binders -> BOOLEAN]
  /\ fs \in [Binders -> BOOLEAN]
  /\ open \in [Binders -> SUBSET Opening]

\* What a bind holds follows from where it is, but for a file of the kind it is
\* opening, and from whether its function reads at all.
BindInv(b) ==
  /\ pc[b] # "idle" => fn[b] \in catalog
  /\ pc[b] \in {"sidecar", "slice"} => fn[b] \in Certified
  /\ pc[b] \in {"context", "filesystem"} \cup Opening => fn[b] \in Reading
  /\ ctx[b] <=> \/ pc[b] \in {"filesystem", "release"} \cup Opening
                \/ pc[b] = "produce" /\ fn[b] \in Reading
  /\ pc[b] \in Opening => fs[b]
  /\ pc[b] = "produce" => (fs[b] <=> fn[b] \in Reading)
  /\ pc[b] \in {"idle", "context", "filesystem"} => ~fs[b]
  /\ open[b] \subseteq {pc[b]} \cap Opening

Inv == Types /\ LoadHolds /\ LoadProgressed /\ BindTypes /\ \A b \in Binders : BindInv(b)

-----------------------------------------------------------------------------
LEMMA InitInv == Init => Inv
<1> SUFFICES ASSUME Init PROVE Inv
  OBVIOUS
<1>1. Len(Functions) \in Nat
  BY FunctionsAssumption
<1>2. IsFiniteSet(catalog) /\ Cardinality(catalog) = 0
  BY FS_EmptySet DEF Init
<1>3. Types
  <2>1. 1 \in 1..Len(Functions) + 1 /\ {} \subseteq Names
    BY <1>1
  <2> QED
    BY <1>2, <2>1 DEF Init, Types
<1>4. LoadHolds /\ LoadProgressed
  BY <1>2 DEF Init, LoadHolds, LoadProgressed, Unshared
<1>5. BindTypes /\ \A b \in Binders : BindInv(b)
  BY DEF Init, BindTypes, BindInv, Opening
<1> QED
  BY <1>3, <1>4, <1>5 DEF Inv

\* A step of LOAD only adds to the catalog, which disturbs no bind.
LEMMA BindsKept ==
  ASSUME Inv, UNCHANGED bindVars, catalog \subseteq catalog'
  PROVE  BindTypes' /\ \A b \in Binders : BindInv(b)'
BY DEF Inv, BindTypes, BindInv, bindVars

\* A step of LOAD that registers nothing.
LEMMA LoadStepInv ==
  ASSUME Inv, LoadProgress \/ LoadFails \/ Load, UNCHANGED <<catalog, bindVars>>
  PROVE  Inv'
<1>1. BindTypes' /\ \A b \in Binders : BindInv(b)'
  BY BindsKept
<1>2. Len(Functions) \in Nat /\ Cardinality(catalog) \in Nat /\ 1 \in 1..Len(Functions) + 1
  <2>1. Len(Functions) \in Nat
    BY FunctionsAssumption
  <2> QED
    BY <2>1, FS_CardinalityType DEF Inv, Types
<1>3. Types' /\ LoadHolds' /\ LoadProgressed'
  <2> USE <1>2 DEF Inv, Types, LoadHolds, LoadProgressed, Unshared
  <2>1. CASE Load
    BY <2>1 DEF Load
  <2>2. CASE Refused
    BY <2>2 DEF Refused, Return, Below
  <2>3. CASE InitApi
    BY <2>3 DEF InitApi, LoadStep, Below
  <2>4. CASE GetDatabase
    BY <2>4 DEF GetDatabase, LoadStep, Below
  <2>5. CASE Connect
    <3>1. Below(1)
      BY FunctionsAssumption DEF Below
    <3> QED
      BY <2>5, <3>1 DEF Connect, LoadStep, Below
  <2>6. CASE CreateFails
    BY <2>6 DEF CreateFails, LoadStep, Below
  <2>7. CASE RegisterFails
    BY <2>7 DEF RegisterFails, LoadStep, Below
  <2>8. CASE Registered
    <3>1. current = Len(Functions) + 1
      BY <2>8 DEF Registered
    <3> QED
      BY <2>8, <3>1 DEF Registered, LoadStep, Below
  <2>9. CASE Disconnect
    BY <2>9 DEF Disconnect, Return, Below
  <2>10. CASE Destroy
    <3>1. CASE failed
      <4>1. /\ handle' = FALSE /\ boxes' = boxes - 1 /\ load' = "disconnect"
            /\ load = "destroy" /\ UNCHANGED <<current, failed, answer, con, catalog>>
        BY <2>10, <3>1 DEF Destroy
      <4>2. boxes' = Cardinality(catalog) /\ boxes' \in Nat
        BY <3>1, <4>1
      <4>3. LoadHolds'
        BY <3>1, <4>1, <4>2
      <4>4. Types'
        BY <3>1, <4>1, <4>2
      <4>5. LoadProgressed'
        BY <3>1, <4>1 DEF Below
      <4> QED
        BY <4>3, <4>4, <4>5
    <3>2. CASE ~failed
      <4>1. /\ handle' = FALSE /\ boxes' = boxes /\ load' = "create" /\ current' = current + 1
            /\ load = "destroy" /\ UNCHANGED <<failed, answer, con, catalog>>
        BY <2>10, <3>2 DEF Destroy
      <4>2. boxes' = Cardinality(catalog) /\ current' \in 1..Len(Functions) + 1
        BY <3>2, <4>1
      <4> QED
        BY <3>2, <4>1, <4>2 DEF Below
    <3> QED
      BY <3>1, <3>2
  <2>11. CASE Create
    <3>1. ~failed /\ boxes = Cardinality(catalog) /\ boxes + 1 \in Nat
      BY <2>11 DEF Create, LoadStep
    <3> QED
      BY <2>11, <3>1 DEF Create, LoadStep, Below
  <2>12. CASE Register
    BY <2>12 DEF Register, Names, ToSet
  <2> QED
    BY <2>1, <2>2, <2>3, <2>4, <2>5, <2>6, <2>7, <2>8, <2>9, <2>10, <2>11, <2>12
    DEF LoadProgress, LoadFails
<1> QED
  BY <1>1, <1>3 DEF Inv

\* A registration shares the producer with the catalog, under a name it had not.
LEMMA RegisterInv ==
  ASSUME Inv, Register
  PROVE  Inv'
<1> DEFINE f == Functions[current]
<1>1. /\ load = "register" /\ load' = "destroy" /\ f \notin catalog
      /\ catalog' = catalog \cup {f}
      /\ UNCHANGED <<current, failed, answer, con, handle, boxes, bindVars>>
  BY DEF Register, LoadStep
<1>2. ~failed /\ current \in DOMAIN Functions /\ f \in Names
  BY <1>1, FunctionsAssumption DEF Inv, Types, LoadProgressed
<1>3. /\ IsFiniteSet(catalog') /\ Cardinality(catalog') = Cardinality(catalog) + 1
      /\ Cardinality(catalog) \in Nat
  BY <1>1, FS_AddElement, FS_CardinalityType DEF Inv, Types
<1>4. BindTypes' /\ \A b \in Binders : BindInv(b)'
  BY <1>1, BindsKept
<1>5. Types'
  BY <1>1, <1>2, <1>3 DEF Inv, Types
<1>6. LoadHolds'
  BY <1>1, <1>2, <1>3 DEF Inv, LoadHolds, Unshared
<1>7. LoadProgressed'
  <2>1. Below(current) /\ (answer = "loaded" => Below(Len(Functions) + 1))
    BY <1>1 DEF Inv, LoadProgressed
  <2>2. current \in Nat
    BY <1>2, FunctionsAssumption
  <2>3. Below(current + 1)' /\ (answer = "loaded" => Below(Len(Functions) + 1)')
    BY <1>1, <1>2, <2>1, <2>2, FunctionsAssumption DEF Below
  <2> QED
    BY <1>1, <1>2, <2>3 DEF Inv, LoadProgressed
<1> QED
  BY <1>4, <1>5, <1>6, <1>7 DEF Inv

\* A step of one bind preserves the invariant if it does so for that bind.
LEMMA BindStepInv ==
  ASSUME Inv, NEW b \in Binders, UNCHANGED loadVars, BindTypes', BindInv(b)',
         \A a \in Binders \ {b} :
           /\ pc'[a] = pc[a] /\ fn'[a] = fn[a]
           /\ ctx'[a] = ctx[a] /\ fs'[a] = fs[a] /\ open'[a] = open[a]
  PROVE  Inv'
<1>1. Types' /\ LoadHolds' /\ LoadProgressed'
  BY DEF Inv, loadVars, Types, LoadHolds, LoadProgressed, Unshared, Below
<1>2. ASSUME NEW a \in Binders \ {b} PROVE BindInv(a)'
  BY DEF Inv, BindInv, loadVars
<1> QED
  BY <1>1, <1>2 DEF Inv

LEMMA BindInvStep ==
  ASSUME Inv, NEW b \in Binders,
         BindProgress(b) \/ BindFails(b) \/ \E f \in Names : Bind(b, f)
  PROVE  Inv'
<1> USE DEF Inv, BindTypes, BindInv, Opening, Goto
<1> DEFINE Others == \A a \in Binders \ {b} :
                       /\ pc'[a] = pc[a] /\ fn'[a] = fn[a]
                       /\ ctx'[a] = ctx[a] /\ fs'[a] = fs[a] /\ open'[a] = open[a]
           Kept == UNCHANGED loadVars /\ BindTypes' /\ BindInv(b)' /\ Others
<1>1. ASSUME NEW f \in Names, Bind(b, f) PROVE Kept
  BY <1>1 DEF Bind, loadVars
<1>2. CASE BadArgument(b) \/ NoContext(b)
  <2>1. Kept
    BY <1>2 DEF BadArgument, NoContext, loadVars
  <2> QED
    BY <2>1, BindStepInv
<1>3. ASSUME GetContext(b) PROVE Kept
  BY <1>3 DEF GetContext, loadVars
<1>4. ASSUME GetFilesystem(b) PROVE Kept
  BY <1>4 DEF GetFilesystem, loadVars
<1>5. ASSUME NoFilesystem(b) PROVE Kept
  BY <1>5 DEF NoFilesystem, loadVars
<1>6. ASSUME Open(b) PROVE Kept
  <2>1. /\ pc[b] \in Opening /\ pc[b] \notin open[b]
        /\ open' = [open EXCEPT ![b] = @ \cup {pc[b]}]
        /\ pc' = [pc EXCEPT ![b] = pc[b]]
        /\ UNCHANGED loadVars /\ UNCHANGED <<ctx, fs, fn>>
    BY <1>6 DEF Open, loadVars
  <2>2. pc' = pc
    BY <2>1
  <2>3. open' \in [Binders -> SUBSET Opening] /\ open'[b] = open[b] \cup {pc[b]}
    BY <2>1 DEF Inv
  <2>4. BindTypes' /\ Others
    BY <2>1, <2>2, <2>3
  <2>5. catalog' = catalog
    BY <2>1 DEF loadVars
  <2>6. BindInv(b)'
    BY <2>1, <2>2, <2>3, <2>5
  <2> QED
    BY <2>1, <2>4, <2>6
<1>7. ASSUME OpenFails(b) PROVE Kept
  BY <1>7 DEF OpenFails, Otherwise, loadVars
<1>8. ASSUME Read(b) PROVE Kept
  BY <1>8 DEF Read, Dropped, After, loadVars
<1>9. ASSUME ReadFails(b) PROVE Kept
  BY <1>9 DEF ReadFails, Dropped, Otherwise, loadVars
<1>10. ASSUME Produce(b) PROVE Kept
  BY <1>10 DEF Produce, loadVars
<1>11. ASSUME ReleaseFilesystem(b) PROVE Kept
  BY <1>11 DEF ReleaseFilesystem, loadVars
<1>12. ASSUME ReleaseContext(b) PROVE Kept
  BY <1>12 DEF ReleaseContext, loadVars
<1>13. Kept => Inv'
  BY BindStepInv
<1> QED
  BY <1>1, <1>2, <1>3, <1>4, <1>5, <1>6, <1>7, <1>8, <1>9, <1>10, <1>11, <1>12, <1>13
  DEF BindProgress, BindFails

LEMMA NextInv == Inv /\ [Next]_vars => Inv'
<1> SUFFICES ASSUME Inv, [Next]_vars PROVE Inv'
  OBVIOUS
<1>1. CASE UNCHANGED vars
  BY <1>1
  DEF vars, Inv, Types, LoadHolds, LoadProgressed, Unshared, Below, BindTypes, BindInv
<1>2. CASE Load \/ LoadProgress \/ LoadFails
  <2>1. CASE Register
    BY <2>1, RegisterInv
  <2>2. CASE ~Register
    <3>1. UNCHANGED <<catalog, bindVars>>
      BY <1>2, <2>2
      DEF Load, LoadProgress, LoadFails, InitApi, GetDatabase, Connect, Create, Registered,
          Destroy, Disconnect, Refused, CreateFails, RegisterFails, LoadStep, Return
    <3> QED
      BY <1>2, <3>1, LoadStepInv
  <2> QED
    BY <2>1, <2>2
<1>3. ASSUME NEW b \in Binders, (\E f \in Names : Bind(b, f)) \/ BindProgress(b) \/ BindFails(b)
      PROVE  Inv'
  BY <1>3, BindInvStep
<1>4. CASE Done
  BY <1>1, <1>4 DEF Done
<1> QED
  BY <1>1, <1>2, <1>3, <1>4 DEF Next

LEMMA AlwaysInv == Spec => []Inv
BY InitInv, NextInv, PTL DEF Spec

-----------------------------------------------------------------------------
(* The theorems *)

\* Type correctness: only a registered function is bound, and only one that
\* reads certificates slices.
THEOREM TypeCorrect == Spec => []TypeOK
<1>1. Inv => TypeOK
  BY DEF Inv, Types, BindTypes, BindInv, TypeOK
<1> QED
  BY <1>1, AlwaysInv, PTL

\* A LOAD that answers TRUE has registered every function, whatever failed in it
\* and in the LOADs before it.
THEOREM LoadIsComplete == Spec => []LoadedIsComplete
<1>1. ASSUME Inv, answer = "loaded" PROVE catalog = Names
  <2>1. \A i \in DOMAIN Functions : Functions[i] \in catalog
    BY <1>1, FunctionsAssumption DEF Inv, LoadProgressed, Below
  <2> QED
    BY <1>1, <2>1 DEF Inv, Types, Names, ToSet
<1> QED
  BY <1>1, AlwaysInv, PTL DEF LoadedIsComplete

\* Every way out of LOAD and of a bind has given back what it borrowed, and left
\* a producer with each function of the catalog and nowhere else.
THEOREM NothingIsHeld == Spec => []NothingHeld
<1>1. Inv => NothingHeld
  BY FS_CardinalityType DEF Inv, Types, LoadHolds, Unshared, BindTypes, BindInv, Opening, NothingHeld
<1> QED
  BY <1>1, AlwaysInv, PTL

\* What is borrowed of something is given back before it, and a bind has one
\* file open at a time.
THEOREM HandlesAreNested == Spec => []HandlesNest
<1>1. ASSUME Inv, NEW b \in Binders PROVE Cardinality(open[b]) <= 1
  <2>1. open[b] \subseteq {pc[b]}
    BY <1>1 DEF Inv, BindInv
  <2>2. IsFiniteSet({pc[b]}) /\ Cardinality({pc[b]}) = 1
    BY FS_Singleton
  <2> QED
    BY <2>1, <2>2, FS_Subset
<1>2. Inv => HandlesNest
  BY <1>1 DEF Inv, LoadHolds, BindTypes, BindInv, Opening, HandlesNest
<1> QED
  BY <1>2, AlwaysInv, PTL
=============================================================================
