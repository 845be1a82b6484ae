---------------------------- MODULE ReleaseProofs ----------------------------
(***************************************************************************)
(* Theorems about Release, for every set of clones, every order of         *)
(* versions and every number of runs and commits.                          *)
(***************************************************************************)
EXTENDS Release, SequenceLemmas

Trees == [Manifests \cup {"pin"} -> Versions]
Commits == [tree : Trees, parent : Nat]

\* The commits there are, by number.
Numbers == 1..Len(commits)

\* What a descriptor may be by now.
Written == [version : Versions, commit : Numbers \cup {None}, skipped : SUBSET Skippable] \cup {Upstream}

\* From here on a run has stamped the manifests.
Bumped == {"commit", "push", "tag", "push tag", "checkout", "copy", "fill", "descriptor", "push descriptor", "pr"}

ForkTypes ==
  /\ checkout \in [branch : Versions, work : Written, local : [Versions -> Written]]
  /\ DOMAIN fork = Versions
  /\ \A v \in Versions : fork[v] # None => fork[v] \in [descriptor : Written, shared : BOOLEAN]

Types ==
  /\ commits \in Seq(Commits)
  /\ tree \in [Clones -> Trees]
  /\ head \in [Clones -> Numbers]
  /\ tags \in [Clones -> [Versions -> Numbers \cup {None}]]
  /\ origin \in Numbers
  /\ DOMAIN released = Versions
  /\ \A v \in Versions : released[v] # None => released[v].commit \in Numbers \cup {None}
  /\ ForkTypes
  /\ pc \in [Clones -> {"idle", "test", "bump"} \cup Bumped]
  /\ version \in [Clones -> Versions]
  /\ skipped \in [Clones -> SUBSET Skippable]
  /\ plan \in Plans
  /\ runs \in 0..plan.runs

\* A run releases what its clone pins, and what it may commit is in step.
RunInv(k) ==
  /\ pc[k] # "idle" => version[k] = tree[k].pin
  /\ pc[k] \in Bumped => \A m \in Manifests : tree[k][m] = tree[k].pin

Inv == Types /\ CommitsInStep /\ \A k \in Clones : RunInv(k)

LEMMA CommitTree ==
  ASSUME Types, NEW c \in Numbers
  PROVE  commits[c].tree \in Trees
<1>1. commits \in Seq(Commits) /\ c \in 1..Len(commits)
  BY DEF Types, Numbers
<1>2. commits[c] \in Commits
  BY <1>1
<1> QED
  BY <1>2 DEF Commits

LEMMA ForkKept ==
  ASSUME ForkTypes, UNCHANGED <<commits, forkVars>>
  PROVE  ForkTypes'
BY DEF ForkTypes, Written, Numbers, forkVars

LEMMA FirstIs == First \in Versions
BY VersionsAssumption DEF First

\* Where nothing is left to stamp, every manifest carries the version.
LEMMA AllStamped ==
  ASSUME NEW k \in Clones, ToStamp(k) = {}
  PROVE  \A m \in Manifests : tree[k][m] = version[k]
<1> DEFINE U == Unstamped(k)
<1>1. \A i \in U : ~ \A j \in U : i <= j
  BY DEF ToStamp
<1>2. U \subseteq {1, 2, 3, 4}
  BY DEF Unstamped, Stamping
<1> HIDE DEF U
<1>3. 1 \notin U
  BY <1>1, <1>2
<1>4. 2 \notin U
  BY <1>1, <1>2, <1>3
<1>5. 3 \notin U
  BY <1>1, <1>2, <1>3, <1>4
<1>6. 4 \notin U
  BY <1>1, <1>2, <1>3, <1>4, <1>5
<1> QED
  BY <1>3, <1>4, <1>5, <1>6 DEF U, Unstamped, Stamping, Manifests

LEMMA InitInv == Init => Inv
<1> SUFFICES ASSUME Init PROVE Inv
  OBVIOUS
<1>1. At(First) \in Trees /\ \A m \in Manifests : At(First)[m] = At(First).pin
  BY FirstIs DEF At, Trees
<1>2. /\ commits = <<[tree |-> At(First), parent |-> 0]>>
      /\ Len(commits) = 1 /\ DOMAIN commits = 1..1
      /\ \A c \in 1..1 : commits[c].tree = At(First)
  BY DEF Init
<1>3. Types
  <2>1. ForkTypes
    BY FirstIs DEF Init, ForkTypes, Written
  <2>2. skipped \in [Clones -> SUBSET Skippable] /\ plan \in Plans /\ runs \in 0..plan.runs
    BY BoundsAssumption DEF Init
  <2> QED
    BY <1>1, <1>2, <2>1, <2>2, FirstIs DEF Init, Types, Numbers, Commits
<1>4. CommitsInStep
  BY <1>1, <1>2 DEF CommitsInStep
<1>5. \A k \in Clones : RunInv(k)
  BY DEF Init, RunInv, Bumped
<1> QED
  BY <1>3, <1>4, <1>5 DEF Inv

\* What moves neither a commit nor a working tree nor a run's version keeps the
\* rest, if it keeps its types and reaches the commit only when in step.
LEMMA TreesKept ==
  ASSUME Inv, Types', UNCHANGED <<commits, tree, version>>,
         \A k \in Clones : pc'[k] # "idle" => pc[k] # "idle",
         \A k \in Clones : pc'[k] \in Bumped => pc[k] \in Bumped
  PROVE  Inv'
BY DEF Inv, CommitsInStep, RunInv

\* A step in one clone's working tree, between runs or before the commit.
LEMMA TreeStep ==
  ASSUME Inv, Types', NEW k \in Clones, UNCHANGED commits, RunInv(k)',
         \A j \in Clones \ {k} : tree'[j] = tree[j] /\ pc'[j] = pc[j] /\ version'[j] = version[j]
  PROVE  Inv'
BY DEF Inv, CommitsInStep, RunInv

LEMMA MaintainerStep ==
  ASSUME Inv, NEW k \in Clones,
         (\E v \in Versions : MovePin(k, v)) \/ Restore(k) \/ Pull(k)
  PROVE  Inv'
<1>1. ASSUME NEW v \in Versions, MovePin(k, v) PROVE Types'
  BY <1>1, ForkKept DEF MovePin, Moving, Inv, Types, Trees, Numbers, remoteVars
<1>2. ASSUME Restore(k) PROVE Types'
  <2>1. commits[head[k]].tree \in Trees
    BY CommitTree DEF Inv, Types
  <2>2. /\ tree' = [tree EXCEPT ![k] = commits[head[k]].tree]
        /\ UNCHANGED <<commits, head, tags, origin, released, forkVars, prs, pc, version, skipped, plan, runs>>
    BY <1>2 DEF Restore, Moving, remoteVars
  <2> QED
    BY <2>1, <2>2, ForkKept DEF Inv, Types, Numbers
<1>3. ASSUME Pull(k) PROVE Types'
  <2> DEFINE fetched == [v \in Versions |->
               IF tags[k][v] = None /\ released[v] # None /\ released[v].commit \in History(origin)
               THEN released[v].commit ELSE tags[k][v]]
  <2>1. tags' = [tags EXCEPT ![k] = fetched]
    BY <1>3 DEF Pull
  <2>2. ASSUME NEW v \in Versions PROVE fetched[v] \in Numbers \cup {None}
    <3>1. tags[k][v] \in Numbers \cup {None}
      BY DEF Inv, Types
    <3>2. released[v] # None => released[v].commit \in Numbers \cup {None}
      BY DEF Inv, Types
    <3> QED
      BY <3>1, <3>2
  <2>3. fetched \in [Versions -> Numbers \cup {None}]
    BY <2>2
  <2> HIDE DEF fetched
  <2>4. tags' \in [Clones -> [Versions -> Numbers \cup {None}]]
    BY <2>1, <2>3 DEF Inv, Types
  <2>5. commits[origin].tree \in Trees
    BY CommitTree DEF Inv, Types
  <2>6. /\ head' = [head EXCEPT ![k] = origin]
        /\ tree' = [tree EXCEPT ![k] = commits[origin].tree]
        /\ UNCHANGED <<commits, origin, released, forkVars, prs, pc, version, skipped, plan, runs>>
    BY <1>3 DEF Pull, Moving, remoteVars
  <2> QED
    BY <2>4, <2>5, <2>6, ForkKept DEF Inv, Types, Numbers
<1>4. /\ UNCHANGED commits /\ RunInv(k)'
      /\ \A j \in Clones \ {k} : tree'[j] = tree[j] /\ pc'[j] = pc[j] /\ version'[j] = version[j]
  BY DEF MovePin, Restore, Pull, Moving, RunInv, Inv, Types, Bumped
<1> QED
  BY <1>1, <1>2, <1>3, <1>4, TreeStep

\* The steps of a run up to the commit.
LEMMA BumpSteps ==
  ASSUME Inv, NEW k \in Clones,
         (\E v \in Versions : Start(k, v)) \/ Test(k) \/ Stamp(k) \/ BumpDone(k) \/ Stop(k)
  PROVE  Inv'
<1>1. ASSUME NEW v \in Versions, Start(k, v) PROVE Inv'
  <2>1. Types'
    <3>1. runs' \in 0..plan'.runs
      <4>1. /\ runs \in 0..plan.runs /\ runs < plan.runs /\ runs' = runs + 1
            /\ plan \in Plans /\ UNCHANGED plan
        BY <1>1 DEF Start, Begin, Inv, Types
      <4>2. plan.runs \in Nat
        BY <4>1, BoundsAssumption
      <4> QED
        BY <4>1, <4>2
    <3>2. /\ pc' = [pc EXCEPT ![k] = "test"] /\ version' = [version EXCEPT ![k] = v]
          /\ skipped' = [skipped EXCEPT ![k] = {}]
          /\ UNCHANGED <<commits, tree, head, tags, origin, released, forkVars, plan>>
      BY <1>1 DEF Start, Begin, remoteVars
    <3> QED
      BY <3>1, <3>2, ForkKept DEF Inv, Types, Numbers
  <2>2. RunInv(k)'
    BY <1>1 DEF Start, Begin, Inv, Types, RunInv, Bumped
  <2> QED
    BY <1>1, <2>1, <2>2, TreeStep DEF Start, Begin, Inv, Types
<1>2. CASE Test(k)
  <2> DEFINE new == [tree[k] EXCEPT !.lock = tree[k].cargo]
  <2>1. new \in Trees /\ new.pin = tree[k].pin
    <3>1. tree[k] \in Trees
      BY DEF Inv, Types
    <3>2. tree[k].cargo \in Versions
      BY <3>1 DEF Trees, Manifests
    <3>3. \A v \in Versions : [tree[k] EXCEPT !.lock = v] \in Trees
      BY <3>1 DEF Trees, Manifests
    <3> QED
      BY <3>1, <3>2, <3>3 DEF Trees, Manifests
  <2>2. /\ tree' = [tree EXCEPT ![k] = new] /\ pc[k] = "test" /\ pc' = [pc EXCEPT ![k] = "bump"]
        /\ UNCHANGED <<commits, head, tags, origin, released, forkVars, version, skipped, plan, runs>>
    BY <1>2 DEF Test, Command, remoteVars
  <2> HIDE DEF new
  <2>3. Types'
    BY <2>1, <2>2, ForkKept DEF Inv, Types, Numbers
  <2>4. RunInv(k)'
    BY <2>1, <2>2 DEF Inv, Types, RunInv, Bumped
  <2> QED
    BY <2>2, <2>3, <2>4, TreeStep DEF Inv, Types
<1>3. CASE Stamp(k)
  <2>1. PICK m \in ToStamp(k) : tree' = [tree EXCEPT ![k][m] = version[k]]
    BY <1>3 DEF Stamp
  <2>2. m \in Manifests /\ m # "pin"
    <3>1. m \in {Stamping[i] : i \in DOMAIN Stamping}
      BY DEF ToStamp, Unstamped
    <3> QED
      BY <3>1 DEF Stamping, Manifests
  <2> DEFINE new == [tree[k] EXCEPT ![m] = version[k]]
  <2>3. new \in Trees /\ new.pin = tree[k].pin
    <3>1. tree[k] \in [Manifests \cup {"pin"} -> Versions] /\ version[k] \in Versions
      BY DEF Inv, Types, Trees
    <3> QED
      BY <2>2, <3>1 DEF Trees
  <2>4. /\ tree' = [tree EXCEPT ![k] = new] /\ pc[k] = "bump" /\ pc' = [pc EXCEPT ![k] = "bump"]
        /\ UNCHANGED <<commits, head, tags, origin, released, forkVars, version, skipped, plan, runs>>
    BY <1>3, <2>1 DEF Stamp, Command, remoteVars
  <2> HIDE DEF new
  <2>5. Types'
    BY <2>3, <2>4, ForkKept DEF Inv, Types, Numbers
  <2>6. RunInv(k)'
    BY <2>3, <2>4 DEF Inv, Types, RunInv, Bumped
  <2> QED
    BY <2>4, <2>5, <2>6, TreeStep DEF Inv, Types
<1>4. CASE BumpDone(k)
  <2>1. Types'
    BY <1>4, ForkKept DEF BumpDone, Command, Inv, Types, Numbers, remoteVars, Bumped
  <2>2. RunInv(k)'
    BY <1>4, AllStamped DEF BumpDone, Command, Inv, Types, RunInv
  <2> QED
    BY <1>4, <2>1, <2>2, TreeStep DEF BumpDone, Command, Inv, Types
<1>5. CASE Stop(k)
  <2>1. Types'
    BY <1>5, ForkKept DEF Stop, Inv, Types, Numbers, remoteVars
  <2> QED
    BY <1>5, <2>1, TreesKept DEF Stop, Inv, Types, Bumped
<1> QED
  BY <1>1, <1>2, <1>3, <1>4, <1>5

\* The commit is of a tree in step.
LEMMA CommitStep ==
  ASSUME Inv, NEW k \in Clones, Commit(k)
  PROVE  Inv'
<1> DEFINE n == Len(commits)
           new == [tree |-> tree[k], parent |-> head[k]]
<1>0. commits' = Append(commits, new)
  BY DEF Commit
<1>1. /\ tree[k] \in Trees /\ new.tree = tree[k]
      /\ new \in Commits /\ commits \in Seq(Commits)
  <2>1. tree[k] \in Trees /\ head[k] \in Numbers /\ commits \in Seq(Commits)
    BY DEF Inv, Types
  <2>2. head[k] \in Nat
    BY <2>1 DEF Numbers
  <2> QED
    BY <2>1, <2>2 DEF Commits
<1>2. /\ pc[k] = "commit" /\ pc' = [pc EXCEPT ![k] = "push"]
      /\ head' = [head EXCEPT ![k] = n + 1]
      /\ UNCHANGED <<version, plan, runs, tree, tags, origin, released, checkout, fork, skipped>>
  BY DEF Commit, Command, remoteVars, forkVars
<1> HIDE DEF new
<1>3. /\ commits' \in Seq(Commits)
      /\ n \in Nat /\ Len(commits') = n + 1 /\ DOMAIN commits' = 1..(n + 1)
      /\ commits'[n + 1] = new /\ \A c \in 1..n : commits'[c] = commits[c]
  BY <1>0, <1>1
<1> HIDE DEF n
<1>4. Types'
  <2>1. Numbers = 1..n /\ Numbers' = 1..(n + 1) /\ Numbers \subseteq Numbers'
    BY <1>3 DEF n, Numbers
  <2>2. head' \in [Clones -> Numbers']
    <3>1. n + 1 \in Numbers' /\ \A j \in Clones : head[j] \in Numbers'
      <4>1. n \in Nat /\ n + 1 \in 1..(n + 1)
        BY <1>3
      <4>2. head \in [Clones -> Numbers]
        BY DEF Inv, Types
      <4> QED
        BY <2>1, <4>1, <4>2
    <3>2. DOMAIN head = Clones
      BY DEF Inv, Types
    <3> QED
      BY <1>2, <3>1, <3>2
  <2>3. tags' \in [Clones -> [Versions -> Numbers' \cup {None}]]
    <3>1. ASSUME NEW j \in Clones PROVE tags[j] \in [Versions -> Numbers' \cup {None}]
      <4>1. tags[j] \in [Versions -> Numbers \cup {None}]
        BY DEF Inv, Types
      <4> HIDE DEF Inv
      <4> QED
        BY <2>1, <4>1
    <3> QED
      BY <1>2, <3>1 DEF Inv, Types
  <2>4. /\ \A v \in Versions : released'[v] # None => released'[v].commit \in Numbers' \cup {None}
        /\ origin' \in Numbers'
    BY <1>2, <2>1 DEF Inv, Types
  <2>5. ForkTypes'
    <3>1. Written \subseteq Written'
      BY <2>1 DEF Written
    <3>2. ForkTypes
      BY DEF Inv, Types
    <3> QED
      BY <1>2, <3>1, <3>2 DEF ForkTypes
  <2>6. pc' \in [Clones -> {"idle", "test", "bump"} \cup Bumped]
    BY <1>2 DEF Inv, Types, Bumped
  <2> QED
    BY <1>2, <1>3, <2>2, <2>3, <2>4, <2>5, <2>6 DEF Inv, Types
<1>5. CommitsInStep'
  <2>1. \A m \in Manifests : new.tree[m] = new.tree.pin
    BY <1>1, <1>2 DEF Inv, RunInv, Bumped
  <2>2. \A c \in 1..n : \A m \in Manifests : commits[c].tree[m] = commits[c].tree.pin
    BY <1>1 DEF n, Inv, CommitsInStep
  <2> QED
    BY <1>3, <2>1, <2>2 DEF CommitsInStep
<1>6. \A j \in Clones : RunInv(j)'
  BY <1>2 DEF Inv, Types, RunInv, Bumped
<1> QED
  BY <1>4, <1>5, <1>6 DEF Inv

\* A step in the fork's checkout writes what it may hold.
LEMMA ForkStep ==
  ASSUME Inv, NEW k \in Clones,
         Checkout(k) \/ Copy(k) \/ Fill(k) \/ CommitDescriptor(k) \/ PushDescriptor(k)
  PROVE  ForkTypes'
<1>1. /\ UNCHANGED commits
      /\ version[k] \in Versions /\ tree[k].descriptor \in Versions
      /\ skipped[k] \in SUBSET Skippable /\ head[k] \in Numbers
  <2>1. tree[k] \in Trees
    BY DEF Inv, Types
  <2> QED
    BY <2>1 DEF Checkout, Copy, Fill, CommitDescriptor, PushDescriptor, InFork, Inv, Types, Trees, Manifests
<1>2. /\ checkout = [branch |-> checkout.branch, work |-> checkout.work, local |-> checkout.local]
      /\ checkout.branch \in Versions /\ checkout.work \in Written
      /\ checkout.local \in [Versions -> Written]
      /\ DOMAIN fork = Versions
      /\ \A v \in Versions : fork[v] # None => fork[v] \in [descriptor : Written, shared : BOOLEAN]
  BY DEF Inv, Types, ForkTypes
<1>3. Upstream \in Written /\ Written' = Written
  BY <1>1 DEF Written, Numbers
<1>4. CASE Checkout(k)
  <2>1. UNCHANGED fork
    BY <1>4 DEF Checkout
  <2>2. PICK w \in {Upstream, checkout.work} :
          checkout' = [branch |-> version[k], work |-> w, local |-> [checkout.local EXCEPT ![version[k]] = Upstream]]
    BY <1>4 DEF Checkout
  <2> QED
    BY <1>1, <1>2, <1>3, <2>1, <2>2 DEF ForkTypes
<1>5. CASE Copy(k)
  <2> DEFINE new == [version |-> tree[k].descriptor, commit |-> None, skipped |-> {}]
  <2>1. UNCHANGED fork /\ checkout' = [checkout EXCEPT !.work = new]
    BY <1>5 DEF Copy
  <2>2. new \in Written
    BY <1>1 DEF Written
  <2> HIDE DEF new
  <2> QED
    BY <1>2, <1>3, <2>1, <2>2 DEF ForkTypes
<1>6. CASE Fill(k)
  <2>1. CASE checkout.work # Upstream /\ checkout.work.commit = None
    <3> DEFINE new == [version |-> checkout.work.version, commit |-> head[k], skipped |-> skipped[k]]
    <3>1. UNCHANGED fork /\ checkout' = [checkout EXCEPT !.work = new]
      BY <1>2, <1>6, <2>1 DEF Fill, Sha
    <3>2. new \in Written
      BY <1>1, <1>2, <2>1 DEF Written
    <3> HIDE DEF new
    <3> QED
      BY <1>2, <1>3, <3>1, <3>2 DEF ForkTypes
  <2>2. CASE ~(checkout.work # Upstream /\ checkout.work.commit = None)
    BY <1>2, <1>3, <1>6, <2>2 DEF Fill, ForkTypes
  <2> QED
    BY <2>1, <2>2
<1>7. CASE CommitDescriptor(k)
  <2>1. /\ UNCHANGED fork
        /\ checkout' = [checkout EXCEPT !.local = [checkout.local EXCEPT ![checkout.branch] = checkout.work]]
    BY <1>2, <1>7 DEF CommitDescriptor
  <2> QED
    BY <1>2, <1>3, <2>1 DEF ForkTypes
<1>8. CASE PushDescriptor(k)
  <2> DEFINE new == [descriptor |-> checkout.local[version[k]], shared |-> k \in shared]
  <2>1. UNCHANGED checkout /\ fork' = [fork EXCEPT ![version[k]] = new]
    BY <1>8 DEF PushDescriptor
  <2>2. new \in [descriptor : Written, shared : BOOLEAN]
    BY <1>1, <1>2
  <2> HIDE DEF new
  <2> QED
    BY <1>2, <1>3, <2>1, <2>2 DEF ForkTypes
<1> QED
  BY <1>4, <1>5, <1>6, <1>7, <1>8

\* What comes after the commit moves refs only.
LEMMA RefStep ==
  ASSUME Inv, NEW k \in Clones,
         \/ Push(k) \/ TagExists(k) \/ Tag(k) \/ PushTag(k)
         \/ Checkout(k) \/ Copy(k) \/ Fill(k) \/ CommitDescriptor(k) \/ PushDescriptor(k)
         \/ Pr(k) \/ Decline(k)
  PROVE  Inv'
<1> USE DEF Types, Numbers, Command, Bumped
<1>0. Types /\ ForkTypes
  BY DEF Inv
<1>1. ASSUME Push(k) PROVE Types'
  BY <1>0, <1>1, ForkKept DEF Push
<1>2. ASSUME TagExists(k) PROVE Types'
  BY <1>0, <1>2, ForkKept DEF TagExists, remoteVars
<1>3. ASSUME Tag(k) PROVE Types'
  BY <1>0, <1>3, ForkKept DEF Tag, remoteVars
<1>4. ASSUME PushTag(k) PROVE Types'
  <2>1. /\ UNCHANGED <<commits, tree, head, tags, origin, forkVars, prs, skipped, version, plan, runs>>
        /\ pc' = [pc EXCEPT ![k] = "checkout"]
        /\ released' = [released EXCEPT ![version[k]] =
                          [commit |-> tags[k][version[k]], skipped |-> skipped[k]]]
    BY <1>4 DEF PushTag
  <2>2. tags[k][version[k]] \in Numbers \cup {None}
    BY <1>0
  <2>3. DOMAIN released' = Versions
    BY <1>0, <2>1
  <2>4. \A v \in Versions : released'[v] =
          IF v = version[k] THEN [commit |-> tags[k][version[k]], skipped |-> skipped[k]] ELSE released[v]
    BY <1>0, <2>1
  <2>5. \A v \in Versions : released'[v] # None => released'[v].commit \in Numbers' \cup {None}
    <3>1. Numbers' = Numbers
      BY <2>1
    <3> HIDE DEF Numbers
    <3>2. \A v \in Versions : released[v] # None => released[v].commit \in Numbers \cup {None}
      BY <1>0
    <3> QED
      BY <2>2, <2>4, <3>1, <3>2
  <2>6. pc' \in [Clones -> {"idle", "test", "bump"} \cup Bumped]
    BY <1>0, <2>1
  <2>7. ForkTypes'
    BY <1>0, <2>1, ForkKept
  <2> QED
    BY <1>0, <2>1, <2>3, <2>5, <2>6, <2>7
<1>5. ASSUME Checkout(k) \/ Copy(k) \/ Fill(k) \/ CommitDescriptor(k) \/ PushDescriptor(k) PROVE Types'
  <2>1. ForkTypes'
    BY <1>5, ForkStep
  <2> QED
    BY <1>0, <1>5, <2>1 DEF Checkout, Copy, Fill, CommitDescriptor, PushDescriptor, InFork
<1>6. ASSUME Pr(k) PROVE Types'
  BY <1>0, <1>6, ForkKept DEF Pr
<1>7. ASSUME Decline(k) PROVE Types'
  <2>1. /\ UNCHANGED <<commits, tree, head, tags, origin, released, forkVars, version, plan, runs>>
        /\ pc' \in [Clones -> {"idle", "test", "bump"} \cup Bumped]
    BY <1>0, <1>7 DEF Decline, remoteVars
  <2>2. skipped' \in [Clones -> SUBSET Skippable]
    <3>1. \/ skipped' = [skipped EXCEPT ![k] = skipped[k] \cup {pc[k]}] /\ pc[k] \in Skippable
          \/ skipped' = skipped
      BY <1>0, <1>7 DEF Decline, Skippable
    <3>2. skipped \in [Clones -> SUBSET Skippable]
      BY <1>0
    <3>3. pc[k] \in Skippable => skipped[k] \cup {pc[k]} \in SUBSET Skippable
      BY <3>2
    <3> HIDE DEF Types
    <3> QED
      BY <3>1, <3>2, <3>3
  <2> QED
    BY <1>0, <2>1, <2>2, ForkKept
<1>8. /\ UNCHANGED <<commits, tree, version>>
      /\ \A j \in Clones : pc'[j] # "idle" => pc[j] # "idle"
      /\ \A j \in Clones : pc'[j] \in Bumped => pc[j] \in Bumped
  BY <1>0 DEF Push, TagExists, Tag, PushTag, Checkout, Copy, Fill, CommitDescriptor, PushDescriptor,
     InFork, Pr, Decline
<1> QED
  BY <1>1, <1>2, <1>3, <1>4, <1>5, <1>6, <1>7, <1>8, TreesKept

LEMMA NextInv == Inv /\ [Next]_vars => Inv'
<1> SUFFICES ASSUME Inv, [Next]_vars PROVE Inv'
  OBVIOUS
<1>1. CASE UNCHANGED vars
  BY <1>1, ForkKept DEF vars, forkVars, Inv, Types, Numbers, CommitsInStep, RunInv
<1>2. ASSUME NEW v \in Versions, Merge(v) PROVE Inv'
  <2>1. Types'
    BY <1>2, ForkKept DEF Merge, Inv, Types, Numbers
  <2> QED
    BY <1>2, <2>1, TreesKept DEF Merge
<1>3. ASSUME NEW k \in Clones,
             \/ \E v \in Versions : MovePin(k, v) \/ Start(k, v)
             \/ Restore(k) \/ Pull(k) \/ Running(k) \/ Prompted(k) \/ Stop(k)
      PROVE  Inv'
  BY <1>3, MaintainerStep, BumpSteps, CommitStep, RefStep DEF Running, Prompted
<1>4. CASE Done
  BY <1>1, <1>4 DEF Done
<1> QED
  BY <1>1, <1>2, <1>3, <1>4 DEF Next

LEMMA AlwaysInv == Spec => []Inv
BY InitInv, NextInv, PTL DEF Spec

-----------------------------------------------------------------------------
(* The theorems *)

\* Type correctness: in particular a run only ever releases the version its
\* clone pins.
THEOREM TypeCorrect == Spec => []TypeOK
<1>1. ASSUME Inv PROVE TypeOK
  <2>1. DOMAIN commits = Numbers
    <3>1. commits \in Seq(Commits)
      BY <1>1 DEF Inv, Types
    <3> QED
      BY <3>1 DEF Numbers
  <2>2. Written = {d \in Descriptors : d.commit \in Numbers \cup {None}} \cup {Upstream}
    <3>1. Numbers \subseteq Nat
      BY DEF Numbers
    <3> QED
      BY <3>1 DEF Written, Descriptors
  <2> QED
    BY <1>1, <2>1, <2>2 DEF Inv, Types, ForkTypes, Trees, RunInv, TypeOK
<1> QED
  BY <1>1, AlwaysInv, PTL

\* Every commit there is carries one version in its four manifests, wherever
\* runs were stopped and however they went on.
THEOREM CommitsAreInStep == Spec => []CommitsInStep
<1>1. Inv => CommitsInStep
  BY DEF Inv
<1> QED
  BY <1>1, AlwaysInv, PTL

-----------------------------------------------------------------------------
(* The commits of a branch *)

\* The commits of a branch, of the commits cs.
HistoryOf(cs, c) ==
  LET older[n \in 0..Len(cs)] == IF n = 0 THEN {} ELSE {n} \cup older[cs[n].parent]
  IN older[c]

\* A commit's parent was made before it.
Chained(cs) == Len(cs) \in Nat /\ \A n \in 1..Len(cs) : cs[n].parent \in 0..n - 1

LEMMA HistoryUnfolds ==
  ASSUME NEW cs, Chained(cs)
  PROVE  /\ HistoryOf(cs, 0) = {}
         /\ \A n \in 1..Len(cs) : HistoryOf(cs, n) = {n} \cup HistoryOf(cs, cs[n].parent)
<1> DEFINE N == Len(cs)
           Unfold(f) == [n \in 0..N |-> IF n = 0 THEN {} ELSE {n} \cup f[cs[n].parent]]
           Good(k, f) == /\ f = [n \in 0..k |-> f[n]] /\ f[0] = {}
                         /\ \A n \in 1..k : f[n] = {n} \cup f[cs[n].parent]
           T == {k \in 0..N : \E f : Good(k, f)}
<1>1. N \in Nat /\ \A n \in 1..N : cs[n].parent \in 0..n - 1
  BY DEF Chained
<1>2. 0 \in T
  <2>1. Good(0, [n \in 0..0 |-> {}])
    OBVIOUS
  <2>2. 0 \in 0..N
    BY <1>1
  <2> HIDE DEF Good
  <2> QED
    BY <2>1, <2>2
<1>3. ASSUME NEW k \in 0..N - 1, k \in T PROVE k + 1 \in T
  <2> DEFINE j == k + 1
  <2>1. PICK f : Good(k, f)
    BY <1>3
  <2> DEFINE g == [n \in 0..j |-> IF n = j THEN {j} \cup f[cs[j].parent] ELSE f[n]]
  <2>2. j \in 1..N /\ k \in Nat /\ j = k + 1 /\ j # 0 /\ 0 \in 0..j
    BY <1>1
  <2>3. cs[j].parent \in 0..k
    BY <1>1, <2>2
  <2> HIDE DEF j
  <2>4. g = [n \in 0..j |-> g[n]] /\ g[0] = {}
    BY <2>1, <2>2
  <2>5. ASSUME NEW n \in 1..j PROVE g[n] = {n} \cup g[cs[n].parent]
    <3>1. CASE n = j
      <4>1. cs[j].parent \in 0..j /\ cs[j].parent # j
        BY <2>2, <2>3
      <4>2. g[cs[j].parent] = f[cs[j].parent] /\ j \in 0..j
        BY <2>2, <4>1
      <4> QED
        BY <3>1, <4>2
    <3>2. CASE n # j
      <4>1. n \in 1..k /\ n \in 1..N /\ n \in 0..j
        BY <1>1, <2>2, <3>2
      <4>2. cs[n].parent \in 0..j /\ cs[n].parent # j
        BY <1>1, <2>2, <4>1
      <4>3. g[n] = f[n] /\ g[cs[n].parent] = f[cs[n].parent]
        BY <3>2, <4>1, <4>2
      <4>4. f[n] = {n} \cup f[cs[n].parent]
        BY <2>1, <4>1
      <4> QED
        BY <4>3, <4>4
    <3> QED
      BY <3>1, <3>2
  <2>6. Good(j, g)
    BY <2>4, <2>5
  <2>7. j \in 0..N
    BY <2>2
  <2>8. j \in T
    <3> HIDE DEF Good, g
    <3> QED
      BY <2>6, <2>7
  <2> QED
    BY <2>8 DEF j
<1>4. N \in T
  <2> HIDE DEF T
  <2>1. \A i \in 0..N : i \in T
    BY <1>1, <1>2, <1>3, UpTo
  <2> QED
    BY <1>1, <2>1
<1>5. PICK f : Good(N, f)
  BY <1>4
<1> DEFINE older == CHOOSE h : h = Unfold(h)
<1>6. f = Unfold(f)
  <2>1. ASSUME NEW n \in 0..N PROVE f[n] = IF n = 0 THEN {} ELSE {n} \cup f[cs[n].parent]
    <3>1. n # 0 => n \in 1..N
      BY <1>1
    <3> QED
      BY <1>5, <3>1
  <2>2. f = [n \in 0..N |-> f[n]]
    BY <1>5
  <2> QED
    BY <2>1, <2>2
<1>7. older = Unfold(older)
  <2> HIDE DEF Unfold
  <2> QED
    BY <1>6
<1>8. \A c : HistoryOf(cs, c) = older[c]
  BY DEF HistoryOf
<1> HIDE DEF older
<1>9. older[0] = {} /\ \A n \in 1..N : older[n] = {n} \cup older[cs[n].parent]
  <2>1. \A n \in 0..N : older[n] = IF n = 0 THEN {} ELSE {n} \cup older[cs[n].parent]
    BY <1>7
  <2>2. 0 \in 0..N /\ \A n \in 1..N : n \in 0..N /\ n # 0
    BY <1>1
  <2> QED
    BY <2>1, <2>2
<1> QED
  BY <1>8, <1>9

\* A branch ends in its head, and goes back from it.
LEMMA HistoryBounds ==
  ASSUME NEW cs, Chained(cs), NEW c \in 1..Len(cs)
  PROVE  c \in HistoryOf(cs, c) /\ HistoryOf(cs, c) \subseteq 1..c
<1> DEFINE N == Len(cs)
           T == {k \in 0..N : HistoryOf(cs, k) \subseteq 1..k}
<1>1. N \in Nat /\ \A n \in 1..N : cs[n].parent \in 0..n - 1
  BY DEF Chained
<1>2. ASSUME NEW i \in 0..N, \A j \in 0..i - 1 : j \in T PROVE i \in T
  <2>1. CASE i = 0
    BY <2>1, HistoryUnfolds
  <2>2. CASE i # 0
    <3>1. i \in 1..N
      BY <1>1, <2>2
    <3>2. cs[i].parent \in 0..i - 1
      BY <1>1, <3>1
    <3>3. HistoryOf(cs, cs[i].parent) \subseteq 1..cs[i].parent
      BY <1>2, <3>2
    <3>4. HistoryOf(cs, i) = {i} \cup HistoryOf(cs, cs[i].parent)
      BY <3>1, HistoryUnfolds
    <3> QED
      BY <3>1, <3>2, <3>3, <3>4
  <2> QED
    BY <2>1, <2>2
<1>3. \A i \in 0..N : i \in T
  <2> HIDE DEF T
  <2> QED
    BY <1>1, <1>2, FromBelow
<1>4. c \in 0..N
  BY <1>1
<1> QED
  BY <1>3, <1>4, HistoryUnfolds

\* What an ancestor has, the branch has.
LEMMA HistoryOfAncestor ==
  ASSUME NEW cs, Chained(cs), NEW c \in 1..Len(cs), NEW d \in HistoryOf(cs, c)
  PROVE  HistoryOf(cs, d) \subseteq HistoryOf(cs, c)
<1> DEFINE N == Len(cs)
           T == {k \in 0..N : \A x \in HistoryOf(cs, k) : HistoryOf(cs, x) \subseteq HistoryOf(cs, k)}
<1>1. N \in Nat /\ \A n \in 1..N : cs[n].parent \in 0..n - 1
  BY DEF Chained
<1>2. ASSUME NEW i \in 0..N, \A j \in 0..i - 1 : j \in T PROVE i \in T
  <2>1. CASE i = 0
    BY <2>1, HistoryUnfolds
  <2>2. CASE i # 0
    <3>1. i \in 1..N
      BY <1>1, <2>2
    <3>2. cs[i].parent \in T
      BY <1>1, <1>2, <3>1
    <3>3. HistoryOf(cs, i) = {i} \cup HistoryOf(cs, cs[i].parent)
      BY <3>1, HistoryUnfolds
    <3> QED
      BY <3>2, <3>3
  <2> QED
    BY <2>1, <2>2
<1>3. \A i \in 0..N : i \in T
  <2> HIDE DEF T
  <2> QED
    BY <1>1, <1>2, FromBelow
<1>4. c \in 0..N
  BY <1>1
<1> QED
  BY <1>3, <1>4

\* A commit more leaves every branch as it is.
LEMMA HistoryKept ==
  ASSUME NEW cs, Chained(cs), NEW ds, Chained(ds), Len(cs) <= Len(ds),
         \A n \in 1..Len(cs) : ds[n] = cs[n], NEW c \in 1..Len(cs)
  PROVE  HistoryOf(ds, c) = HistoryOf(cs, c)
<1> DEFINE N == Len(cs)
           T == {k \in 0..N : HistoryOf(ds, k) = HistoryOf(cs, k)}
<1>1. N \in Nat /\ \A n \in 1..N : cs[n].parent \in 0..n - 1
  BY DEF Chained
<1>2. ASSUME NEW i \in 0..N, \A j \in 0..i - 1 : j \in T PROVE i \in T
  <2>1. CASE i = 0
    BY <2>1, HistoryUnfolds
  <2>2. CASE i # 0
    <3>1. i \in 1..N /\ i \in 1..Len(ds)
      BY <1>1, <2>2 DEF Chained
    <3>2. cs[i].parent \in T /\ ds[i].parent = cs[i].parent
      BY <1>1, <1>2, <3>1
    <3>3. HistoryOf(cs, i) = {i} \cup HistoryOf(cs, cs[i].parent)
      BY <3>1, HistoryUnfolds
    <3>4. HistoryOf(ds, i) = {i} \cup HistoryOf(ds, ds[i].parent)
      BY <3>1, HistoryUnfolds
    <3> QED
      BY <3>2, <3>3, <3>4
  <2> QED
    BY <2>1, <2>2
<1>3. \A i \in 0..N : i \in T
  <2> HIDE DEF T
  <2> QED
    BY <1>1, <1>2, FromBelow
<1>4. c \in 0..N
  BY <1>1
<1> QED
  BY <1>3, <1>4

-----------------------------------------------------------------------------
(* What is published *)

\* What a run that was told to leave nothing out may tag and pin: from the
\* commit on, its head carries the version; from the push on, origin has it; and
\* the tag it is about to push is the one it made.
Publishing(k) ==
  /\ pc[k] \in Bumped \ {"commit", "pr"} /\ "commit" \notin skipped[k] =>
       commits[head[k]].tree = At(version[k])
  /\ pc[k] \in Bumped \ {"commit", "push", "pr"} /\ "push" \notin skipped[k] =>
       head[k] \in History(origin)
  /\ pc[k] = "push tag" => tags[k][version[k]] = head[k]

\* The descriptor a run writes.
Made(k) == [version |-> version[k], commit |-> head[k], skipped |-> skipped[k]]

\* A run that has the fork's checkout to itself finds there what it put there.
Alone(k) ==
  InCheckout(k) /\ k \notin shared =>
    /\ \A j \in Clones \ {k} : ~InCheckout(j)
    /\ checkout.branch = version[k]
    /\ pc[k] = "fill" => checkout.work = [version |-> version[k], commit |-> None, skipped |-> {}]
    /\ pc[k] = "descriptor" => checkout.work = Made(k)
    /\ pc[k] = "push descriptor" => checkout.local[version[k]] = Made(k)

\* What is published names a commit there is.
Sound(release, v) == release.commit \in Numbers /\ Published(release, v)

Releases ==
  \A v \in Versions :
    /\ released[v] # None => Sound(released[v], v)
    /\ fork[v] # None /\ ~fork[v].shared =>
         /\ fork[v].descriptor # Upstream
         /\ fork[v].descriptor.version = v
         /\ Sound(fork[v].descriptor, v)

ReleaseInv ==
  /\ Inv
  /\ Chained(commits)
  /\ \A k \in Clones : Publishing(k)
  /\ \A k \in Clones : Alone(k)
  /\ Releases

\* No commit changes and origin loses none.
Grown ==
  /\ \A n \in Numbers : n \in Numbers' /\ commits'[n] = commits[n]
  /\ History(origin) \subseteq History(origin)'

LEMMA HistoryIs == \A c : History(c) = HistoryOf(commits, c)
BY DEF History, HistoryOf

\* A clone in step has a tree that says the version it pins, and no other.
LEMMA InStepAt ==
  ASSUME Inv, NEW k \in Clones, pc[k] = "commit"
  PROVE  tree[k] = At(version[k])
<1>1. tree[k] \in Trees /\ version[k] = tree[k].pin /\ \A m \in Manifests : tree[k][m] = version[k]
  BY DEF Inv, Types, RunInv
<1>2. \A m \in Manifests \cup {"pin"} : tree[k][m] = version[k]
  BY <1>1
<1> QED
  BY <1>1, <1>2 DEF Trees, At

LEMMA CommitGrows ==
  ASSUME ReleaseInv, NEW k \in Clones, Commit(k)
  PROVE  /\ Chained(commits)' /\ Grown
         /\ commits'[head'[k]].tree = tree[k]
<1> DEFINE n == Len(commits)
           new == [tree |-> tree[k], parent |-> head[k]]
<1>1. commits \in Seq(Commits) /\ head \in [Clones -> Numbers] /\ origin \in Numbers /\ tree[k] \in Trees
  BY DEF ReleaseInv, Inv, Types
<1>2. new \in Commits /\ head[k] \in 1..n
  <2>1. head[k] \in 1..n /\ head[k] \in Nat
    BY <1>1 DEF Numbers
  <2> QED
    BY <1>1, <2>1 DEF Commits
<1>3. /\ commits' = Append(commits, new) /\ head'[k] = n + 1
      /\ UNCHANGED origin /\ new.tree = tree[k] /\ new.parent = head[k]
  BY <1>1 DEF Commit, Command, remoteVars
<1> HIDE DEF new
<1>4. /\ n \in Nat /\ Len(commits') = n + 1
      /\ commits'[n + 1] = new /\ \A c \in 1..n : commits'[c] = commits[c]
  BY <1>1, <1>2, <1>3
<1>5. Chained(commits)
  BY DEF ReleaseInv
<1> HIDE DEF n
<1>6. Chained(commits')
  <2>1. ASSUME NEW c \in 1..n + 1 PROVE commits'[c].parent \in 0..c - 1
    <3>1. CASE c \in 1..n
      BY <1>4, <1>5, <3>1 DEF Chained, n
    <3>2. CASE c = n + 1
      BY <1>2, <1>3, <1>4, <3>2
    <3> QED
      BY <1>4, <3>1, <3>2
  <2> QED
    BY <1>4, <2>1 DEF Chained
<1>7. \A c \in Numbers : c \in Numbers' /\ commits'[c] = commits[c]
  BY <1>4 DEF Numbers, n
<1>8. HistoryOf(commits', origin) = HistoryOf(commits, origin)
  <2>1. Len(commits) <= Len(commits') /\ origin \in 1..Len(commits)
    BY <1>1, <1>4 DEF n, Numbers
  <2>2. \A c \in 1..Len(commits) : commits'[c] = commits[c]
    BY <1>4 DEF n
  <2> QED
    BY <1>5, <1>6, <2>1, <2>2, HistoryKept
<1>9. History(origin)' = History(origin)
  <2>1. History(origin)' = HistoryOf(commits', origin')
    BY DEF History, HistoryOf
  <2> QED
    BY <1>3, <1>8, <2>1, HistoryIs
<1> QED
  BY <1>3, <1>4, <1>6, <1>7, <1>9 DEF Grown

\* The branch that is pushed has what origin has.
LEMMA PushGrows ==
  ASSUME ReleaseInv, NEW k \in Clones, Push(k)
  PROVE  /\ Chained(commits)' /\ Grown
         /\ History(origin) \subseteq History(origin')
         /\ head[k] \in History(origin)'
<1>1. UNCHANGED commits /\ origin' = head[k] /\ origin \in History(head[k])
  BY DEF Push
<1>2. Chained(commits) /\ head[k] \in 1..Len(commits)
  BY DEF ReleaseInv, Inv, Types, Numbers
<1>3. HistoryOf(commits, origin) \subseteq HistoryOf(commits, head[k])
  BY <1>1, <1>2, HistoryIs, HistoryOfAncestor
<1>4. head[k] \in HistoryOf(commits, head[k])
  BY <1>2, HistoryBounds
<1>5. History(origin)' = HistoryOf(commits', origin')
  BY DEF History, HistoryOf
<1>6. History(origin') = HistoryOf(commits, origin') /\ History(origin) = HistoryOf(commits, origin)
  BY HistoryIs
<1> QED
  BY <1>1, <1>2, <1>3, <1>4, <1>5, <1>6 DEF Grown, Numbers

LEMMA NothingGrows ==
  ASSUME ReleaseInv, UNCHANGED <<commits, origin>>
  PROVE  Chained(commits)' /\ Grown
<1>1. History(origin)' = HistoryOf(commits', origin') /\ History(origin) = HistoryOf(commits, origin)
  BY DEF History, HistoryOf
<1> QED
  BY <1>1 DEF ReleaseInv, Grown, Numbers

-----------------------------------------------------------------------------
\* Sound, of the commits there are after the step.
SoundNext(release, v) ==
  /\ release.commit \in Numbers'
  /\ "commit" \notin release.skipped => commits'[release.commit].tree = At(v)
  /\ "push" \notin release.skipped => release.commit \in History(origin)'

\* What was published stays as good as it was.
LEMMA StaysSound ==
  ASSUME Grown, NEW r, NEW v, Sound(r, v)
  PROVE  SoundNext(r, v)
BY DEF Grown, Sound, SoundNext, Published

LEMMA NothingPublished ==
  ASSUME ReleaseInv, Grown, UNCHANGED <<released, fork>>
  PROVE  Releases'
<1>1. Releases
  BY DEF ReleaseInv
<1>2. ASSUME NEW v \in Versions, released[v] # None PROVE SoundNext(released[v], v)
  BY <1>1, <1>2, StaysSound DEF Releases
<1>3. ASSUME NEW v \in Versions, fork[v] # None, ~fork[v].shared
      PROVE  /\ fork[v].descriptor # Upstream /\ fork[v].descriptor.version = v
             /\ SoundNext(fork[v].descriptor, v)
  BY <1>1, <1>3, StaysSound DEF Releases
<1> QED
  BY <1>2, <1>3 DEF Releases, Sound, SoundNext, Published

\* What a step of one clone leaves of another.
Apart(j) ==
  pc'[j] = pc[j] /\ version'[j] = version[j] /\ skipped'[j] = skipped[j]
    /\ head'[j] = head[j] /\ tags'[j] = tags[j]

\* A run of another clone goes on as it would have.
LEMMA OtherClone ==
  ASSUME ReleaseInv, Grown, NEW j \in Clones, Apart(j)
  PROVE  Publishing(j)'
<1>1. head[j] \in Numbers /\ Publishing(j)
  BY DEF ReleaseInv, Inv, Types
<1>2. commits'[head[j]] = commits[head[j]]
  BY <1>1 DEF Grown
<1> QED
  BY <1>1, <1>2 DEF Publishing, Grown, At, Apart

\* The run is where it has nothing to publish.
LEMMA NotPublishing ==
  ASSUME NEW k, pc'[k] \in {"idle", "test", "bump", "commit", "pr"}
  PROVE  Publishing(k)'
BY DEF Publishing, Bumped

\* A step outside the fork's checkout leaves whoever is in it alone.
LEMMA StaysAlone ==
  ASSUME ReleaseInv, UNCHANGED <<checkout, shared>>,
         \A j \in Clones : Apart(j) \/ ~InCheckout(j)'
  PROVE  \A j \in Clones : Alone(j)'
<1> SUFFICES ASSUME NEW j \in Clones, InCheckout(j)', j \notin shared PROVE Alone(j)'
  BY DEF Alone
<1>1. Apart(j) /\ InCheckout(j) /\ Alone(j)
  BY DEF Apart, InCheckout, ReleaseInv
<1>2. \A i \in Clones : InCheckout(i)' => InCheckout(i)
  BY DEF Apart, InCheckout
<1> QED
  BY <1>1, <1>2 DEF Apart, Alone, Made

-----------------------------------------------------------------------------
\* The steps of a run that leave commits and origin and what is published.
LEMMA QuietStep ==
  ASSUME ReleaseInv, Inv', UNCHANGED <<commits, origin, released, forkVars>>,
         \A j \in Clones : Apart(j) \/ ~InCheckout(j)',
         \A j \in Clones : Grown => Publishing(j)'
  PROVE  ReleaseInv'
<1>1. Chained(commits)' /\ Grown
  BY NothingGrows
<1>2. \A j \in Clones : Alone(j)'
  BY StaysAlone DEF forkVars
<1> QED
  BY <1>1, <1>2, NothingPublished DEF ReleaseInv, forkVars

LEMMA BetweenRuns ==
  ASSUME ReleaseInv, Inv', NEW k \in Clones,
         (\E v \in Versions : MovePin(k, v)) \/ Restore(k) \/ Pull(k)
  PROVE  ReleaseInv'
<1>1. /\ UNCHANGED <<commits, origin, released, forkVars, skipped>>
      /\ pc'[k] = "idle" /\ \A j \in Clones \ {k} : Apart(j)
  BY DEF MovePin, Restore, Pull, Moving, remoteVars, ReleaseInv, Inv, Types, Apart
<1>2. ASSUME Grown, NEW j \in Clones PROVE Publishing(j)'
  BY <1>1, <1>2, OtherClone, NotPublishing
<1>3. \A j \in Clones : Apart(j) \/ ~InCheckout(j)'
  BY <1>1 DEF InCheckout
<1> QED
  BY <1>1, <1>2, <1>3, QuietStep

LEMMA BeforeCommit ==
  ASSUME ReleaseInv, Inv', NEW k \in Clones,
         (\E v \in Versions : Start(k, v)) \/ Test(k) \/ Stamp(k) \/ BumpDone(k) \/ Stop(k)
  PROVE  ReleaseInv'
<1>1. /\ UNCHANGED <<commits, origin, released, forkVars>>
      /\ pc'[k] \in {"test", "bump", "commit", "idle"} /\ \A j \in Clones \ {k} : Apart(j)
  BY DEF Start, Begin, Test, Stamp, BumpDone, Stop, Command, remoteVars, ReleaseInv, Inv, Types, Apart
<1>2. ASSUME Grown, NEW j \in Clones PROVE Publishing(j)'
  BY <1>1, <1>2, OtherClone, NotPublishing
<1>3. \A j \in Clones : Apart(j) \/ ~InCheckout(j)'
  BY <1>1 DEF InCheckout
<1> QED
  BY <1>1, <1>2, <1>3, QuietStep

LEMMA CommitPublishes ==
  ASSUME ReleaseInv, Inv', NEW k \in Clones, Commit(k)
  PROVE  ReleaseInv'
<1>1. /\ Chained(commits)' /\ Grown /\ commits'[head'[k]].tree = tree[k]
      /\ UNCHANGED <<released, checkout, shared, fork, skipped>>
      /\ pc[k] = "commit" /\ pc'[k] = "push" /\ version'[k] = version[k]
      /\ \A j \in Clones \ {k} : Apart(j)
  BY CommitGrows DEF Commit, Command, remoteVars, forkVars, ReleaseInv, Inv, Types, Apart
<1>2. Publishing(k)'
  <2>1. commits'[head'[k]].tree = At(version[k])
    BY <1>1, InStepAt DEF ReleaseInv
  <2> QED
    BY <1>1, <2>1 DEF Publishing, At
<1>3. ASSUME NEW j \in Clones PROVE Publishing(j)'
  BY <1>1, <1>2, OtherClone
<1>4. \A j \in Clones : Alone(j)'
  BY <1>1, StaysAlone DEF InCheckout
<1> QED
  BY <1>1, <1>3, <1>4, NothingPublished DEF ReleaseInv

LEMMA PushPublishes ==
  ASSUME ReleaseInv, Inv', NEW k \in Clones, Push(k)
  PROVE  ReleaseInv'
<1>1. /\ Chained(commits)' /\ Grown /\ head[k] \in History(origin)'
      /\ UNCHANGED <<commits, released, checkout, shared, fork, skipped, version, head, tags>>
      /\ pc[k] = "push" /\ pc'[k] = "tag"
      /\ \A j \in Clones \ {k} : Apart(j)
  BY PushGrows DEF Push, Command, forkVars, ReleaseInv, Inv, Types, Apart
<1>2. Publishing(k)'
  BY <1>1 DEF Publishing, At, ReleaseInv, Bumped
<1>3. ASSUME NEW j \in Clones PROVE Publishing(j)'
  BY <1>1, <1>2, OtherClone
<1>4. \A j \in Clones : Alone(j)'
  BY <1>1, StaysAlone DEF InCheckout
<1> QED
  BY <1>1, <1>3, <1>4, NothingPublished DEF ReleaseInv

LEMMA TagSteps ==
  ASSUME ReleaseInv, Inv', NEW k \in Clones, TagExists(k) \/ Tag(k) \/ Pr(k)
  PROVE  ReleaseInv'
<1>1. /\ UNCHANGED <<commits, origin, released, forkVars, skipped, version, head>>
      /\ \A j \in Clones \ {k} : Apart(j)
  BY DEF TagExists, Tag, Pr, Command, remoteVars, ReleaseInv, Inv, Types, Apart
<1>2. \/ pc[k] = "tag" /\ pc'[k] = "checkout"
      \/ pc[k] = "tag" /\ pc'[k] = "push tag" /\ tags'[k][version[k]] = head[k]
      \/ pc'[k] = "idle"
  <2>1. CASE TagExists(k)
    BY <2>1 DEF TagExists, Command, ReleaseInv, Inv, Types
  <2>2. CASE Tag(k)
    BY <2>2 DEF Tag, Command, ReleaseInv, Inv, Types
  <2>3. CASE Pr(k)
    BY <2>3 DEF Pr, Command, ReleaseInv, Inv, Types
  <2> QED
    BY <2>1, <2>2, <2>3
<1>3. ASSUME Grown PROVE Publishing(k)'
  <2>1. CASE pc[k] = "tag"
    BY <1>1, <1>2, <1>3, <2>1, NotPublishing DEF Publishing, At, Grown, ReleaseInv, Bumped
  <2>2. CASE pc'[k] = "idle"
    BY <2>2, NotPublishing
  <2> QED
    BY <1>2, <2>1, <2>2
<1>4. ASSUME Grown, NEW j \in Clones PROVE Publishing(j)'
  BY <1>1, <1>3, <1>4, OtherClone
<1>5. \A j \in Clones : Apart(j) \/ ~InCheckout(j)'
  BY <1>1, <1>2 DEF InCheckout
<1> QED
  BY <1>1, <1>4, <1>5, QuietStep

\* The tag that is pushed is the run's head.
LEMMA TagPublishes ==
  ASSUME ReleaseInv, Inv', NEW k \in Clones, PushTag(k)
  PROVE  ReleaseInv'
<1> DEFINE new == [commit |-> head[k], skipped |-> skipped[k]]
           w == version[k]
<1>1. /\ UNCHANGED <<commits, origin, checkout, shared, fork, skipped, version, head, tags>>
      /\ pc[k] = "push tag" /\ pc'[k] = "checkout"
      /\ \A j \in Clones \ {k} : Apart(j)
  BY DEF PushTag, Command, forkVars, ReleaseInv, Inv, Types, Apart
<1>2. Chained(commits)' /\ Grown
  BY <1>1, NothingGrows
<1>3. Publishing(k) /\ head[k] \in Numbers
  BY DEF ReleaseInv, Inv, Types
<1>4. Sound(new, w)
  BY <1>1, <1>3 DEF Sound, Published, Publishing, Bumped
<1>5. \A v \in Versions : released'[v] = released[v] \/ (v = w /\ released'[v] = new)
  BY <1>1, <1>3 DEF PushTag, Publishing, ReleaseInv, Inv, Types
<1> HIDE DEF new, w
<1>6. Releases'
  <2>1. Releases
    BY DEF ReleaseInv
  <2>2. ASSUME NEW v \in Versions, released'[v] # None PROVE SoundNext(released'[v], v)
    <3>1. Sound(released'[v], v)
      BY <1>4, <1>5, <2>1, <2>2 DEF Releases
    <3> QED
      BY <1>2, <3>1, StaysSound
  <2>3. ASSUME NEW v \in Versions, fork[v] # None, ~fork[v].shared
        PROVE  /\ fork[v].descriptor # Upstream /\ fork[v].descriptor.version = v
               /\ SoundNext(fork[v].descriptor, v)
    BY <1>2, <2>1, <2>3, StaysSound DEF Releases
  <2> QED
    BY <1>1, <2>2, <2>3 DEF Releases, Sound, SoundNext, Published
<1>7. Publishing(k)'
  BY <1>1, <1>2, <1>3 DEF Publishing, At, Grown, Bumped
<1>8. ASSUME NEW j \in Clones PROVE Publishing(j)'
  BY <1>1, <1>2, <1>7, OtherClone
<1>9. \A j \in Clones : Alone(j)'
  BY <1>1, StaysAlone DEF InCheckout
<1> QED
  BY <1>2, <1>6, <1>8, <1>9 DEF ReleaseInv

\* What a run writes and commits in the fork's checkout is its own, unless
\* another was there.
LEMMA CheckoutSteps ==
  ASSUME ReleaseInv, Inv', NEW k \in Clones, Checkout(k) \/ Copy(k) \/ Fill(k) \/ CommitDescriptor(k)
  PROVE  ReleaseInv'
<1>1. /\ UNCHANGED <<commits, tree, origin, released, fork, skipped, version, head, tags>>
      /\ <<pc[k], pc'[k]>> \in {<<"checkout", "copy">>, <<"copy", "fill">>, <<"fill", "descriptor">>,
                               <<"descriptor", "push descriptor">>}
      /\ \A j \in Clones \ {k} : Apart(j)
  BY DEF Checkout, Copy, Fill, CommitDescriptor, InFork, Command, ReleaseInv, Inv, Types, Apart
<1>2. Chained(commits)' /\ Grown
  BY <1>1, NothingGrows
<1>3. Publishing(k)'
  BY <1>1, <1>2 DEF Publishing, At, Grown, Bumped, ReleaseInv
<1>4. ASSUME NEW j \in Clones PROVE Publishing(j)'
  BY <1>1, <1>2, <1>3, OtherClone
<1>5. /\ checkout = [branch |-> checkout.branch, work |-> checkout.work, local |-> checkout.local]
      /\ checkout.branch \in Versions /\ DOMAIN checkout.local = Versions
      /\ version[k] \in Versions /\ head[k] \in Numbers /\ Made(k).commit = head[k]
      /\ skipped[k] \in SUBSET Skippable
  BY DEF ReleaseInv, Inv, Types, ForkTypes, Made
<1>6. Alone(k)'
  <2>1. CASE Checkout(k)
    <3>1. k \notin shared' => \A j \in Clones \ {k} : ~InCheckout(j)
      BY <2>1 DEF Checkout
    <3>2. checkout'.branch = version[k] /\ pc'[k] = "copy"
      BY <1>1, <2>1 DEF Checkout, InFork, Command
    <3> QED
      BY <1>1, <3>1, <3>2 DEF Alone, InCheckout, Apart
  <2>2. CASE ~Checkout(k)
    <3>1. UNCHANGED shared /\ InCheckout(k)
      BY <2>2 DEF Copy, Fill, CommitDescriptor, InFork, Command, InCheckout
    <3> SUFFICES ASSUME k \notin shared PROVE Alone(k)'
      BY <3>1 DEF Alone
    <3>2. /\ \A j \in Clones \ {k} : ~InCheckout(j)
          /\ checkout.branch = version[k]
          /\ pc[k] = "fill" => checkout.work = [version |-> version[k], commit |-> None, skipped |-> {}]
          /\ pc[k] = "descriptor" => checkout.work = Made(k)
      BY <3>1 DEF Alone, ReleaseInv
    <3>3. \A j \in Clones \ {k} : ~InCheckout(j)'
      BY <1>1, <3>2 DEF Apart, InCheckout
    <3>4. CASE Copy(k)
      <4>1. tree[k].descriptor = version[k]
        BY <3>4 DEF Copy, InFork, Command, ReleaseInv, Inv, RunInv, Bumped, Manifests
      <4>2. /\ checkout'.branch = version[k] /\ pc'[k] = "fill"
            /\ checkout'.work = [version |-> version[k], commit |-> None, skipped |-> {}]
        BY <1>1, <1>5, <3>2, <3>4, <4>1 DEF Copy, InFork, Command
      <4> QED
        BY <1>1, <3>3, <4>2 DEF Alone
    <3>5. CASE Fill(k)
      <4>1. pc[k] = "fill" /\ pc'[k] = "descriptor"
        BY <1>1, <3>5 DEF Fill, InFork, Command
      <4>2. checkout.work = [version |-> version[k], commit |-> None, skipped |-> {}]
        BY <3>2, <4>1
      <4>3. checkout.work \in Descriptors
        BY <1>5, <4>2 DEF Descriptors
      <4>4. checkout.work # Upstream /\ checkout.work.commit = None
        BY <4>2, <4>3, VersionsAssumption
      <4>5. checkout' = [checkout EXCEPT !.work =
                           [version |-> checkout.work.version, commit |-> head[k], skipped |-> skipped[k]]]
        BY <1>5, <3>5, <4>4 DEF Fill, Sha
      <4>6. checkout.work.version = version[k]
        BY <4>2
      <4>7. checkout'.branch = version[k] /\ checkout'.work = Made(k)
        BY <1>5, <3>2, <4>5, <4>6 DEF Made
      <4> QED
        BY <1>1, <3>3, <4>1, <4>7 DEF Alone, Made
    <3>6. CASE CommitDescriptor(k)
      <4>1. pc[k] = "descriptor" /\ pc'[k] = "push descriptor"
        BY <1>1, <3>6 DEF CommitDescriptor, InFork, Command
      <4>2. checkout.work = Made(k)
        BY <3>2, <4>1
      <4>3. /\ checkout'.branch = version[k]
            /\ checkout'.local[version[k]] = Made(k)
        BY <1>5, <3>2, <3>6, <4>2 DEF CommitDescriptor
      <4> QED
        BY <1>1, <3>3, <4>1, <4>3 DEF Alone, Made
    <3> QED
      BY <2>2, <3>4, <3>5, <3>6
  <2> QED
    BY <2>1, <2>2
<1>7. ASSUME NEW j \in Clones \ {k} PROVE Alone(j)'
  <2> SUFFICES ASSUME InCheckout(j), j \notin shared' PROVE FALSE
    BY <1>1 DEF Alone, InCheckout, Apart
  <2>1. CASE Checkout(k)
    BY <2>1 DEF Checkout
  <2>2. CASE ~Checkout(k)
    <3>1. UNCHANGED shared /\ InCheckout(k)
      BY <2>2 DEF Copy, Fill, CommitDescriptor, InFork, Command, InCheckout
    <3> QED
      BY <3>1 DEF ReleaseInv, Alone
  <2> QED
    BY <2>1, <2>2
<1> QED
  BY <1>1, <1>2, <1>4, <1>6, <1>7, NothingPublished DEF ReleaseInv

\* The descriptor a run pushes is the one it made, unless another run was there.
LEMMA DescriptorPublishes ==
  ASSUME ReleaseInv, Inv', NEW k \in Clones, PushDescriptor(k)
  PROVE  ReleaseInv'
<1> DEFINE new == [descriptor |-> checkout.local[version[k]], shared |-> k \in shared]
           w == version[k]
<1>1. /\ UNCHANGED <<commits, origin, released, checkout, shared, skipped, version, head, tags>>
      /\ pc[k] = "push descriptor" /\ pc'[k] = "pr"
      /\ \A j \in Clones \ {k} : Apart(j)
  BY DEF PushDescriptor, InFork, Command, ReleaseInv, Inv, Types, Apart
<1>2. Chained(commits)' /\ Grown
  BY <1>1, NothingGrows
<1>3. Publishing(k) /\ Alone(k) /\ head[k] \in Numbers /\ w \in Versions /\ skipped[k] \in SUBSET Skippable
  BY DEF ReleaseInv, Inv, Types
<1>4. ~new.shared => new.descriptor = Made(k)
  BY <1>1, <1>3 DEF Alone, InCheckout
<1>5. /\ Sound(Made(k), w) /\ Made(k).version = w /\ Made(k) # Upstream
  <2>1. Sound(Made(k), w) /\ Made(k).version = w
    BY <1>1, <1>3 DEF Sound, Published, Publishing, Bumped, Made
  <2>2. Made(k) \in Descriptors
    BY <1>3 DEF Made, Descriptors, Numbers
  <2> QED
    BY <2>1, <2>2, VersionsAssumption
<1>6. \A v \in Versions : fork'[v] = fork[v] \/ (v = w /\ fork'[v] = new)
  BY DEF PushDescriptor, ReleaseInv, Inv, Types, ForkTypes
<1> HIDE DEF new, w
<1>7. Releases'
  <2>1. Releases
    BY DEF ReleaseInv
  <2>2. ASSUME NEW v \in Versions, released[v] # None PROVE SoundNext(released[v], v)
    BY <1>2, <2>1, <2>2, StaysSound DEF Releases
  <2>3. ASSUME NEW v \in Versions, fork'[v] # None, ~fork'[v].shared
        PROVE  /\ fork'[v].descriptor # Upstream /\ fork'[v].descriptor.version = v
               /\ SoundNext(fork'[v].descriptor, v)
    <3>1. /\ fork'[v].descriptor # Upstream /\ fork'[v].descriptor.version = v
          /\ Sound(fork'[v].descriptor, v)
      BY <1>4, <1>5, <1>6, <2>1, <2>3 DEF Releases
    <3> QED
      BY <1>2, <3>1, StaysSound
  <2> QED
    BY <1>1, <2>2, <2>3 DEF Releases, Sound, SoundNext, Published
<1>8. ASSUME NEW j \in Clones PROVE Publishing(j)'
  <2>1. Publishing(k)'
    <3>1. pc'[k] \in {"idle", "test", "bump", "commit", "pr"}
      BY <1>1
    <3> QED
      BY <3>1, NotPublishing
  <2>2. CASE j # k
    BY <1>1, <1>2, <2>2, OtherClone
  <2> QED
    BY <2>1, <2>2
<1>9. \A j \in Clones : Alone(j)'
  BY <1>1, StaysAlone DEF InCheckout
<1> QED
  BY <1>2, <1>7, <1>8, <1>9 DEF ReleaseInv

\* A step declined that had nothing to do is as good as done.
LEMMA DeclineStep ==
  ASSUME ReleaseInv, Inv', NEW k \in Clones, Decline(k)
  PROVE  ReleaseInv'
<1>1. /\ UNCHANGED <<commits, origin, released, forkVars, version, head, tags, tree>>
      /\ \A j \in Clones \ {k} : Apart(j)
  BY DEF Decline, Command, remoteVars, ReleaseInv, Inv, Types, Apart
<1>2. /\ skipped[k] \subseteq skipped'[k]
      /\ pc[k] = "commit" /\ Dirty(k) => "commit" \in skipped'[k]
      /\ pc[k] = "push" /\ head[k] \notin History(origin) => "push" \in skipped'[k]
  BY DEF Decline, ReleaseInv, Inv, Types
<1>3. <<pc[k], pc'[k]>> \in {<<"commit", "push">>, <<"push", "tag">>, <<"tag", "checkout">>,
                             <<"descriptor", "pr">>, <<"pr", "idle">>}
  BY DEF Decline, Command, ReleaseInv, Inv, Types
<1>4. ASSUME Grown PROVE Publishing(k)'
  <2>1. CASE pc[k] = "commit"
    <3>1. pc'[k] = "push"
      BY <1>3, <2>1
    <3>2. "commit" \notin skipped'[k] => commits[head[k]].tree = At(version[k])
      <4>1. tree[k] = At(version[k])
        BY <2>1, InStepAt DEF ReleaseInv
      <4> QED
        BY <1>2, <2>1, <4>1 DEF Dirty
    <3> QED
      BY <1>1, <3>1, <3>2 DEF Publishing, At
  <2>2. CASE pc[k] = "push"
    <3>1. pc'[k] = "tag"
      BY <1>3, <2>2
    <3>2. "commit" \notin skipped'[k] => commits[head[k]].tree = At(version[k])
      BY <1>2, <2>2 DEF ReleaseInv, Publishing, Bumped
    <3>3. "push" \notin skipped'[k] => head[k] \in History(origin)'
      BY <1>2, <1>4, <2>2 DEF Grown
    <3> QED
      BY <1>1, <3>1, <3>2, <3>3 DEF Publishing, At
  <2>3. CASE pc[k] = "tag"
    <3>1. pc'[k] = "checkout"
      BY <1>3, <2>3
    <3>2. "commit" \notin skipped'[k] => commits[head[k]].tree = At(version[k])
      BY <1>2, <2>3 DEF ReleaseInv, Publishing, Bumped
    <3>3. "push" \notin skipped'[k] => head[k] \in History(origin)'
      BY <1>2, <1>4, <2>3 DEF Grown, ReleaseInv, Publishing, Bumped
    <3> QED
      BY <1>1, <3>1, <3>2, <3>3 DEF Publishing, At
  <2>4. CASE pc[k] \in {"descriptor", "pr"}
    <3>1. pc'[k] \in {"pr", "idle"}
      BY <1>3, <2>4
    <3> QED
      BY <3>1, NotPublishing
  <2> QED
    BY <1>3, <2>1, <2>2, <2>3, <2>4
<1>5. ASSUME Grown, NEW j \in Clones PROVE Publishing(j)'
  BY <1>1, <1>4, <1>5, OtherClone
<1>6. \A j \in Clones : Apart(j) \/ ~InCheckout(j)'
  BY <1>1, <1>3 DEF InCheckout
<1> QED
  BY <1>1, <1>5, <1>6, QuietStep

LEMMA InitReleaseInv == Init => ReleaseInv
<1> SUFFICES ASSUME Init PROVE ReleaseInv
  OBVIOUS
<1>1. Chained(commits) /\ Len(commits) = 1 /\ commits[1].tree = At(First)
  BY DEF Init, Chained
<1>2. 1 \in History(origin)
  <2>1. 1 \in HistoryOf(commits, 1)
    BY <1>1, HistoryBounds
  <2> QED
    BY <2>1, HistoryIs DEF Init
<1>3. Releases
  BY <1>1, <1>2 DEF Init, Releases, Sound, Published, Numbers
<1>4. \A k \in Clones : Publishing(k) /\ Alone(k)
  BY DEF Init, Publishing, Alone, InCheckout, Bumped
<1> QED
  BY <1>1, <1>3, <1>4, InitInv DEF Init, ReleaseInv

LEMMA NextReleaseInv == ReleaseInv /\ [Next]_vars => ReleaseInv'
<1> SUFFICES ASSUME ReleaseInv, [Next]_vars PROVE ReleaseInv'
  OBVIOUS
<1>1. Inv'
  BY NextInv DEF ReleaseInv
<1>2. CASE UNCHANGED vars
  <2>1. ASSUME NEW j \in Clones, Grown PROVE Publishing(j)'
    BY <1>2, <2>1, OtherClone DEF vars, Apart
  <2> QED
    BY <1>1, <1>2, <2>1, QuietStep DEF vars, forkVars, Apart
<1>3. ASSUME NEW v \in Versions, Merge(v) PROVE ReleaseInv'
  <2>1. ASSUME NEW j \in Clones, Grown PROVE Publishing(j)'
    BY <1>3, <2>1, OtherClone DEF Merge, Apart
  <2> QED
    BY <1>1, <1>3, <2>1, QuietStep DEF Merge, Apart
<1>4. ASSUME NEW k \in Clones,
             \/ \E v \in Versions : MovePin(k, v) \/ Start(k, v)
             \/ Restore(k) \/ Pull(k) \/ Running(k) \/ Prompted(k) \/ Stop(k)
      PROVE  ReleaseInv'
  BY <1>1, <1>4, BetweenRuns, BeforeCommit, CommitPublishes, PushPublishes, TagSteps, TagPublishes,
     CheckoutSteps, DescriptorPublishes, DeclineStep DEF Running, Prompted
<1>5. CASE Done
  BY <1>2, <1>5 DEF Done
<1> QED
  BY <1>2, <1>3, <1>4, <1>5 DEF Next

LEMMA AlwaysReleaseInv == Spec => []ReleaseInv
BY InitReleaseInv, NextReleaseInv, PTL DEF Spec

\* What a run publishes as a version is a commit that carries the version in
\* every manifest, unless the run was told not to make that commit, and that
\* origin's branch has, unless it was told not to push it: by its tag always
\* (release.sh, tag), by the descriptor it pushes to the fork, which names the
\* version too, if no other run was in the fork's checkout meanwhile.
THEOREM PublishedIsReleaseHolds == Spec => []PublishedIsRelease
<1>1. ASSUME ReleaseInv PROVE PublishedIsRelease
  <2>1. Releases /\ None \notin Numbers
    BY <1>1, VersionsAssumption DEF ReleaseInv, Numbers
  <2> QED
    BY <2>1 DEF Releases, Sound, PublishedIsRelease, Descriptive
<1> QED
  BY <1>1, AlwaysReleaseInv, PTL

\* No step takes a commit from the branch at origin: the driver's one push of a
\* branch there is without -f.
THEOREM BranchOnlyGrowsHolds == Spec => BranchOnlyGrows
<1>1. ReleaseInv /\ [Next]_vars => [History(origin) \subseteq History(origin')]_vars
  <2> SUFFICES ASSUME ReleaseInv, [Next]_vars PROVE History(origin) \subseteq History(origin')
    OBVIOUS
  <2>1. ASSUME UNCHANGED origin PROVE History(origin) \subseteq History(origin')
    BY <2>1
  <2>2. ASSUME NEW k \in Clones, Push(k) PROVE History(origin) \subseteq History(origin')
    BY <2>2, PushGrows
  <2>3. \/ UNCHANGED origin
        \/ \E k \in Clones : Push(k)
    <3>1. ASSUME NEW k \in Clones, NEW v \in Versions, MovePin(k, v) \/ Start(k, v) PROVE UNCHANGED origin
      BY <3>1 DEF MovePin, Moving, Start, Begin, remoteVars
    <3>2. ASSUME NEW k \in Clones, Restore(k) \/ Pull(k) \/ Stop(k) PROVE UNCHANGED origin
      BY <3>2 DEF Restore, Pull, Moving, Stop, remoteVars
    <3>3. ASSUME NEW k \in Clones, Running(k) PROVE UNCHANGED origin
      BY <3>3 DEF Running, Test, Stamp, BumpDone, TagExists, PushTag,
         Checkout, Copy, Fill, PushDescriptor, InFork, remoteVars
    <3>4. ASSUME NEW k \in Clones, Prompted(k) PROVE Push(k) \/ UNCHANGED origin
      BY <3>4 DEF Prompted, Commit, Tag, CommitDescriptor, InFork, Pr, Decline, remoteVars
    <3>5. ASSUME (\E v \in Versions : Merge(v)) \/ Done \/ UNCHANGED vars PROVE UNCHANGED origin
      BY <3>5 DEF Merge, Done, vars, remoteVars
    <3>6. CASE Next
      BY <3>1, <3>2, <3>3, <3>4, <3>5, <3>6 DEF Next
    <3> QED
      BY <3>5, <3>6
  <2> QED
    BY <2>1, <2>2, <2>3
<1> QED
  BY <1>1, AlwaysReleaseInv, PTL DEF Spec, BranchOnlyGrows
=============================================================================
