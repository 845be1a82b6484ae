------------------------------- MODULE Release -------------------------------
(***************************************************************************)
(* The release driver (src/scripts/release.sh): check the version against  *)
(* the pinned laterite, test, stamp the version into the manifests, and,   *)
(* each behind a y/N prompt, commit, push the branch, tag, commit and push *)
(* the descriptor in a checkout of the fork, and open the community PR.  A *)
(* maintainer may run it in several clones of the repository, answer any   *)
(* prompt with no, stop it anywhere and run it again; any command may      *)
(* fail, which stops it (set -e).  The clones are siblings, so they share  *)
(* one checkout of the fork (FORK_DIR).  RELEASE_BRANCH is "", FORCE_TAG 0 *)
(* and BUMP_VERSION 1, as the script has them.                             *)
(***************************************************************************)
EXTENDS Integers, Sequences

CONSTANTS
  Clones,
  Versions,    \* released in this order; the first one is out
  None,
  Upstream,    \* the descriptor at the head of upstream's main, whichever that is
  Plans,       \* bound: what is released in a behaviour, in how many runs: [versions, runs]
  MaxCommits   \* bound: commits there are

Skippable == {"commit", "push"}
Descriptors == [version : Versions, commit : Nat \cup {None}, skipped : SUBSET Skippable]

ASSUME VersionsAssumption ==
  /\ \E v \in Versions : \A w \in Versions : v <= w
  /\ None \notin Versions \cup Nat
  /\ Upstream \notin Descriptors
ASSUME BoundsAssumption ==
  /\ MaxCommits \in Nat
  /\ \A p \in Plans : p.versions \subseteq Versions /\ p.runs \in Nat

Manifests == {"cargo", "descriptor", "functions", "lock"}
Stamping == <<"cargo", "descriptor", "functions", "lock">>
First == CHOOSE v \in Versions : \A w \in Versions : v <= w

VARIABLES
  commits,   \* the commits there are, in the order they were made: [tree, parent]
  tree,      \* clone -> its working tree: the version each manifest carries, and the pin
  head,      \* clone -> its branch
  tags,      \* clone -> version -> the commit its own tag names
  origin,    \* the branch at origin
  released,  \* version -> [commit, skipped], the tag at origin
  checkout,  \* the fork's checkout: the branch it is on, the descriptor in its
             \* working tree, and the one at the head of each of its branches
  shared,    \* history: clones whose run did not have the checkout to itself
  fork,      \* version -> [descriptor, shared], the fork's branch as last pushed
  prs,       \* versions with an open PR
  pc,        \* clone -> the next command of its run
  version,   \* clone -> what its run releases
  skipped,   \* clone -> the prompts its run declined that had something to do
  plan,
  runs       \* runs started

forkVars == <<checkout, shared, fork>>
remoteVars == <<origin, released, forkVars, prs>>
vars == <<commits, tree, head, tags, origin, released, checkout, shared, fork, prs,
          pc, version, skipped, plan, runs>>

At(v) == [m \in Manifests \cup {"pin"} |-> v]

Init ==
  /\ commits = <<[tree |-> At(First), parent |-> 0]>>
  /\ tree = [k \in Clones |-> At(First)]
  /\ head = [k \in Clones |-> 1]
  /\ tags = [k \in Clones |-> [v \in Versions |-> IF v = First THEN 1 ELSE None]]
  /\ origin = 1
  /\ released = [v \in Versions |-> IF v = First THEN [commit |-> 1, skipped |-> {}] ELSE None]
  /\ checkout = [branch |-> First, work |-> Upstream, local |-> [v \in Versions |-> Upstream]]
  /\ shared = {}
  /\ fork = [v \in Versions |-> None]
  /\ prs = {}
  /\ pc = [k \in Clones |-> "idle"]
  /\ version = [k \in Clones |-> First]
  /\ skipped = [k \in Clones |-> {}]
  /\ plan \in Plans
  /\ runs = 0

\* The commits of a branch: each has one parent.
History(c) ==
  LET older[n \in 0..Len(commits)] == IF n = 0 THEN {} ELSE {n} \cup older[commits[n].parent]
  IN older[c]

Dirty(k) == tree[k] # commits[head[k]].tree

-----------------------------------------------------------------------------
(* The maintainer, between runs *)

Moving(k) ==
  /\ pc[k] = "idle"
  /\ UNCHANGED <<commits, remoteVars, pc, version, skipped, plan, runs>>

\* LATERITE_VERSION is moved to the next release, and the sources with it.
MovePin(k, v) ==
  /\ Moving(k)
  /\ v \in plan.versions
  /\ v > tree[k].pin
  /\ tree' = [tree EXCEPT ![k].pin = v]
  /\ UNCHANGED <<head, tags>>

\* The working tree is put back as it was committed.
Restore(k) ==
  /\ Moving(k)
  /\ Dirty(k)
  /\ tree' = [tree EXCEPT ![k] = commits[head[k]].tree]
  /\ UNCHANGED <<head, tags>>

\* A clean clone is brought up to date, with the tags of what it fetches.
Pull(k) ==
  /\ Moving(k)
  /\ ~Dirty(k)
  /\ head[k] \in History(origin)
  /\ head' = [head EXCEPT ![k] = origin]
  /\ tree' = [tree EXCEPT ![k] = commits[origin].tree]
  /\ tags' = [tags EXCEPT ![k] =
       [v \in Versions |->
          IF @[v] = None /\ released[v] # None /\ released[v].commit \in History(origin)
          THEN released[v].commit ELSE @[v]]]

-----------------------------------------------------------------------------
(* A run *)

Begin(k, v) ==
  /\ pc[k] = "idle"
  /\ runs < plan.runs
  /\ runs' = runs + 1
  /\ pc' = [pc EXCEPT ![k] = "test"]
  /\ version' = [version EXCEPT ![k] = v]
  /\ skipped' = [skipped EXCEPT ![k] = {}]
  /\ UNCHANGED <<commits, tree, head, tags, remoteVars, plan>>

\* Mutant: any version is released.
StartAny(k, v) == Begin(k, v)

\* The version must be the one LATERITE_VERSION pins.
Start(k, v) == v = tree[k].pin /\ Begin(k, v)

\* A command fails, or the maintainer stops the script.
Stop(k) ==
  /\ pc[k] # "idle"
  /\ pc' = [pc EXCEPT ![k] = "idle"]
  /\ UNCHANGED <<commits, tree, head, tags, remoteVars, version, skipped, plan, runs>>

Command(k, at, next) ==
  /\ pc[k] = at
  /\ pc' = [pc EXCEPT ![k] = next]
  /\ UNCHANGED <<version, plan, runs>>

\* cargo test: three manifests must be in step before the bump; the lock is
\* brought in line with Cargo.toml on the way.
Test(k) ==
  /\ Command(k, "test", "bump")
  /\ tree[k].cargo = tree[k].descriptor
  /\ tree[k].cargo = tree[k].functions
  /\ tree' = [tree EXCEPT ![k].lock = tree[k].cargo]
  /\ UNCHANGED <<commits, head, tags, remoteVars, skipped>>

Unstamped(k) == {i \in DOMAIN Stamping : tree[k][Stamping[i]] # version[k]}

\* Mutant: the lock is left to the tests.
ThreeToStamp(k) == {Stamping[i] : i \in {i \in Unstamped(k) \ {4} : \A j \in Unstamped(k) : i <= j}}

\* One manifest after the other is stamped, Cargo.lock last.
ToStamp(k) == {Stamping[i] : i \in {i \in Unstamped(k) : \A j \in Unstamped(k) : i <= j}}

Stamp(k) ==
  /\ Command(k, "bump", "bump")
  /\ \E m \in ToStamp(k) : tree' = [tree EXCEPT ![k][m] = version[k]]
  /\ UNCHANGED <<commits, head, tags, remoteVars, skipped>>

BumpDone(k) ==
  /\ Command(k, "bump", "commit")
  /\ ToStamp(k) = {}
  /\ UNCHANGED <<commits, tree, head, tags, remoteVars, skipped>>

\* git commit fails where there is nothing to commit.
Commit(k) ==
  /\ Command(k, "commit", "push")
  /\ Dirty(k)
  /\ Len(commits) < MaxCommits
  /\ commits' = Append(commits, [tree |-> tree[k], parent |-> head[k]])
  /\ head' = [head EXCEPT ![k] = Len(commits) + 1]
  /\ UNCHANGED <<tree, tags, remoteVars, skipped>>

\* Mutant: the branch is pushed with -f.
PushForced(k) ==
  /\ Command(k, "push", "tag")
  /\ origin' = head[k]
  /\ UNCHANGED <<commits, tree, head, tags, released, forkVars, prs, skipped>>

\* git push: only a fast-forward.
Push(k) ==
  /\ Command(k, "push", "tag")
  /\ origin \in History(head[k])
  /\ origin' = head[k]
  /\ UNCHANGED <<commits, tree, head, tags, released, forkVars, prs, skipped>>

\* Whether the tag exists is asked of this clone.
TagExists(k) ==
  /\ Command(k, "tag", "checkout")
  /\ tags[k][version[k]] # None
  /\ UNCHANGED <<commits, tree, head, tags, remoteVars, skipped>>

Tag(k) ==
  /\ Command(k, "tag", "push tag")
  /\ tags[k][version[k]] = None
  /\ tags' = [tags EXCEPT ![k][version[k]] = head[k]]
  /\ UNCHANGED <<commits, tree, head, remoteVars, skipped>>

\* git push -f of the tag.
PushTag(k) ==
  /\ Command(k, "push tag", "checkout")
  /\ released' = [released EXCEPT ![version[k]] =
                    [commit |-> tags[k][version[k]], skipped |-> skipped[k]]]
  /\ UNCHANGED <<commits, tree, head, tags, origin, forkVars, prs, skipped>>

\* Mutant: the descriptor pins what the tag names.
TagSha(k) == IF tags[k][version[k]] = None THEN head[k] ELSE tags[k][version[k]]

\* rev-parse HEAD
Sha(k) == head[k]

\* Where a run is between its checkout -B and its push of the fork's branch.
InCheckout(k) == pc[k] \in {"copy", "fill", "descriptor", "push descriptor"}

InFork(k, at, next) ==
  /\ Command(k, at, next)
  /\ UNCHANGED <<commits, tree, head, tags, origin, released, prs, skipped>>

Tip == checkout.local[checkout.branch]

\* checkout -B of the version's branch at upstream's main: a descriptor that is
\* not committed is carried over, and refused where the branch it was edited on
\* has another one than upstream.
Checkout(k) ==
  /\ InFork(k, "checkout", "copy")
  /\ checkout.work = Tip \/ Tip = Upstream
  /\ checkout' = [branch |-> version[k],
                  work   |-> IF checkout.work = Tip THEN Upstream ELSE checkout.work,
                  local  |-> [checkout.local EXCEPT ![version[k]] = Upstream]]
  /\ LET others == {j \in Clones \ {k} : InCheckout(j)}
     IN shared' = IF others = {} THEN shared \ {k} ELSE shared \cup others \cup {k}
  /\ UNCHANGED fork

\* cp: the clone's own descriptor, with the placeholder for the commit.
Copy(k) ==
  /\ InFork(k, "copy", "fill")
  /\ checkout' = [checkout EXCEPT !.work =
                    [version |-> tree[k].descriptor, commit |-> None, skipped |-> {}]]
  /\ UNCHANGED <<shared, fork>>

\* sed: the placeholder, if it is still there, becomes the run's commit.
Fill(k) ==
  /\ InFork(k, "fill", "descriptor")
  /\ checkout' = IF checkout.work # Upstream /\ checkout.work.commit = None
                 THEN [checkout EXCEPT !.work =
                         [version |-> @.version, commit |-> Sha(k), skipped |-> skipped[k]]]
                 ELSE checkout
  /\ UNCHANGED <<shared, fork>>

\* What is in the working tree by now is committed, to the branch it is on by
\* now; git commit fails where there is nothing to commit.
CommitDescriptor(k) ==
  /\ InFork(k, "descriptor", "push descriptor")
  /\ checkout.work # Tip
  /\ checkout' = [checkout EXCEPT !.local[checkout.branch] = checkout.work]
  /\ UNCHANGED <<shared, fork>>

\* The version's branch is pushed with -f.
PushDescriptor(k) ==
  /\ InFork(k, "push descriptor", "pr")
  /\ fork' = [fork EXCEPT ![version[k]] =
                [descriptor |-> checkout.local[version[k]], shared |-> k \in shared]]
  /\ UNCHANGED <<checkout, shared>>

\* An open PR of the version's branch is used again; a new one needs a branch
\* with a commit of its own.
Pr(k) ==
  /\ Command(k, "pr", "idle")
  /\ \/ version[k] \in prs
     \/ fork[version[k]] # None /\ fork[version[k]].descriptor # Upstream
  /\ prs' = prs \cup {version[k]}
  /\ UNCHANGED <<commits, tree, head, tags, origin, released, forkVars, skipped>>

\* A prompt answered with no: its step is left out and the run goes on.
Decline(k) ==
  /\ \/ Command(k, "commit", "push")
     \/ Command(k, "push", "tag")
     \/ Command(k, "tag", "checkout") /\ tags[k][version[k]] = None
     \/ Command(k, "descriptor", "pr")
     \/ Command(k, "pr", "idle")
  /\ skipped' = [skipped EXCEPT ![k] =
       IF \/ pc[k] = "commit" /\ Dirty(k)
          \/ pc[k] = "push" /\ head[k] \notin History(origin)
       THEN @ \cup {pc[k]} ELSE @]
  /\ UNCHANGED <<commits, tree, head, tags, remoteVars>>

\* The community merges a PR.
Merge(v) ==
  /\ v \in prs
  /\ prs' = prs \ {v}
  /\ UNCHANGED <<commits, tree, head, tags, origin, released, forkVars, pc, version, skipped, plan, runs>>

Done ==
  /\ runs = plan.runs
  /\ \A k \in Clones : pc[k] = "idle"
  /\ UNCHANGED vars

Running(k) ==
  \/ Test(k) \/ Stamp(k) \/ BumpDone(k) \/ TagExists(k) \/ PushTag(k)
  \/ Checkout(k) \/ Copy(k) \/ Fill(k) \/ PushDescriptor(k)
Prompted(k) ==
  \/ Commit(k) \/ Push(k) \/ Tag(k) \/ CommitDescriptor(k) \/ Pr(k) \/ Decline(k)

Next ==
  \/ \E k \in Clones :
       \/ \E v \in Versions : MovePin(k, v) \/ Start(k, v)
       \/ Restore(k) \/ Pull(k)
       \/ Running(k) \/ Prompted(k) \/ Stop(k)
  \/ \E v \in Versions : Merge(v)
  \/ Done

\* What waits on nobody goes on; no prompt has to be answered.
Fairness == \A k \in Clones : WF_vars(Running(k))

Spec == Init /\ [][Next]_vars /\ Fairness

-----------------------------------------------------------------------------
(* Properties *)

TypeOK ==
  /\ origin \in DOMAIN commits
  /\ \A k \in Clones :
       /\ head[k] \in DOMAIN commits
       /\ tree[k] \in [Manifests \cup {"pin"} -> Versions]
       /\ tags[k] \in [Versions -> DOMAIN commits \cup {None}]
       /\ pc[k] # "idle" => version[k] = tree[k].pin
  /\ LET descriptors == {d \in Descriptors : d.commit \in DOMAIN commits \cup {None}} \cup {Upstream}
     IN /\ checkout \in [branch : Versions, work : descriptors, local : [Versions -> descriptors]]
        /\ \A v \in Versions :
             fork[v] # None => fork[v] \in [descriptor : descriptors, shared : BOOLEAN]
  /\ plan \in Plans
  /\ runs \in 0..plan.runs

\* Wherever a run is stopped and however the next one goes on, what the script
\* commits carries one version in its four manifests (Cargo.lock once did not).
CommitsInStep ==
  \A c \in DOMAIN commits : \A m \in Manifests : commits[c].tree[m] = commits[c].tree.pin

\* What a run publishes as version v is a commit that says it is v, unless the
\* run was told not to make that commit, and that origin has, unless it was
\* told not to push it, whatever runs of this clone and of others came before or
\* go on beside it.  By its tag always; by a descriptor, which says it is v too,
\* if no other run was in the fork's checkout at the time: nothing keeps it out.
Published(release, v) ==
  /\ "commit" \notin release.skipped => commits[release.commit].tree = At(v)
  /\ "push" \notin release.skipped => release.commit \in History(origin)
Descriptive(descriptor, v) ==
  /\ descriptor # Upstream
  /\ descriptor.version = v
  /\ descriptor.commit # None
  /\ Published(descriptor, v)
PublishedIsRelease ==
  \A v \in Versions :
    /\ released[v] # None => Published(released[v], v)
    /\ fork[v] # None /\ ~fork[v].shared => Descriptive(fork[v].descriptor, v)

\* The branch at origin never loses a commit, though tags and the fork's
\* branches are pushed with -f.
BranchOnlyGrows == [][History(origin) \subseteq History(origin')]_vars

\* release.sh: an existing tag is only moved with FORCE_TAG=1.
TagStays == [][\A v \in Versions : released[v] # None => released'[v].commit = released[v].commit]_vars
=============================================================================
