------------------------------ MODULE HandoffProofs ------------------------------
(***************************************************************************)
(* Theorems about the way from an agent's workspace to a sealed candidate, *)
(* for any number of paths, of contents, of commands and of runs.          *)
(*                                                                         *)
(* Nothing is locked there; every stage compares the bytes it reads with   *)
(* what the stage before accepted.  What that detects depends on how often *)
(* another process writes between two readings: the theorems say how many  *)
(* writes it takes to go unnoticed.  What the bytes may be is then a       *)
(* matter of the plan and of the output policy alone, for any requests,    *)
(* profiles and outputs.                                                   *)
(***************************************************************************)
EXTENDS PlannedOutputs, SequenceTheorems, WellFoundedInduction, TLAPS

\* The steps after the index was read, the commit made, the directories made, the
\* artifacts captured and the evidence sealed.
Cloning == {"stagedAfterClone", "cloneMade", "checkoutForCommit", "add"}
Indexed == {"blobs", "commit"}
CommitMade ==
  {"committed", "checkoutCommitted", "checkoutForBuild", "identityForBuild", "build",
   "identityBuilt", "checkoutBuilt", "identityRebuilt", "artifactPath", "statePath"}
Directed == {"checkoutForCapture", "identityForCapture", "capture"}
Captures == {"identityCaptured", "seal"}
Seals == {"checkoutSealed", "identitySealed", "checkoutForRef", "stagedForRef", "ref"}
Late == Directed \cup Captures \cup Seals \cup {"anchored"}
HasCommit == CommitMade \cup Late
HasIndex == Cloning \cup Indexed \cup HasCommit

\* The checks between two steps.
Checked ==
  {"stagedForCopy", "stagedAfterCopy", "copyMade", "copyBefore", "copyAfter", "storeOutput",
   "stagedAfterClone", "cloneMade", "checkoutForCommit", "blobs", "committed",
   "checkoutCommitted", "checkoutForBuild", "identityForBuild", "identityBuilt", "checkoutBuilt",
   "identityRebuilt", "checkoutForCapture", "identityForCapture", "identityCaptured",
   "checkoutSealed", "identitySealed", "checkoutForRef", "stagedForRef"}

\* The steps in which the workspace is read or may be.
HasWorkspace == {"agent", "inputs", "walk", "accept", "copyFiles", "mint"}
Early == {"idle"} \cup HasWorkspace

TypeOK ==
  /\ run \in 0 .. MaxRuns /\ (pc # "idle" => run > 0)
  /\ at \in 0 .. Len(Paths) - 1
  /\ writes \in 0 .. MaxWrites /\ strays \in 0 .. MaxStrays
  /\ manifest \in Trees /\ inventory \in Trees
  /\ staging \in Trees \cup {None} /\ copy \in Trees \cup {None}
  /\ checkout \in Trees \cup {None} /\ index \in Trees \cup {None}
  /\ pc \in HasWorkspace => workspace \in Trees
  /\ pc = "copyFiles" => staging \in Trees
  /\ pc \in HasIndex => checkout \in Trees /\ index \in Trees

-----------------------------------------------------------------------------
LEMMA ChecksAre ==
  /\ DOMAIN Checks = Checked
  /\ Checks.stagedForCopy.what = "staging" /\ Checks.stagedForCopy.next = "fillCopy"
  /\ Checks.stagedAfterCopy.what = "staging" /\ Checks.stagedAfterCopy.next = "copyMade"
  /\ Checks.copyMade.what = "copy" /\ Checks.copyMade.next = "copyBefore"
  /\ Checks.copyBefore.what = "copy" /\ Checks.copyBefore.next = "command"
  /\ Checks.copyAfter.what = "copy" /\ Checks.copyAfter.next \in {"copyBefore", "storeOutput"}
  /\ Checks.storeOutput.what = "staging" /\ Checks.storeOutput.next = "clone"
  /\ Checks.stagedAfterClone.what = "staging" /\ Checks.stagedAfterClone.next = "cloneMade"
  /\ Checks.cloneMade.what = "checkout" /\ Checks.cloneMade.next = "checkoutForCommit"
  /\ Checks.checkoutForCommit.what = "checkout" /\ Checks.checkoutForCommit.next = "add"
  /\ Checks.blobs.what = "blobs" /\ Checks.blobs.next = "commit"
  /\ Checks.committed.what = "committed" /\ Checks.committed.next = "checkoutCommitted"
  /\ Checks.checkoutCommitted.what = "checkout"
  /\ Checks.checkoutCommitted.next = "checkoutForBuild"
  /\ Checks.checkoutForBuild.what = "checkout" /\ Checks.checkoutForBuild.next = "identityForBuild"
  /\ Checks.identityForBuild.what = "identity" /\ Checks.identityForBuild.next = "build"
  /\ Checks.identityBuilt.what = "identity" /\ Checks.identityBuilt.next = "checkoutBuilt"
  /\ Checks.checkoutBuilt.what = "checkout" /\ Checks.checkoutBuilt.next = "identityRebuilt"
  /\ Checks.identityRebuilt.what = "identity" /\ Checks.identityRebuilt.next = "artifactPath"
  /\ Checks.checkoutForCapture.what = "checkout"
  /\ Checks.checkoutForCapture.next = "identityForCapture"
  /\ Checks.identityForCapture.what = "identity" /\ Checks.identityForCapture.next = "capture"
  /\ Checks.identityCaptured.what = "identity" /\ Checks.identityCaptured.next = "seal"
  /\ Checks.checkoutSealed.what = "checkout" /\ Checks.checkoutSealed.next = "identitySealed"
  /\ Checks.identitySealed.what = "identity" /\ Checks.identitySealed.next = "checkoutForRef"
  /\ Checks.checkoutForRef.what = "checkout" /\ Checks.checkoutForRef.next = "stagedForRef"
  /\ Checks.stagedForRef.what = "staging" /\ Checks.stagedForRef.next = "ref"
BY DEF Checks, Checked, Is

LEMMA HoldsAre ==
  /\ Holds("staging") <=> Matches(staging, inventory)
  /\ Holds("copy") <=> Matches(copy, inventory)
  /\ Holds("checkout") <=> OwnCheckout
  /\ Holds("blobs") <=> Blobs
  /\ Holds("committed") <=> Committed
  /\ Holds("identity") <=> Identity
BY DEF Holds

\* Where a check that holds leads.
LEMMA Verified ==
  ASSUME Verify, pc' # "failed"
  PROVE  /\ pc = "stagedForCopy" => Matches(staging, inventory) /\ pc' = "fillCopy"
         /\ pc = "stagedAfterCopy" => Matches(staging, inventory) /\ pc' = "copyMade"
         /\ pc = "copyMade" => Matches(copy, inventory) /\ pc' = "copyBefore"
         /\ pc = "copyBefore" => Matches(copy, inventory) /\ pc' = "command"
         /\ pc = "copyAfter" =>
              Matches(copy, inventory) /\ pc' \in {"copyBefore", "storeOutput"}
         /\ pc = "storeOutput" => Matches(staging, inventory) /\ pc' = "clone"
         /\ pc = "stagedAfterClone" => Matches(staging, inventory) /\ pc' = "cloneMade"
         /\ pc = "cloneMade" => OwnCheckout /\ pc' = "checkoutForCommit"
         /\ pc = "checkoutForCommit" => OwnCheckout /\ pc' = "add"
         /\ pc = "blobs" => Blobs /\ pc' = "commit"
         /\ pc = "committed" => Committed /\ pc' = "checkoutCommitted"
         /\ pc = "checkoutCommitted" => OwnCheckout /\ pc' = "checkoutForBuild"
         /\ pc = "checkoutForBuild" => OwnCheckout /\ pc' = "identityForBuild"
         /\ pc = "identityForBuild" => Identity /\ pc' = "build"
         /\ pc = "identityBuilt" => Identity /\ pc' = "checkoutBuilt"
         /\ pc = "checkoutBuilt" => OwnCheckout /\ pc' = "identityRebuilt"
         /\ pc = "identityRebuilt" => Identity /\ pc' = "artifactPath"
         /\ pc = "checkoutForCapture" => OwnCheckout /\ pc' = "identityForCapture"
         /\ pc = "identityForCapture" => Identity /\ pc' = "capture"
         /\ pc = "identityCaptured" => Identity /\ pc' = "seal"
         /\ pc = "checkoutSealed" => OwnCheckout /\ pc' = "identitySealed"
         /\ pc = "identitySealed" => Identity /\ pc' = "checkoutForRef"
         /\ pc = "checkoutForRef" => OwnCheckout /\ pc' = "stagedForRef"
         /\ pc = "stagedForRef" => Matches(staging, inventory) /\ pc' = "ref"
         /\ pc \in Checked
<1>1. /\ pc \in DOMAIN Checks /\ Holds(Checks[pc].what) /\ pc' = Checks[pc].next
  BY DEF Verify, Goto
<1>2. QED
  BY <1>1, ChecksAre, HoldsAre DEF Checked

-----------------------------------------------------------------------------
(***************************************************************************)
(* The types of what the controller holds.                                 *)
(***************************************************************************)
LEMMA TreesAre ==
  /\ Baseline \in Trees /\ NoFiles \in Trees
  /\ \A i \in 1 .. Len(Paths) : Paths[i] \in Names
  /\ Len(Paths) \in Nat \ {0} /\ DOMAIN Paths = 1 .. Len(Paths)
<1>1. Paths \in Seq(Names) /\ Len(Paths) > 0
  BY HandoffConstants
<1>2. Baseline \in Trees /\ NoFiles \in Trees
  BY DEF Baseline, NoFiles, Trees, Contents
<1>3. QED
  BY <1>1, <1>2

LEMMA OverlayIs ==
  ASSUME NEW inv \in Trees
  PROVE  /\ Overlay(inv) \in Trees /\ Matches(Overlay(inv), inv)
BY TreesAre, NothingThere DEF Overlay, Trees, Matches, Files

\* What another process leaves is a tree.
LEMMA StraysAre ==
  ASSUME NEW tree \in Trees \cup {None}, NEW t \in Stray(tree)
  PROVE  tree \in Trees /\ t \in Trees
<1>1. tree # None
  BY DEF Stray
<1>2. PICK p \in Names, c \in Contents \ {Link} : t = [tree EXCEPT ![p] = c]
  BY <1>1 DEF Stray
<1>3. QED
  BY <1>1, <1>2 DEF Trees

LEMMA InitTypes == Init => TypeOK
<1> SUFFICES ASSUME Init PROVE TypeOK
  OBVIOUS
<1>1. MaxRuns \in Nat /\ MaxWrites \in Nat /\ MaxStrays \in Nat
  BY HandoffConstants
<1>2. QED
  BY <1>1, TreesAre DEF Init, TypeOK, HasWorkspace, HasIndex, Cloning, Indexed, HasCommit,
    CommitMade, Late, Directed, Captures, Seals

\* Where a step of the controller stays in the trees it has.
LEMMA VerifyMoves ==
  ASSUME Verify
  PROVE  /\ pc' \notin HasWorkspace
         /\ pc' \in HasIndex => pc \in HasIndex
         /\ pc' # "idle" /\ pc # "idle"
<1>1. CASE pc' = "failed"
  BY <1>1, ChecksAre DEF Verify, HasWorkspace, HasIndex, Cloning, Indexed, HasCommit, CommitMade,
    Late, Directed, Captures, Seals, Checked
<1>2. CASE pc' # "failed"
  BY <1>2, Verified DEF HasWorkspace, HasIndex, Cloning, Indexed, HasCommit, CommitMade,
    Late, Directed, Captures, Seals, Checked
<1>3. QED
  BY <1>1, <1>2

LEMMA TypeStep ==
  ASSUME TypeOK, [Next]_vars
  PROVE  TypeOK'
<1> USE DEF Goto, At, agentVars, walkVars, treeVars, durableVars, historyVars
<1>1. MaxRuns \in Nat /\ MaxWrites \in Nat /\ MaxStrays \in Nat
  BY HandoffConstants
<1>2. CASE UNCHANGED vars
  BY <1>2 DEF vars, TypeOK
<1>3. CASE Create \/ AgentReturns \/ Tamper \/ CheckInputs
  <2>1. 0 \in 0 .. Len(Paths) - 1
    BY TreesAre
  <2>2. /\ at' \in 0 .. Len(Paths) - 1 /\ run' \in 0 .. MaxRuns /\ (pc' # "idle" => run' > 0)
        /\ UNCHANGED <<writes, strays, manifest, inventory, staging, copy, checkout, index>>
    <3>1. CASE Create
      BY <1>1, <3>1 DEF Create, TypeOK
    <3>2. CASE AgentReturns
      BY <3>2 DEF AgentReturns, TypeOK
    <3>3. CASE Tamper
      BY <3>3 DEF Tamper, TypeOK
    <3>4. CASE CheckInputs
      BY <2>1, <3>4 DEF CheckInputs, TypeOK
    <3>5. QED
      BY <1>3, <3>1, <3>2, <3>3, <3>4
  <2>3. pc' \in HasWorkspace => workspace' \in Trees
    BY <1>3, TreesAre DEF Create, AgentReturns, Tamper, CheckInputs, TypeOK, HasWorkspace
  <2>4. /\ pc' \in HasIndex => pc \in HasIndex
        /\ pc' = "copyFiles" => pc = "copyFiles"
    BY <1>3 DEF Create, AgentReturns, Tamper, CheckInputs,
      HasIndex, Cloning, Indexed, HasCommit, CommitMade, Late, Directed, Captures, Seals
  <2>5. QED
    BY <2>2, <2>3, <2>4 DEF TypeOK
<1>4. CASE LateWrite
  <2>1. pc \in HasWorkspace /\ workspace \in Trees
    BY <1>4 DEF LateWrite, Walking, TypeOK, HasWorkspace
  <2>2. workspace' \in Trees
    BY <1>4, <2>1 DEF LateWrite, Trees
  <2>3. writes' \in 0 .. MaxWrites
    BY <1>1, <1>4 DEF LateWrite, TypeOK
  <2>4. UNCHANGED <<pc, run, at, manifest, inventory, strays, staging, copy, checkout, index>>
    BY <1>4 DEF LateWrite
  <2>5. QED
    BY <2>2, <2>3, <2>4 DEF TypeOK
<1>5. CASE Scan \/ CopyFile
  <2>1. at + 1 \in 1 .. Len(Paths) /\ (at + 1) % Len(Paths) \in 0 .. Len(Paths) - 1
    <3>1. at + 1 \in Nat \ {0} /\ at + 1 <= Len(Paths) /\ Len(Paths) \in Nat \ {0}
      BY TreesAre DEF TypeOK
    <3> DEFINE m == at + 1
               n == Len(Paths)
    <3>2. m \in Nat \ {0} /\ m <= n /\ n \in Nat \ {0}
      BY <3>1
    <3> HIDE DEF m, n
    <3>3. m \in 1 .. n /\ m % n \in 0 .. n - 1
      BY <3>2
    <3>4. QED
      BY <3>3 DEF m, n
  <2>2. Paths[at + 1] \in Names /\ workspace \in Trees
    BY <1>5, <2>1, TreesAre DEF Scan, CopyFile, TypeOK, HasWorkspace
  <2>3. workspace[Paths[at + 1]] \in Contents
    BY <2>2 DEF Trees
  <2>4. manifest' \in Trees /\ inventory' \in Trees /\ staging' \in Trees \cup {None}
    <3>1. manifest \in Trees /\ inventory \in Trees /\ staging \in Trees \cup {None}
      BY DEF TypeOK
    <3>2. \A t \in Trees : [t EXCEPT ![Paths[at + 1]] = workspace[Paths[at + 1]]] \in Trees
      BY <2>2, <2>3 DEF Trees
    <3>3. CASE Scan
      BY <3>1, <3>2, <3>3 DEF Scan
    <3>4. CASE CopyFile
      <4>1. staging \in Trees
        BY <3>4 DEF CopyFile, TypeOK
      <4>2. QED
        BY <3>1, <3>2, <3>4, <4>1 DEF CopyFile
    <3>5. QED
      BY <1>5, <3>3, <3>4
  <2>5. /\ at' = (at + 1) % Len(Paths) /\ pc' \in {"failed", "walk", "accept", "copyFiles", "mint"}
        /\ UNCHANGED <<run, workspace, writes, strays, copy, checkout, index>>
        /\ pc # "idle"
    BY <1>5 DEF Scan, CopyFile
  <2>6. pc' = "copyFiles" => staging' \in Trees
    <3>1. ASSUME CopyFile
          PROVE  staging' \in Trees
      <4>1. staging \in Trees
        BY <3>1 DEF CopyFile, TypeOK
      <4>2. QED
        BY <2>2, <2>3, <3>1, <4>1 DEF CopyFile, Trees
    <3>2. QED
      BY <1>5, <3>1 DEF Scan
  <2>7. QED
    BY <2>1, <2>2, <2>4, <2>5, <2>6
      DEF TypeOK, HasIndex, Cloning, Indexed, HasCommit, CommitMade, Late,
      Directed, Captures, Seals
<1>6. CASE Accept \/ Mint \/ Judge \/ JudgeRefuses
  BY <1>1, <1>6, TreesAre DEF Accept, Mint, Judge, JudgeRefuses, TypeOK, HasWorkspace,
    HasIndex, Cloning, Indexed, HasCommit, CommitMade, Late, Directed, Captures, Seals
<1>7. CASE Verify
  <2>1. UNCHANGED <<run, at, writes, strays, manifest, inventory, staging, copy, checkout, index>>
    BY <1>7 DEF Verify
  <2>2. QED
    BY <1>7, <2>1, VerifyMoves DEF TypeOK, HasWorkspace
<1>8. CASE StrayWrite
  <2>1. /\ strays' \in 0 .. MaxStrays
        /\ UNCHANGED <<pc, run, workspace, at, writes, manifest, inventory, index>>
    BY <1>1, <1>8 DEF StrayWrite, TypeOK
  <2>2. /\ staging' = staging \/ staging' \in Stray(staging)
        /\ copy' = copy \/ copy' \in Stray(copy)
        /\ checkout' = checkout \/ checkout' \in Stray(checkout)
    BY <1>8 DEF StrayWrite, Further
  <2>3. /\ staging' = staging \/ staging' \in Trees
        /\ copy' = copy \/ copy' \in Trees
        /\ checkout' = checkout \/ checkout' \in Trees
    BY <2>2, StraysAre DEF TypeOK
  <2>4. QED
    BY <2>1, <2>3 DEF TypeOK
<1>9. CASE FillCopy \/ Clone
  <2>1. Overlay(inventory) \in Trees
    BY OverlayIs DEF TypeOK
  <2>2. QED
    BY <1>9, <2>1, TreesAre DEF FillCopy, Clone, GitFails, TypeOK, HasWorkspace, HasIndex, Cloning,
      Indexed, HasCommit, CommitMade, Late, Directed, Captures, Seals
<1>10. CASE Add
  <2>1. checkout \in Trees /\ index \in Trees
    BY <1>10 DEF Add, TypeOK, HasIndex, Cloning
  <2>2. index' \in Trees
    BY <1>10, <2>1 DEF Add, GitFails, Trees
  <2>3. /\ pc' \in {"blobs", "failed"} /\ pc # "idle"
        /\ UNCHANGED <<run, at, writes, strays, manifest, inventory, staging, copy, checkout>>
    BY <1>10 DEF Add, GitFails
  <2>4. QED
    BY <2>1, <2>2, <2>3 DEF TypeOK, HasWorkspace
<1>11. CASE RunCommand \/ Commit \/ Build \/ MakeArtifactPath \/ MakeStatePath
  <2>1. UNCHANGED <<run, at, writes, strays, manifest, inventory, staging, copy, checkout, index>>
    BY <1>11 DEF RunCommand, Commit, Build, MakeArtifactPath, MakeStatePath, GitFails
  <2>2. pc' \notin HasWorkspace /\ (pc' \in HasIndex => pc \in HasIndex) /\ pc # "idle"
    BY <1>11 DEF RunCommand, Commit, Build, MakeArtifactPath, MakeStatePath, GitFails, HasWorkspace,
      HasIndex, Cloning, Indexed, HasCommit, CommitMade, Late, Directed, Captures, Seals
  <2>3. QED
    BY <2>1, <2>2 DEF TypeOK, HasWorkspace
<1>12. CASE Capture \/ Seal \/ PersistRef \/ Deliver
  <2>1. UNCHANGED <<run, at, writes, strays, manifest, inventory, staging, copy, checkout, index>>
    BY <1>12 DEF Capture, Seal, PersistRef, Deliver, GitFails
  <2>2. pc' \notin HasWorkspace /\ (pc' \in HasIndex => pc \in HasIndex) /\ pc # "idle"
    BY <1>12 DEF Capture, Seal, PersistRef, Deliver, GitFails, HasWorkspace,
      HasIndex, Cloning, Indexed, HasCommit, CommitMade, Late, Directed, Captures, Seals
  <2>3. QED
    BY <2>1, <2>2 DEF TypeOK, HasWorkspace
<1>13. CASE CleanUp \/ Crash
  <2>1. Forget /\ run' = run
    BY <1>13 DEF CleanUp, Crash
  <2>2. QED
    BY <1>1, <2>1, TreesAre DEF Forget, TypeOK, HasWorkspace, HasIndex, Cloning, Indexed, HasCommit,
      CommitMade, Late, Directed, Captures, Seals
<1>14. QED
  BY <1>2, <1>3, <1>4, <1>5, <1>6, <1>7, <1>8, <1>9, <1>10, <1>11, <1>12, <1>13 DEF Next

-----------------------------------------------------------------------------
(***************************************************************************)
(* What is accepted was there at one moment.  The controller reads the     *)
(* files twice: in the walk and when it copies them.  In a reading during  *)
(* which there is at most one write, what is seen is what was there before *)
(* the write or after it.  To hide from both readings takes two writes in  *)
(* each; so three are not enough, however many files there are.  Four are, *)
(* for three files.                                                        *)
(***************************************************************************)
Passed == {Paths[i] : i \in 1 .. at}
Agrees(t, seen) == \A p \in seen : t[p] = manifest[p]
Real == \E t \in lived : Agrees(t, Changed(manifest))

\* One write ago there was t, which differs in z at most; what is seen of z is
\* its content in one of the two.
Before(t, z, seen) ==
  /\ \A p \in Names \ {z} : t[p] = workspace[p]
  /\ Agrees(workspace, seen \ {z})
  /\ z \in seen => manifest[z] \in {t[z], workspace[z]}

\* A reading that began when there had been so many writes.
Near(seen, begun) ==
  \/ Agrees(workspace, seen)
  \/ writes > begun /\ \E t \in lived : \E z \in Names : Before(t, z, seen)
  \/ writes > begun + 1

\* What is in the inventory was in the manifest.
Selected == \A p \in Files(inventory) : p \in Changed(manifest) /\ inventory[p] = manifest[p]

ReadInv ==
  /\ pc \in {"idle", "agent", "inputs", "walk", "accept"} => inventory = NoFiles
  /\ pc \in {"walk", "accept", "copyFiles"} => workspace \in lived
  /\ pc \in {"walk", "accept", "copyFiles", "mint"} => lived \subseteq Trees
  /\ pc = "walk" => Near(Passed, 0)
  /\ pc = "accept" => at = 0 /\ Near(Names, 0)
  /\ pc = "copyFiles" =>
       Selected /\ (Real \/ (writes >= 2 /\ Near(Passed \cap Changed(manifest), 2)))
  /\ pc = "mint" => Selected /\ Real

\* The walk passes each path once.
LEMMA PassedAre ==
  ASSUME TypeOK
  PROVE  /\ Passed \subseteq Names /\ Paths[at + 1] \in Names /\ Paths[at + 1] \notin Passed
         /\ at + 1 = Len(Paths) => Passed \cup {Paths[at + 1]} = Names
         /\ at = 0 => Passed = {}
<1>1. /\ \A i \in 1 .. Len(Paths) : Paths[i] \in Names
      /\ Len(Paths) \in Nat \ {0} /\ DOMAIN Paths = 1 .. Len(Paths)
      /\ at \in Nat /\ at + 1 <= Len(Paths)
  BY TreesAre DEF TypeOK
<1>2. Passed \subseteq Names /\ Paths[at + 1] \in Names
  BY <1>1 DEF Passed
<1>3. Paths[at + 1] \notin Passed
  BY <1>1, HandoffConstants DEF Passed, IsInjective
<1>4. ASSUME at + 1 = Len(Paths), NEW p \in Names
      PROVE  p \in Passed \cup {Paths[at + 1]}
  <2>1. PICK i \in 1 .. Len(Paths) : p = Paths[i]
    BY <1>1 DEF Names, Range
  <2>2. i \in 1 .. at \/ i = at + 1
    BY <1>1, <1>4
  <2>3. QED
    BY <2>1, <2>2 DEF Passed
<1>5. at = 0 => Passed = {}
  BY DEF Passed
<1>6. QED
  BY <1>2, <1>3, <1>4, <1>5

\* A reading with at most one write has seen something real.
LEMMA NearIsReal ==
  ASSUME NEW seen, NEW begun \in Nat, Near(seen, begun), workspace \in lived,
         seen \subseteq Names
  PROVE  (\E t \in lived : Agrees(t, seen)) \/ writes > begun + 1
<1>1. CASE Agrees(workspace, seen)
  BY <1>1
<1>2. ASSUME NEW t \in lived, NEW z \in Names, Before(t, z, seen)
      PROVE  \E u \in lived : Agrees(u, seen)
  <2>1. Agrees(t, seen \ {z}) /\ Agrees(workspace, seen \ {z})
    BY <1>2 DEF Before, Agrees
  <2>2. Agrees(t, seen) \/ Agrees(workspace, seen)
    BY <1>2, <2>1 DEF Before, Agrees
  <2>3. QED
    BY <1>2, <2>2
<1>3. QED
  BY <1>1, <1>2 DEF Near

\* Another write.
LEMMA NearWrite ==
  ASSUME TypeOK, ReadInv, LateWrite, Walking, NEW seen, NEW begun \in Nat, seen \subseteq Names,
         Near(seen, begun), writes >= begun
  PROVE  Near(seen, begun)'
<1>1. writes \in Nat /\ writes' = writes + 1 /\ manifest' = manifest
      /\ lived' = lived \cup {workspace'}
  BY HandoffConstants DEF TypeOK, LateWrite, walkVars
<1>2. workspace \in lived /\ workspace \in Trees
  BY DEF ReadInv, Walking, At, TypeOK, HasWorkspace
<1>3. PICK p \in Names, c \in Contents : workspace' = [workspace EXCEPT ![p] = c]
  BY DEF LateWrite
<1>4. CASE Agrees(workspace, seen)
  <2>1. /\ \A q \in Names \ {p} : workspace[q] = workspace'[q]
        /\ \A q \in seen \ {p} : workspace'[q] = manifest[q]
        /\ p \in seen => manifest[p] = workspace[p]
    BY <1>2, <1>3, <1>4 DEF Agrees, Trees
  <2>2. writes' > begun /\ \E t \in lived' : Before(t, p, seen)'
    BY <1>1, <1>2, <2>1 DEF Before, Agrees
  <2>3. QED
    BY <2>2 DEF Near
<1>5. CASE writes > begun
  BY <1>1, <1>5 DEF Near
<1>6. QED
  BY <1>1, <1>4, <1>5 DEF Near

\* The next path is read as it is in the workspace.
LEMMA NearRead ==
  ASSUME TypeOK, NEW seen, NEW begun \in Nat, Near(seen, begun), NEW p,
         workspace[p] = manifest[p]
  PROVE  Near(seen \cup {p}, begun)
<1>1. Agrees(workspace, seen) => Agrees(workspace, seen \cup {p})
  BY DEF Agrees
<1>2. ASSUME NEW t \in lived, NEW z \in Names, Before(t, z, seen)
      PROVE  Before(t, z, seen \cup {p})
  BY <1>2 DEF Before, Agrees
<1>3. QED
  BY <1>1, <1>2 DEF Near

LEMMA ScanStep ==
  ASSUME TypeOK, ReadInv, Scan
  PROVE  ReadInv'
<1>1. PICK p \in Names : p = Paths[at + 1]
  BY PassedAre
<1>2. PICK S \in SUBSET Names : S = Passed
  BY PassedAre
<1>3. p \notin S /\ (at + 1 = Len(Paths) => S \cup {p} = Names)
  BY <1>1, <1>2, PassedAre
<1>4. /\ pc = "walk" /\ pc' \in {"failed", "accept", "walk"}
      /\ pc' = "walk" => at + 1 # Len(Paths)
      /\ pc' = "accept" => at + 1 = Len(Paths)
      /\ manifest' = [manifest EXCEPT ![p] = workspace[p]]
      /\ at' = (at + 1) % Len(Paths)
      /\ inventory' = inventory /\ workspace' = workspace /\ writes' = writes /\ lived' = lived
  BY <1>1 DEF Scan, At, Goto, agentVars
<1>5. at + 1 # Len(Paths) => at' = at + 1
  <2> DEFINE n == Len(Paths)
  <2>1. at' = (at + 1) % n /\ at \in Nat /\ at + 1 <= n /\ n \in Nat \ {0}
    BY <1>4, TreesAre DEF TypeOK
  <2> HIDE DEF n
  <2>2. at + 1 # n => at' = at + 1
    BY <2>1
  <2>3. QED
    BY <2>2 DEF n
<1>6. at + 1 = Len(Paths) => at' = 0
  <2> DEFINE n == Len(Paths)
  <2>1. at' = (at + 1) % n /\ n \in Nat \ {0}
    BY <1>4, TreesAre DEF TypeOK
  <2> HIDE DEF n
  <2>2. at + 1 = n => at' = 0
    BY <2>1
  <2>3. QED
    BY <2>2 DEF n
<1>7. manifest'[p] = workspace[p] /\ \A q \in S : manifest'[q] = manifest[q]
  BY <1>3, <1>4 DEF TypeOK, Trees
<1>8. Near(S, 0)
  BY <1>2, <1>4 DEF ReadInv
<1>9. Near(S \cup {p}, 0)'
  <2>1. CASE Agrees(workspace, S)
    <3>1. Agrees(workspace, S \cup {p})'
      BY <1>4, <1>7, <2>1 DEF Agrees
    <3>2. QED
      BY <3>1 DEF Near
  <2>2. ASSUME NEW t \in lived, NEW z \in Names, Before(t, z, S), writes > 0
        PROVE  Near(S \cup {p}, 0)'
    <3>1. Before(t, z, S \cup {p})'
      BY <1>4, <1>7, <2>2 DEF Before, Agrees
    <3>2. t \in lived' /\ writes' > 0
      BY <1>4, <2>2
    <3>3. QED
      BY <3>1, <3>2 DEF Near
  <2>3. CASE writes > 0 + 1
    BY <1>4, <2>3 DEF Near
  <2>4. QED
    BY <1>8, <2>1, <2>2, <2>3 DEF Near
<1>10. pc' = "walk" => Near(Passed, 0)'
  <2>1. ASSUME pc' = "walk"
        PROVE  Passed' = S \cup {p}
    <3>1. at' = at + 1 /\ at \in Nat
      BY <1>4, <1>5, <2>1 DEF TypeOK
    <3>2. 1 .. at + 1 = (1 .. at) \cup {at + 1}
      BY <3>1
    <3>3. QED
      BY <1>1, <1>2, <3>1, <3>2 DEF Passed
  <2>2. QED
    BY <1>9, <2>1 DEF Near, Before, Agrees
<1>11. pc' = "accept" => at' = 0 /\ Near(Names, 0)'
  <2>1. ASSUME pc' = "accept"
        PROVE  at' = 0 /\ S \cup {p} = Names
    BY <1>3, <1>4, <1>6, <2>1
  <2>2. QED
    BY <1>9, <2>1
<1>12. QED
  BY <1>4, <1>10, <1>11 DEF ReadInv

LEMMA CopyStep ==
  ASSUME TypeOK, ReadInv, CopyFile, MaxWrites <= 3
  PROVE  ReadInv'
<1>1. PICK p \in Names : p = Paths[at + 1]
  BY PassedAre
<1>2. PICK S \in SUBSET Names : S = Passed
  BY PassedAre
<1>3. PICK C \in SUBSET Names : C = Changed(manifest)
  BY DEF Changed
<1>4. p \notin S /\ (at + 1 = Len(Paths) => S \cup {p} = Names)
  BY <1>1, <1>2, PassedAre
<1>5. /\ pc = "copyFiles" /\ pc' \in {"failed", "copyFiles", "mint"}
      /\ pc' = "copyFiles" => at + 1 # Len(Paths)
      /\ pc' = "mint" => at + 1 = Len(Paths)
      /\ at' = (at + 1) % Len(Paths) /\ manifest' = manifest
      /\ workspace' = workspace /\ writes' = writes /\ lived' = lived
      /\ pc' # "failed" => \/ p \notin C /\ inventory' = inventory
                           \/ /\ p \in C /\ workspace[p] = manifest[p]
                              /\ inventory' = [inventory EXCEPT ![p] = workspace[p]]
  BY <1>1, <1>3 DEF CopyFile, SameAsSeen, At, Goto, agentVars
<1>6. at + 1 # Len(Paths) => at' = at + 1
  <2> DEFINE n == Len(Paths)
  <2>1. at' = (at + 1) % n /\ at \in Nat /\ at + 1 <= n /\ n \in Nat \ {0}
    BY <1>5, TreesAre DEF TypeOK
  <2> HIDE DEF n
  <2>2. at + 1 # n => at' = at + 1
    BY <2>1
  <2>3. QED
    BY <2>2 DEF n
<1>7. C = Changed(manifest)'
  BY <1>3, <1>5 DEF Changed
<1>8. pc' # "failed" => Selected'
  <2>1. Selected
    BY <1>5 DEF ReadInv
  <2>2. QED
    BY <1>3, <1>5, <1>7, <2>1 DEF Selected, Files, TypeOK, Trees
<1>9. Real => Real'
  BY <1>5 DEF Real, Agrees, Changed
<1>10. ASSUME ~Real, pc' # "failed"
       PROVE  writes >= 2 /\ Near((S \cup {p}) \cap C, 2)
  <2>1. writes >= 2 /\ Near(S \cap C, 2)
    BY <1>2, <1>3, <1>5, <1>10 DEF ReadInv
  <2>2. CASE p \notin C
    <3>1. (S \cup {p}) \cap C = S \cap C
      BY <2>2
    <3>2. QED
      BY <2>1, <3>1
  <2>3. CASE p \in C /\ workspace[p] = manifest[p]
    <3>1. (S \cup {p}) \cap C = (S \cap C) \cup {p}
      BY <2>3
    <3>2. QED
      BY <2>1, <2>3, <3>1, NearRead
  <2>4. QED
    BY <1>5, <1>10, <2>2, <2>3
<1>11. pc' = "copyFiles" => Real' \/ (writes' >= 2 /\ Near(Passed \cap Changed(manifest), 2)')
  <2>1. ASSUME pc' = "copyFiles"
        PROVE  Passed' = S \cup {p}
    <3>1. at' = at + 1 /\ at \in Nat
      BY <1>5, <1>6, <2>1 DEF TypeOK
    <3>2. 1 .. at + 1 = (1 .. at) \cup {at + 1}
      BY <3>1
    <3>3. QED
      BY <1>1, <1>2, <3>1, <3>2 DEF Passed
  <2>2. ASSUME pc' = "copyFiles", ~Real
        PROVE  Near(Passed \cap Changed(manifest), 2)'
    <3>1. Near((S \cup {p}) \cap C, 2)
      BY <1>10, <2>2
    <3>2. Passed' \cap Changed(manifest)' = (S \cup {p}) \cap C
      BY <1>7, <2>1, <2>2
    <3>3. QED
      BY <1>5, <3>1, <3>2 DEF Near, Before, Agrees
  <2>3. QED
    BY <1>5, <1>9, <1>10, <2>2
<1>12. pc' = "mint" => Real'
  <2>1. ASSUME pc' = "mint", ~Real
        PROVE  Real
    <3>1. (S \cup {p}) \cap C = C
      BY <1>4, <1>5, <2>1
    <3>2. Near(C, 2)
      BY <1>10, <2>1, <3>1
    <3>3. workspace \in lived
      BY <1>5 DEF ReadInv
    <3>4. (\E t \in lived : Agrees(t, C)) \/ writes > 2 + 1
      BY <3>2, <3>3, NearIsReal
    <3>5. ~(writes > 2 + 1)
      BY HandoffConstants DEF TypeOK
    <3>6. QED
      BY <1>3, <3>4, <3>5 DEF Real
  <2>2. QED
    BY <1>9, <2>1
<1>13. QED
  BY <1>5, <1>8, <1>11, <1>12 DEF ReadInv

LEMMA WriteStep ==
  ASSUME TypeOK, ReadInv, LateWrite
  PROVE  ReadInv'
<1>1. PICK S \in SUBSET Names : S = Passed
  BY PassedAre
<1>2. PICK C \in SUBSET Names : C = Changed(manifest)
  BY DEF Changed
<1>3. /\ pc' = pc /\ inventory' = inventory /\ manifest' = manifest /\ at' = at
      /\ writes \in Nat /\ writes' = writes + 1
      /\ S = Passed' /\ C = Changed(manifest)'
  BY <1>1, <1>2, HandoffConstants DEF LateWrite, walkVars, TypeOK, Passed, Changed
<1>4. CASE pc = "inputs"
  BY <1>3, <1>4 DEF ReadInv
<1>5. CASE Walking
  <2>1. pc \in {"walk", "accept", "copyFiles"}
    BY <1>5 DEF Walking
  <2>2. workspace \in Trees
    BY <2>1 DEF TypeOK, HasWorkspace
  <2>3. workspace' \in Trees /\ lived' = lived \cup {workspace'}
    BY <1>5, <2>2 DEF LateWrite, Trees
  <2>4. Real => Real'
    BY <1>3, <2>3 DEF Real, Agrees, Changed
  <2>5. Selected => Selected'
    BY <1>3 DEF Selected, Files, Changed
  <2>6. pc = "walk" => Near(Passed, 0)'
    <3>1. ASSUME pc = "walk"
          PROVE  Near(S, 0)'
      <4>1. Near(S, 0) /\ writes >= 0
        BY <1>1, <1>3, <3>1 DEF ReadInv
      <4>2. QED
        BY <1>5, <4>1, NearWrite
    <3>2. QED
      BY <1>3, <3>1 DEF Near, Before, Agrees
  <2>7. pc = "accept" => Near(Names, 0)'
    <3>1. ASSUME pc = "accept"
          PROVE  Near(Names, 0)'
      <4>1. Near(Names, 0) /\ writes >= 0
        BY <1>3, <3>1 DEF ReadInv
      <4>2. QED
        BY <1>5, <4>1, NearWrite
    <3>2. QED
      BY <3>1
  <2>8. ASSUME pc = "copyFiles", ~Real
        PROVE  writes' >= 2 /\ Near(Passed \cap Changed(manifest), 2)'
    <3>1. Near(S \cap C, 2) /\ writes >= 2
      BY <1>1, <1>2, <2>8 DEF ReadInv
    <3>2. Near(S \cap C, 2)'
      BY <1>5, <3>1, NearWrite
    <3>3. writes' >= 2
      BY <1>3, <3>1
    <3>4. Near(Passed \cap Changed(manifest), 2)'
      BY <1>3, <3>2 DEF Near, Before, Agrees
    <3>5. QED
      BY <3>3, <3>4
  <2>9. QED
    BY <1>3, <2>1, <2>3, <2>4, <2>5, <2>6, <2>7, <2>8 DEF ReadInv
<1>6. QED
  BY <1>4, <1>5 DEF LateWrite, At

LEMMA ReadStep ==
  ASSUME TypeOK, ReadInv, MaxWrites <= 3, [Next]_vars
  PROVE  ReadInv'
<1> USE DEF Goto, At
<1>1. CASE UNCHANGED vars \/ Tamper \/ StrayWrite
  <2>1. UNCHANGED <<pc, at, manifest, inventory, workspace, writes, lived>>
    BY <1>1 DEF vars, Tamper, StrayWrite, agentVars, walkVars
  <2>2. QED
    BY <2>1 DEF ReadInv, Near, Before, Agrees, Real, Selected, Passed, Changed, Files
<1>2. CASE Create \/ AgentReturns
  <2>1. pc \in {"idle", "agent"} /\ pc' \in {"agent", "inputs", "failed"}
        /\ inventory' = inventory
    BY <1>2 DEF Create, AgentReturns, walkVars
  <2>2. QED
    BY <2>1 DEF ReadInv
<1>3. CASE CheckInputs
  <2>1. pc = "inputs" /\ pc' \in {"walk", "failed"} /\ at' = 0 /\ lived' = {workspace}
        /\ workspace' = workspace /\ inventory' = inventory
    BY <1>3 DEF CheckInputs
  <2>2. workspace \in Trees
    BY <2>1 DEF TypeOK, HasWorkspace
  <2>3. Near(Passed, 0)'
    BY <2>1 DEF Near, Agrees, Passed
  <2>4. QED
    BY <2>1, <2>2, <2>3 DEF ReadInv
<1>4. CASE Accept
  <2>1. /\ pc = "accept" /\ pc' \in {"copyFiles", "failed"}
        /\ UNCHANGED <<at, manifest, inventory, workspace, writes, lived>>
    BY <1>4 DEF Accept, agentVars, walkVars
  <2>2. inventory = NoFiles /\ at = 0 /\ Near(Names, 0) /\ workspace \in lived
        /\ lived \subseteq Trees
    BY <2>1 DEF ReadInv
  <2>3. Real \/ writes > 0 + 1
    <3>1. (\E t \in lived : Agrees(t, Names)) \/ writes > 0 + 1
      BY <2>2, NearIsReal
    <3>2. QED
      BY <3>1 DEF Real, Agrees, Changed
  <2>4. Real' \/ writes' >= 2
    <3>1. Real => Real'
      BY <2>1 DEF Real, Agrees, Changed
    <3>2. QED
      BY <2>1, <2>3, <3>1 DEF TypeOK
  <2>5. Near(Passed \cap Changed(manifest), 2)'
    BY <2>1, <2>2 DEF Near, Agrees, Passed
  <2>6. Selected'
    BY <2>1, <2>2 DEF Selected, Files, NoFiles
  <2>7. QED
    BY <2>1, <2>2, <2>4, <2>5, <2>6 DEF ReadInv
<1>5. CASE CleanUp \/ Crash
  BY <1>5 DEF CleanUp, Crash, Forget, ReadInv
<1>6. CASE Verify
  BY <1>6, VerifyMoves DEF ReadInv, HasWorkspace
<1>7. CASE Mint \/ Judge \/ JudgeRefuses \/ FillCopy \/ RunCommand \/ Clone \/ Add
  BY <1>7 DEF Mint, Judge, JudgeRefuses, FillCopy, RunCommand, Clone, Add, GitFails, ReadInv
<1>8. CASE Commit \/ Build \/ MakeArtifactPath \/ MakeStatePath \/ Capture \/ Seal
           \/ PersistRef \/ Deliver
  BY <1>8 DEF Commit, Build, MakeArtifactPath, MakeStatePath, Capture, Seal, PersistRef,
    Deliver, GitFails, ReadInv
<1>9. QED
  BY <1>1, <1>2, <1>3, <1>4, <1>5, <1>6, <1>7, <1>8, ScanStep, WriteStep, CopyStep DEF Next

\* Type correctness of the hand-off, for any paths, contents, commands and failures.
THEOREM Invariance == Spec => []TypeOK
<1>1. TypeOK /\ [Next]_vars => TypeOK'
  BY TypeStep
<1>2. QED
  BY <1>1, InitTypes, PTL DEF Spec

\* Nothing locks the workspace while it is read, twice; yet the files that are
\* accepted are files it had at one moment, when at most three writes of what the
\* agent left behind fall between the first reading and the last.
THEOREM AcceptedReal ==
  ASSUME MaxWrites <= 3
  PROVE  Spec => []AcceptedWasReal
<1>1. Init => ReadInv
  BY DEF Init, ReadInv
<1>2. TypeOK /\ ReadInv /\ [Next]_vars => ReadInv'
  BY ReadStep
<1>3. TypeOK /\ ReadInv => AcceptedWasReal
  <2> SUFFICES ASSUME TypeOK, ReadInv, pc = "mint"
               PROVE  \E t \in lived : Matches(t, inventory)
    BY DEF AcceptedWasReal, At
  <2>1. Selected /\ lived \subseteq Trees
    BY DEF ReadInv
  <2>2. PICK t \in lived : Agrees(t, Changed(manifest))
    BY DEF ReadInv, Real
  <2>3. Matches(t, inventory)
    BY <2>1, <2>2, NothingThere DEF Matches, Selected, Agrees
  <2>4. QED
    BY <2>3
<1>4. QED
  BY <1>1, <1>2, <1>3, Invariance, PTL DEF Spec

-----------------------------------------------------------------------------
(***************************************************************************)
(* From making its directories to delivering the candidate, a run answers  *)
(* for them.                                                               *)
(***************************************************************************)
Answers == pc \in Late => mine

LEMMA AnswersStep ==
  ASSUME Answers, [Next]_vars
  PROVE  Answers'
<1> USE DEF Goto, At, Late, Directed, Captures, Seals
<1>1. CASE UNCHANGED vars \/ Tamper \/ StrayWrite \/ LateWrite
  BY <1>1 DEF vars, Tamper, StrayWrite, LateWrite, Answers
<1>2. CASE Create \/ AgentReturns \/ CheckInputs \/ Scan \/ Accept \/ CopyFile \/ Mint
  BY <1>2 DEF Create, AgentReturns, CheckInputs, Scan, Accept, CopyFile, Mint, Answers
<1>3. CASE Verify
  <2>1. mine' = mine
    BY <1>3 DEF Verify
  <2>2. pc' \in Late => pc \in Late
    <3>1. CASE pc' = "failed"
      BY <3>1
    <3>2. CASE pc' # "failed"
      BY <1>3, <3>2, Verified DEF Checked
    <3>3. QED
      BY <3>1, <3>2
  <2>3. QED
    BY <2>1, <2>2 DEF Answers
<1>4. CASE Judge \/ JudgeRefuses \/ FillCopy \/ RunCommand \/ Clone \/ Add
  BY <1>4 DEF Judge, JudgeRefuses, FillCopy, RunCommand, Clone, Add, GitFails, Answers
<1>5. CASE Commit \/ Build \/ MakeArtifactPath \/ MakeStatePath
  BY <1>5 DEF Commit, Build, MakeArtifactPath, MakeStatePath, GitFails, Answers
<1>6. CASE Capture \/ Seal \/ PersistRef \/ Deliver
  BY <1>6 DEF Capture, Seal, PersistRef, Deliver, GitFails, Answers
<1>7. CASE CleanUp \/ Crash
  BY <1>7 DEF CleanUp, Crash, Forget, Answers
<1>8. QED
  BY <1>1, <1>2, <1>3, <1>4, <1>5, <1>6, <1>7 DEF Next

\* What createCandidate has returned stays, whatever later runs of the attempt do:
\* only a run that made the directories writes in them or removes them.
THEOREM DeliveredRemains == Spec => DeliveredStays
<1>1. Init => Answers
  BY DEF Init, Answers, Late, Directed, Captures, Seals
<1>2. Answers /\ [Next]_vars => Answers'
  BY AnswersStep
<1>3. ASSUME Answers, [Next]_vars, Loadable, ~mine
      PROVE  UNCHANGED durableVars
  <2> USE DEF Goto, At
  <2>1. pc \notin Late /\ bundle # None /\ sealed # None
    BY <1>3 DEF Answers, Loadable
  <2>2. CASE UNCHANGED vars
    BY <2>2 DEF vars, durableVars
  <2>3. CASE Create \/ AgentReturns \/ LateWrite \/ Tamper \/ CheckInputs \/ Scan \/ Accept
             \/ CopyFile \/ Mint \/ Verify \/ StrayWrite \/ Judge \/ JudgeRefuses
             \/ FillCopy \/ RunCommand \/ Clone \/ Add \/ Commit \/ Build
    BY <2>3 DEF Create, AgentReturns, LateWrite, Tamper, CheckInputs, Scan, Accept, CopyFile,
      Mint, Verify, StrayWrite, Judge, JudgeRefuses, FillCopy, RunCommand, Clone, Add, Commit,
      Build
  <2>4. CASE MakeArtifactPath \/ MakeStatePath
    BY <2>1, <2>4 DEF MakeArtifactPath, MakeStatePath, durableVars
  <2>5. CASE Capture \/ Seal \/ PersistRef \/ Deliver
    BY <2>1, <2>5 DEF Capture, Seal, PersistRef, Deliver, Late, Directed, Captures, Seals
  <2>6. CASE CleanUp \/ Crash
    BY <1>3, <2>6 DEF CleanUp, Crash, Removed, MayRemove, durableVars
  <2>7. QED
    BY <1>3, <2>2, <2>3, <2>4, <2>5, <2>6 DEF Next
<1>4. ASSUME Answers, [Next]_vars
      PROVE  [Loadable /\ ~mine => Loadable' /\ sealed' = sealed]_vars
  BY <1>3, <1>4 DEF Loadable, durableVars
<1>5. QED
  BY <1>1, <1>2, <1>4, PTL DEF Spec, DeliveredStays

-----------------------------------------------------------------------------
(***************************************************************************)
(* What can be loaded is what was accepted.  The checkout is compared with *)
(* the accepted files and with the commit in turn; a commit with another   *)
(* content goes unnoticed only when a stray write changes the file between *)
(* each two of these checks, to and fro.  From the one that gets the other *)
(* content into the index to the last there are ten.                       *)
(***************************************************************************)
Planned ==
  /\ Files(inventory) \subseteq Allowed
  /\ pc = "copyFiles" => Changed(manifest) \subseteq Allowed

\* The commands that ran, and what they ran on.
Tested == \A t \in judged : Matches(t, inventory)
Ran == {"copyAfter", "storeOutput", "clone"} \cup HasIndex

Judged ==
  /\ pc \in Early => judged = {}
  /\ pc \notin {"copyAfter", "failed"} => Tested
  /\ pc = "copyAfter" => Tested \/ ~Matches(copy, inventory)
  /\ pc \in Ran => judged # {}

\* The accepted files whose content in the index, and so in the commit, is another.
Other == {p \in Files(inventory) : index[p] # inventory[p]}

\* It took n stray writes to get here; the last check of such a file has seen it
\* as it is in the index, or as it was accepted.
SeenAsIndex(n) ==
  \A p \in Other : strays >= n /\ (checkout[p] # index[p] => strays >= n + 1)
SeenAsAccepted(n) ==
  \A p \in Other : strays >= n /\ (checkout[p] # inventory[p] => strays >= n + 1)

Followed ==
  /\ pc = "add" => \A p \in Files(inventory) : checkout[p] # inventory[p] => strays >= 1
  /\ pc \in {"blobs", "commit", "committed", "checkoutCommitted"} => SeenAsIndex(1)
  /\ pc \in {"checkoutForBuild", "identityForBuild"} => SeenAsAccepted(2)
  /\ pc \in {"build", "identityBuilt", "checkoutBuilt"} => SeenAsIndex(3)
  /\ pc = "identityRebuilt" => SeenAsAccepted(4)
  /\ pc \in {"artifactPath", "statePath", "checkoutForCapture"} => SeenAsIndex(5)
  /\ pc = "identityForCapture" => SeenAsAccepted(6)
  /\ pc \in {"capture", "identityCaptured", "seal", "checkoutSealed"} => SeenAsIndex(7)
  /\ pc = "identitySealed" => SeenAsAccepted(8)
  /\ pc = "checkoutForRef" => SeenAsIndex(9)
  /\ pc \in {"stagedForRef", "ref"} => SeenAsAccepted(10)

Committing ==
  /\ pc \in Cloning => index = Baseline
  /\ pc \in {"commit"} \cup HasCommit => Changed(index) = Files(inventory)
  /\ pc \in HasCommit => commit = CommitOf(run, index)

\* The candidate in the state directory.
Accepted ==
  LET inv == origin.inventory
  IN /\ Files(inv) \subseteq Allowed
     /\ sealed.tree = Overlay(inv)
     /\ origin.judged # {}
     /\ \A t \in origin.judged : Matches(t, inv)

\* The reference is never that of a candidate still to be sealed.
RefOf(n, tree) ==
  /\ ref = CommitOf(n, tree) /\ n <= run
  /\ pc \notin {"anchored", "delivered", "failed", "idle"} => n < run

Anchored ==
  /\ pc \in Seals => sealed = commit /\ origin = [inventory |-> inventory, judged |-> judged]
  /\ ref # None => \E n \in Runs, tree \in Trees : RefOf(n, tree)
  /\ ref # None /\ sealed = ref => Accepted

LEMMA PlannedStep ==
  ASSUME TypeOK, Planned, [Next]_vars
  PROVE  Planned'
<1> USE DEF Goto, At, agentVars, walkVars
<1>1. CASE UNCHANGED vars \/ Tamper \/ StrayWrite \/ LateWrite
  BY <1>1 DEF vars, Tamper, StrayWrite, LateWrite, Planned, Files, Changed
<1>2. ASSUME inventory' = inventory, pc' # "copyFiles"
      PROVE  Planned'
  BY <1>2 DEF Planned, Files
<1>3. CASE Create \/ AgentReturns \/ CheckInputs \/ Scan \/ Mint
  BY <1>2, <1>3 DEF Create, AgentReturns, CheckInputs, Scan, Mint
<1>4. CASE Verify
  BY <1>2, <1>4, VerifyMoves DEF Verify, HasWorkspace
<1>5. CASE Judge \/ JudgeRefuses \/ FillCopy \/ RunCommand \/ Clone \/ Add
  BY <1>2, <1>5 DEF Judge, JudgeRefuses, FillCopy, RunCommand, Clone, Add, GitFails
<1>6. CASE Commit \/ Build \/ MakeArtifactPath \/ MakeStatePath \/ Capture \/ Seal
           \/ PersistRef \/ Deliver
  BY <1>2, <1>6 DEF Commit, Build, MakeArtifactPath, MakeStatePath, Capture, Seal,
    PersistRef, Deliver, GitFails
<1>7. CASE Accept
  <2>1. /\ inventory' = inventory /\ manifest' = manifest
        /\ pc' = "copyFiles" => Changed(manifest) \subseteq Allowed
    BY <1>7 DEF Accept, Acceptable
  <2>2. QED
    BY <2>1 DEF Planned, Files, Changed
<1>8. CASE CopyFile
  <2> DEFINE p == Paths[at + 1]
  <2>1. /\ pc = "copyFiles" /\ manifest' = manifest
        /\ \/ inventory' = inventory
           \/ p \in Changed(manifest) /\ inventory' = [inventory EXCEPT ![p] = workspace[p]]
    BY <1>8 DEF CopyFile
  <2>2. Files(inventory)' \subseteq Files(inventory) \cup Changed(manifest)
    BY <2>1 DEF Files, TypeOK, Trees
  <2>3. QED
    BY <2>1, <2>2 DEF Planned, Changed
<1>9. CASE CleanUp \/ Crash
  BY <1>9 DEF CleanUp, Crash, Forget, Planned, Files, NoFiles
<1>10. QED
  BY <1>1, <1>3, <1>4, <1>5, <1>6, <1>7, <1>8, <1>9 DEF Next

LEMMA JudgedStep ==
  ASSUME Judged, [Next]_vars
  PROVE  Judged'
<1> USE DEF Goto, At, agentVars, walkVars, treeVars, historyVars
<1>1. CASE UNCHANGED vars \/ Tamper \/ LateWrite
  BY <1>1 DEF vars, Tamper, LateWrite, Judged, Tested, Matches, Files
<1>2. CASE StrayWrite
  <2>1. pc' = pc /\ judged' = judged /\ inventory' = inventory
    BY <1>2 DEF StrayWrite
  <2>2. Tested => Tested'
    BY <2>1 DEF Tested, Matches, Files
  <2>3. ~Matches(copy, inventory) => ~Matches(copy, inventory)'
    <3>1. copy' = copy \/ copy' \in Further(copy)
      BY <1>2 DEF StrayWrite
    <3>2. ~Matches(copy, inventory) => ~Matches(copy', inventory)
      BY <3>1 DEF Further
    <3>3. QED
      BY <2>1, <3>2 DEF Matches, Files
  <2>4. QED
    BY <2>1, <2>2, <2>3 DEF Judged
<1>3. CASE Create \/ AgentReturns \/ CheckInputs \/ Scan \/ Accept \/ CopyFile \/ Mint
  <2>1. pc \in Early /\ judged' = judged /\ pc' \in Early \cup {"failed", "policy"}
    BY <1>3 DEF Create, AgentReturns, CheckInputs, Scan, Accept, CopyFile, Mint, Early,
      HasWorkspace
  <2>2. judged' = {} /\ Tested'
    BY <2>1 DEF Judged, Tested
  <2>3. pc' # "copyAfter" /\ pc' \notin Ran
    BY <2>1 DEF Early, HasWorkspace, Ran, HasIndex, Cloning, Indexed, HasCommit, CommitMade,
      Late, Directed, Captures, Seals
  <2>4. QED
    BY <2>2, <2>3 DEF Judged
<1>4. CASE RunCommand
  <2>1. /\ pc = "command" /\ pc' \in {"copyAfter", "failed"}
        /\ judged' = judged \cup {copy} /\ inventory' = inventory /\ copy' = copy
    BY <1>4 DEF RunCommand
  <2>2. Tested
    BY <2>1 DEF Judged
  <2>3. Tested' \/ ~Matches(copy, inventory)'
    BY <2>1, <2>2 DEF Tested, Matches, Files
  <2>4. pc' \notin Early
    BY <2>1 DEF Early, HasWorkspace
  <2>5. judged' # {}
    BY <2>1
  <2>6. QED
    BY <2>1, <2>3, <2>4, <2>5 DEF Judged
<1>5. ASSUME judged' = judged, inventory' = inventory, pc # "failed", pc' # "copyAfter",
             pc = "copyAfter" /\ pc' # "failed" => Matches(copy, inventory),
             pc' \notin Early, pc' \in Ran => pc \in Ran
      PROVE  Judged'
  <2>1. pc' # "failed" => Tested
    BY <1>5 DEF Judged
  <2>2. Tested => Tested'
    BY <1>5 DEF Tested, Matches, Files
  <2>3. QED
    BY <1>5, <2>1, <2>2 DEF Judged
<1>6. CASE Verify
  <2>1. judged' = judged /\ inventory' = inventory /\ pc' \notin Early
    BY <1>6, VerifyMoves DEF Verify, Early
  <2>2. CASE pc' = "failed"
    BY <1>5, <1>6, <2>1, <2>2, ChecksAre DEF Verify, Checked, Ran, HasIndex, Cloning, Indexed,
      HasCommit, CommitMade, Late, Directed, Captures, Seals
  <2>3. CASE pc' # "failed"
    <3>1. pc # "failed" /\ pc' # "copyAfter" /\ (pc = "copyAfter" => Matches(copy, inventory))
      BY <1>6, <2>3, Verified DEF Checked
    <3>2. pc' \in Ran => pc \in Ran
      BY <1>6, <2>3, Verified DEF Checked, Ran, HasIndex, Cloning, Indexed,
        HasCommit, CommitMade, Late, Directed, Captures, Seals
    <3>3. QED
      BY <1>5, <2>1, <3>1, <3>2
  <2>4. QED
    BY <2>2, <2>3
<1>7. CASE Judge \/ JudgeRefuses \/ FillCopy \/ Clone \/ Add \/ Commit \/ Build
           \/ MakeArtifactPath \/ MakeStatePath \/ Capture \/ Seal \/ PersistRef \/ Deliver
  <2>1. judged' = judged /\ inventory' = inventory
    BY <1>7 DEF Judge, JudgeRefuses, FillCopy, Clone, Add, Commit, Build,
      MakeArtifactPath, MakeStatePath, Capture, Seal, PersistRef, Deliver
  <2>2. pc # "failed" /\ pc # "copyAfter" /\ pc' # "copyAfter" /\ pc' \notin Early
    BY <1>7 DEF Judge, JudgeRefuses, FillCopy, Clone, Add, Commit, Build, GitFails,
      MakeArtifactPath, MakeStatePath, Capture, Seal, PersistRef, Deliver, Early, HasWorkspace
  <2>3. pc' \in Ran => pc \in Ran
    BY <1>7 DEF Judge, JudgeRefuses, FillCopy, Clone, Add, Commit, Build, GitFails,
      MakeArtifactPath, MakeStatePath, Capture, Seal, PersistRef, Deliver, Ran,
      HasIndex, Cloning, Indexed, HasCommit, CommitMade, Late, Directed, Captures, Seals
  <2>4. QED
    BY <1>5, <2>1, <2>2, <2>3
<1>8. CASE CleanUp \/ Crash
  BY <1>8 DEF CleanUp, Crash, Forget, Judged, Tested, Ran, HasIndex, Cloning, Indexed,
    HasCommit, CommitMade, Late, Directed, Captures, Seals
<1>9. QED
  BY <1>1, <1>2, <1>3, <1>4, <1>6, <1>7, <1>8 DEF Next

LEMMA CommittingStep ==
  ASSUME Committing, [Next]_vars
  PROVE  Committing'
<1> USE DEF Goto, At, agentVars, walkVars, treeVars
<1>1. CASE UNCHANGED vars \/ Tamper \/ LateWrite \/ StrayWrite
  BY <1>1 DEF vars, Tamper, LateWrite, StrayWrite, Committing, Changed, Files, Baseline,
    CommitOf
<1>2. ASSUME pc' \notin {"commit"} \cup Cloning \cup HasCommit
      PROVE  Committing'
  BY <1>2 DEF Committing
<1>3. CASE Create \/ AgentReturns \/ CheckInputs \/ Scan \/ Accept \/ CopyFile \/ Mint
           \/ Judge \/ JudgeRefuses \/ FillCopy \/ RunCommand \/ Add \/ Deliver
  BY <1>2, <1>3 DEF Create, AgentReturns, CheckInputs, Scan, Accept, CopyFile, Mint,
    Judge, JudgeRefuses, FillCopy, RunCommand, Add, GitFails, Deliver, Cloning, HasCommit,
    CommitMade, Late, Directed, Captures, Seals
<1>4. CASE CleanUp \/ Crash
  BY <1>2, <1>4 DEF CleanUp, Crash, Forget, Cloning, HasCommit, CommitMade, Late, Directed,
    Captures, Seals
<1>5. CASE Clone
  <2>1. pc' \in {"stagedAfterClone", "failed"} /\ (pc' # "failed" => index' = Baseline)
    BY <1>5 DEF Clone, GitFails
  <2>2. pc' \notin {"commit"} \cup HasCommit
    BY <2>1 DEF HasCommit, CommitMade, Late, Directed, Captures, Seals
  <2>3. QED
    BY <2>1, <2>2 DEF Committing, Baseline, Cloning
<1>6. ASSUME UNCHANGED <<run, index, inventory, commit>>,
             pc' \in Cloning => pc \in Cloning,
             pc' = "commit" => Changed(index) = Files(inventory),
             pc' \in HasCommit => pc \in HasCommit
      PROVE  Committing'
  BY <1>6 DEF Committing, Changed, Files, Baseline, CommitOf
<1>7. CASE Verify
  <2>1. UNCHANGED <<run, index, inventory, commit>>
    BY <1>7 DEF Verify
  <2>2. CASE pc' = "failed"
    BY <1>2, <2>2 DEF Cloning, HasCommit, CommitMade, Late, Directed, Captures, Seals
  <2>3. CASE pc' # "failed"
    <3>1. pc' = "commit" => Changed(index) = Files(inventory)
      BY <1>7, <2>3, Verified DEF Checked, Blobs
    <3>2. /\ pc' \in Cloning => pc \in Cloning
          /\ pc' \in HasCommit => pc \in HasCommit
      BY <1>7, <2>3, Verified DEF Checked, Cloning, HasCommit, CommitMade, Late, Directed,
        Captures, Seals
    <3>3. QED
      BY <1>6, <2>1, <3>1, <3>2
  <2>4. QED
    BY <2>2, <2>3
<1>8. CASE Commit
  <2>1. /\ pc = "commit" /\ pc' \in {"committed", "failed"}
        /\ UNCHANGED <<run, index, inventory>>
        /\ pc' # "failed" => commit' = CommitOf(run, index)
    BY <1>8 DEF Commit, GitFails
  <2>2. pc' \notin Cloning /\ pc' # "commit" /\ "failed" \notin HasCommit
    BY <2>1 DEF Cloning, HasCommit, CommitMade, Late, Directed, Captures, Seals
  <2>3. QED
    BY <2>1, <2>2 DEF Committing, Changed, Files, Baseline, CommitOf
<1>9. CASE Build \/ MakeArtifactPath \/ MakeStatePath \/ Capture \/ Seal \/ PersistRef
  <2>1. UNCHANGED <<run, index, inventory, commit>>
    BY <1>9 DEF Build, MakeArtifactPath, MakeStatePath, Capture, Seal, PersistRef
  <2>2. pc \in HasCommit /\ pc' # "commit" /\ pc' \notin Cloning
    BY <1>9 DEF Build, MakeArtifactPath, MakeStatePath, Capture, Seal, PersistRef, GitFails,
      Cloning, HasCommit, CommitMade, Late, Directed, Captures, Seals
  <2>3. QED
    BY <1>6, <2>1, <2>2
<1>10. QED
  BY <1>1, <1>3, <1>4, <1>5, <1>7, <1>8, <1>9 DEF Next

\* A check against the accepted files finds a file that is as in the index, and the
\* check against the commit one that is as it was accepted.
LEMMA ThenAccepted ==
  ASSUME TypeOK, NEW n \in Nat, SeenAsIndex(n), OwnCheckout
  PROVE  SeenAsAccepted(n + 1)
<1>1. \A p \in Other : p \in Files(inventory) /\ index[p] # inventory[p]
  BY DEF Other
<1>2. \A p \in Files(inventory) : checkout[p] = inventory[p]
  BY DEF OwnCheckout, Matches
<1>3. QED
  BY <1>1, <1>2 DEF SeenAsIndex, SeenAsAccepted

LEMMA ThenIndex ==
  ASSUME TypeOK, NEW n \in Nat, SeenAsAccepted(n), Identity
  PROVE  SeenAsIndex(n + 1)
<1>1. \A p \in Other : p \in Files(inventory) /\ index[p] # inventory[p]
  BY DEF Other
<1>2. checkout = index
  BY DEF Identity
<1>3. QED
  BY <1>1, <1>2 DEF SeenAsIndex, SeenAsAccepted

\* The steps of the controller between two checks change nothing there.
LEMMA SeenSame ==
  ASSUME UNCHANGED <<strays, checkout, index, inventory>>, NEW n
  PROVE  /\ SeenAsIndex(n) => SeenAsIndex(n)'
         /\ SeenAsAccepted(n) => SeenAsAccepted(n)'
BY DEF SeenAsIndex, SeenAsAccepted, Other, Files

\* A stray write counts.
LEMMA SeenStray ==
  ASSUME TypeOK, StrayWrite, NEW n \in Nat
  PROVE  /\ SeenAsIndex(n) => SeenAsIndex(n)'
         /\ SeenAsAccepted(n) => SeenAsAccepted(n)'
<1>1. /\ strays \in Nat /\ strays' = strays + 1
      /\ index' = index /\ inventory' = inventory
  BY HandoffConstants DEF StrayWrite, TypeOK, walkVars
<1>2. Other' = Other
  BY <1>1 DEF Other, Files
<1>3. QED
  BY <1>1, <1>2 DEF SeenAsIndex, SeenAsAccepted

LEMMA FollowedStep ==
  ASSUME TypeOK, Followed, [Next]_vars
  PROVE  Followed'
<1> USE DEF Goto, At, agentVars, walkVars, treeVars
<1>1. CASE UNCHANGED vars \/ Tamper \/ LateWrite
  <2>1. UNCHANGED <<pc, strays, checkout, index, inventory>>
    BY <1>1 DEF vars, Tamper, LateWrite
  <2>2. pc = "add" /\ (\A p \in Files(inventory) : checkout[p] # inventory[p] => strays >= 1)
          => (\A p \in Files(inventory) : checkout[p] # inventory[p] => strays >= 1)'
    BY <2>1 DEF Files
  <2>3. QED
    BY <2>1, <2>2, SeenSame DEF Followed
<1>2. CASE StrayWrite
  <2>1. /\ pc' = pc /\ strays \in Nat /\ strays' = strays + 1 /\ inventory' = inventory
    BY <1>2, HandoffConstants DEF StrayWrite, TypeOK
  <2>2. (\A p \in Files(inventory) : checkout[p] # inventory[p] => strays >= 1)'
    BY <2>1
  <2>3. QED
    BY <1>2, <2>1, <2>2, SeenStray DEF Followed
<1>3. ASSUME pc' \notin {"add"} \cup Indexed \cup CommitMade \cup Directed \cup Captures \cup Seals
      PROVE  Followed'
  BY <1>3 DEF Followed, Indexed, CommitMade, Directed, Captures, Seals
<1>4. CASE Create \/ AgentReturns \/ CheckInputs \/ Scan \/ Accept \/ CopyFile \/ Mint
           \/ Judge \/ JudgeRefuses \/ FillCopy \/ RunCommand \/ Clone
  BY <1>3, <1>4 DEF Create, AgentReturns, CheckInputs, Scan, Accept, CopyFile, Mint,
    Judge, JudgeRefuses, FillCopy, RunCommand, Clone, GitFails, Indexed, CommitMade, Directed,
    Captures, Seals
<1>5. CASE PersistRef \/ Deliver \/ CleanUp \/ Crash
  BY <1>3, <1>5 DEF PersistRef, Deliver, CleanUp, Crash, Forget, GitFails, Indexed, CommitMade,
    Directed, Captures, Seals
<1>6. CASE Add
  <2>1. CASE pc' = "failed"
    BY <1>3, <2>1 DEF Indexed, CommitMade, Directed, Captures, Seals
  <2>2. CASE pc' # "failed"
    <3>1. /\ pc = "add" /\ pc' = "blobs" /\ UNCHANGED <<strays, checkout, inventory>>
          /\ index' = [p \in Names |-> IF p \in Files(inventory) THEN checkout[p] ELSE index[p]]
      BY <1>6, <2>2 DEF Add, GitFails
    <3>2. \A p \in Files(inventory) : checkout[p] # inventory[p] => strays >= 1
      BY <3>1 DEF Followed
    <3>3. Files(inventory)' = Files(inventory) /\ Files(inventory) \subseteq Names
      BY <3>1 DEF Files
    <3>4. SeenAsIndex(1)'
      BY <3>1, <3>2, <3>3 DEF SeenAsIndex, Other
    <3>5. QED
      BY <3>1, <3>4 DEF Followed
  <2>3. QED
    BY <2>1, <2>2
<1>7. CASE Commit \/ Build \/ MakeArtifactPath \/ MakeStatePath \/ Capture \/ Seal
  <2>1. UNCHANGED <<strays, checkout, index, inventory>>
    BY <1>7 DEF Commit, Build, MakeArtifactPath, MakeStatePath, Capture, Seal
  <2>2. \/ pc' = "failed"
        \/ pc = "commit" /\ pc' = "committed"
        \/ pc = "build" /\ pc' = "identityBuilt"
        \/ pc = "artifactPath" /\ pc' = "statePath"
        \/ pc = "statePath" /\ pc' = "checkoutForCapture"
        \/ pc = "capture" /\ pc' = "identityCaptured"
        \/ pc = "seal" /\ pc' = "checkoutSealed"
    BY <1>7 DEF Commit, Build, MakeArtifactPath, MakeStatePath, Capture, Seal, GitFails
  <2>3. QED
    BY <2>1, <2>2, SeenSame DEF Followed
<1>8. CASE Verify
  <2>1. UNCHANGED <<strays, checkout, index, inventory>>
    BY <1>8 DEF Verify
  <2>2. CASE pc' = "failed"
    BY <1>3, <2>2 DEF Indexed, CommitMade, Directed, Captures, Seals
  <2>3. CASE pc' # "failed"
    <3>1. CASE pc \notin Indexed \cup HasCommit
      <4>1. pc' = "add" => OwnCheckout
        BY <1>8, <2>3, <3>1, Verified DEF Checked
      <4>2. pc' \notin Indexed \cup HasCommit
        BY <1>8, <2>3, <3>1, Verified DEF Checked, Indexed, HasCommit, CommitMade, Late,
          Directed, Captures, Seals
      <4>3. pc' = "add" =>
              (\A p \in Files(inventory) : checkout[p] # inventory[p] => strays >= 1)'
        BY <2>1, <4>1 DEF OwnCheckout, Matches, Files
      <4>4. QED
        BY <4>2, <4>3 DEF Followed, Indexed, HasCommit, CommitMade, Late, Directed, Captures,
          Seals
    <3>2. CASE pc \in {"blobs", "committed", "identityBuilt", "identityCaptured"}
      <4>1. \/ pc = "blobs" /\ pc' = "commit"
            \/ pc = "committed" /\ pc' = "checkoutCommitted"
            \/ pc = "identityBuilt" /\ pc' = "checkoutBuilt"
            \/ pc = "identityCaptured" /\ pc' = "seal"
        BY <1>8, <2>3, <3>2, Verified
      <4>2. QED
        BY <2>1, <4>1, SeenSame DEF Followed
    <3>3. CASE pc \in {"checkoutForBuild", "stagedForRef"}
      <4>1. \/ pc = "checkoutForBuild" /\ pc' = "identityForBuild"
            \/ pc = "stagedForRef" /\ pc' = "ref"
        BY <1>8, <2>3, <3>3, Verified
      <4>2. QED
        BY <2>1, <4>1, SeenSame DEF Followed
    <3>4. CASE pc \in {"checkoutCommitted", "checkoutBuilt", "checkoutForCapture",
                       "checkoutSealed", "checkoutForRef"}
      <4>1. /\ OwnCheckout
            /\ \/ pc = "checkoutCommitted" /\ pc' = "checkoutForBuild"
               \/ pc = "checkoutBuilt" /\ pc' = "identityRebuilt"
               \/ pc = "checkoutForCapture" /\ pc' = "identityForCapture"
               \/ pc = "checkoutSealed" /\ pc' = "identitySealed"
               \/ pc = "checkoutForRef" /\ pc' = "stagedForRef"
        BY <1>8, <2>3, <3>4, Verified
      <4>2. \A n \in Nat : SeenAsIndex(n) => SeenAsAccepted(n + 1)'
        BY <2>1, <4>1, ThenAccepted, SeenSame
      <4>3. /\ SeenAsIndex(1) => SeenAsAccepted(2)'
            /\ SeenAsIndex(3) => SeenAsAccepted(4)'
            /\ SeenAsIndex(5) => SeenAsAccepted(6)'
            /\ SeenAsIndex(7) => SeenAsAccepted(8)'
            /\ SeenAsIndex(9) => SeenAsAccepted(10)'
        BY <4>2
      <4>4. QED
        BY <4>1, <4>3 DEF Followed
    <3>5. CASE pc \in {"identityForBuild", "identityRebuilt", "identityForCapture",
                       "identitySealed"}
      <4>1. /\ Identity
            /\ \/ pc = "identityForBuild" /\ pc' = "build"
               \/ pc = "identityRebuilt" /\ pc' = "artifactPath"
               \/ pc = "identityForCapture" /\ pc' = "capture"
               \/ pc = "identitySealed" /\ pc' = "checkoutForRef"
        BY <1>8, <2>3, <3>5, Verified
      <4>2. \A n \in Nat : SeenAsAccepted(n) => SeenAsIndex(n + 1)'
        BY <2>1, <4>1, ThenIndex, SeenSame
      <4>3. /\ SeenAsAccepted(2) => SeenAsIndex(3)'
            /\ SeenAsAccepted(4) => SeenAsIndex(5)'
            /\ SeenAsAccepted(6) => SeenAsIndex(7)'
            /\ SeenAsAccepted(8) => SeenAsIndex(9)'
        BY <4>2
      <4>4. QED
        BY <4>1, <4>3 DEF Followed
    <3>6. QED
      BY <1>8, <2>3, <3>1, <3>2, <3>3, <3>4, <3>5, Verified DEF Checked, Indexed, HasCommit,
        CommitMade, Late, Directed, Captures, Seals
  <2>4. QED
    BY <2>2, <2>3
<1>9. QED
  BY <1>1, <1>2, <1>4, <1>5, <1>6, <1>7, <1>8 DEF Next

\* At the reference the commit holds the accepted files and nothing else.
LEMMA CommitIsAccepted ==
  ASSUME TypeOK, Committing, Followed, MaxStrays < 10, pc = "ref"
  PROVE  commit = CommitOf(run, index) /\ index = Overlay(inventory)
<1>1. /\ commit = CommitOf(run, index) /\ Changed(index) = Files(inventory)
      /\ index \in Trees /\ inventory \in Trees
  BY DEF Committing, TypeOK, HasIndex, HasCommit, Late, Seals
<1>2. Other = {}
  <2>1. strays < 10
    BY HandoffConstants DEF TypeOK
  <2>2. \A p \in Other : strays >= 10
    BY DEF Followed, SeenAsAccepted
  <2>3. QED
    BY <2>1, <2>2, HandoffConstants DEF TypeOK
<1>3. \A p \in Names : index[p] = Overlay(inventory)[p]
  BY <1>1, <1>2 DEF Other, Changed, Files, Overlay
<1>4. index = Overlay(inventory)
  BY <1>1, <1>3, OverlayIs DEF Trees
<1>5. QED
  BY <1>1, <1>4

\* What most steps leave alone.
LEMMA AnchoredSame ==
  ASSUME Anchored, UNCHANGED <<run, sealed, ref, origin>>,
         pc \in {"anchored", "delivered", "failed", "idle"} =>
           pc' \in {"anchored", "delivered", "failed", "idle"},
         pc' \in Seals => pc \in Seals /\ UNCHANGED <<commit, inventory, judged>>
  PROVE  Anchored'
<1>1. pc' \in Seals =>
        sealed' = commit' /\ origin' = [inventory |-> inventory', judged |-> judged']
  BY DEF Anchored
<1>2. ASSUME ref # None
      PROVE  \E n \in Runs, tree \in Trees : RefOf(n, tree)'
  <2>1. PICK n \in Runs, tree \in Trees : RefOf(n, tree)
    BY <1>2 DEF Anchored
  <2>2. RefOf(n, tree)'
    BY <2>1 DEF RefOf, CommitOf
  <2>3. QED
    BY <2>2
<1>3. Accepted => Accepted'
  BY DEF Accepted, Files, Overlay, Matches, Baseline
<1>4. QED
  BY <1>1, <1>2, <1>3 DEF Anchored

LEMMA AnchoredStep ==
  ASSUME TypeOK, Planned, Judged, Committing, Followed, Anchored, MaxStrays < 10, [Next]_vars
  PROVE  Anchored'
<1> USE DEF Goto, At, agentVars, walkVars, treeVars, durableVars, historyVars
<1>1. MaxRuns \in Nat
  BY HandoffConstants
<1>2. CASE UNCHANGED vars \/ Tamper \/ LateWrite \/ StrayWrite
  <2>1. UNCHANGED <<pc, run, sealed, ref, origin, commit, inventory, judged>>
    BY <1>2 DEF vars, Tamper, LateWrite, StrayWrite
  <2>2. QED
    BY <2>1, AnchoredSame
<1>3. CASE Create
  <2>1. /\ run' = run + 1 /\ run \in Nat /\ pc' = "agent"
        /\ UNCHANGED <<sealed, ref, origin>>
    BY <1>1, <1>3 DEF Create, TypeOK
  <2>2. ASSUME ref # None
        PROVE  \E n \in Runs, tree \in Trees : RefOf(n, tree)'
    <3>1. PICK n \in Runs, tree \in Trees : RefOf(n, tree)
      BY <2>2 DEF Anchored
    <3>2. n < run'
      BY <1>1, <2>1, <3>1 DEF RefOf, Runs
    <3>3. RefOf(n, tree)'
      BY <1>1, <2>1, <3>1, <3>2 DEF RefOf, CommitOf, Runs
    <3>4. QED
      BY <3>3
  <2>3. Accepted => Accepted'
    BY <2>1 DEF Accepted, Files, Overlay, Matches, Baseline
  <2>4. QED
    BY <2>1, <2>2, <2>3 DEF Anchored, Seals
<1>4. CASE AgentReturns \/ CheckInputs \/ Scan \/ Accept \/ CopyFile \/ Mint
           \/ Judge \/ JudgeRefuses \/ FillCopy \/ RunCommand \/ Clone \/ Add
  <2>1. UNCHANGED <<run, sealed, ref, origin>>
    BY <1>4 DEF AgentReturns, CheckInputs, Scan, Accept, CopyFile, Mint, Judge, JudgeRefuses,
      FillCopy, RunCommand, Clone, Add
  <2>2. pc' \notin Seals /\ pc \notin {"anchored", "delivered", "failed", "idle"}
    BY <1>4 DEF AgentReturns, CheckInputs, Scan, Accept, CopyFile, Mint, Judge, JudgeRefuses,
      FillCopy, RunCommand, Clone, Add, GitFails, Seals
  <2>3. QED
    BY <2>1, <2>2, AnchoredSame
<1>5. CASE Verify
  <2>1. UNCHANGED <<run, sealed, ref, origin, commit, inventory, judged>>
    BY <1>5 DEF Verify
  <2>2. pc \notin {"anchored", "delivered", "failed", "idle"}
    BY <1>5, ChecksAre DEF Verify, Checked
  <2>3. pc' \in Seals => pc \in Seals
    BY <1>5, Verified DEF Checked, Seals
  <2>4. QED
    BY <2>1, <2>2, <2>3, AnchoredSame
<1>6. CASE Commit \/ Build \/ MakeArtifactPath \/ Capture \/ Deliver
  <2>1. UNCHANGED <<run, sealed, ref, origin>>
    BY <1>6 DEF Commit, Build, MakeArtifactPath, Capture, Deliver
  <2>2. /\ pc' \notin Seals
        /\ pc \in {"anchored", "delivered", "failed", "idle"} =>
             pc' \in {"anchored", "delivered", "failed", "idle"}
    BY <1>6 DEF Commit, Build, MakeArtifactPath, Capture, Deliver, GitFails, Seals
  <2>3. QED
    BY <2>1, <2>2, AnchoredSame
<1>7. CASE MakeStatePath
  <2>1. /\ UNCHANGED <<run, ref, origin>> /\ sealed' \in {sealed, Empty}
        /\ pc = "statePath" /\ pc' \in {"checkoutForCapture", "failed"}
    BY <1>7 DEF MakeStatePath
  <2>2. CASE sealed' = sealed
    BY <2>1, <2>2, AnchoredSame DEF Seals
  <2>3. CASE sealed' = Empty
    <3>1. ASSUME ref # None
          PROVE  sealed' # ref /\ \E n \in Runs, tree \in Trees : RefOf(n, tree)'
      <4>1. PICK n \in Runs, tree \in Trees : RefOf(n, tree)
        BY <3>1 DEF Anchored
      <4>2. RefOf(n, tree)'
        BY <2>1, <4>1 DEF RefOf, CommitOf
      <4>3. sealed' # ref
        BY <2>3, <4>1, NothingThere DEF RefOf
      <4>4. QED
        BY <4>2, <4>3
    <3>2. QED
      BY <2>1, <3>1 DEF Anchored, Seals
  <2>4. QED
    BY <2>1, <2>2, <2>3
<1>8. CASE Seal
  <2>1. /\ UNCHANGED <<run, ref, commit, inventory, judged>> /\ sealed' = commit
        /\ origin' = [inventory |-> inventory, judged |-> judged]
        /\ pc = "seal" /\ pc' = "checkoutSealed"
    BY <1>8 DEF Seal
  <2>2. commit = CommitOf(run, index)
    BY <2>1 DEF Committing, HasCommit, Late, Captures
  <2>3. ASSUME ref # None
        PROVE  sealed' # ref /\ \E n \in Runs, tree \in Trees : RefOf(n, tree)'
    <3>1. PICK n \in Runs, tree \in Trees : RefOf(n, tree)
      BY <2>3 DEF Anchored
    <3>2. n < run /\ ref = CommitOf(n, tree)
      BY <2>1, <3>1 DEF RefOf
    <3>3. RefOf(n, tree)'
      BY <2>1, <3>1, <3>2 DEF RefOf, CommitOf
    <3>4. sealed' # ref
      <4>1. n # run
        BY <1>1, <3>2 DEF TypeOK, Runs
      <4>2. CommitOf(n, tree).run = n /\ CommitOf(run, index).run = run
        BY DEF CommitOf
      <4>3. QED
        BY <2>1, <2>2, <3>2, <4>1, <4>2
    <3>5. QED
      BY <3>3, <3>4
  <2>4. QED
    BY <2>1, <2>3 DEF Anchored
<1>9. CASE PersistRef
  <2>1. /\ UNCHANGED <<run, commit, inventory, judged, sealed, origin, index>>
        /\ pc = "ref"
    BY <1>9 DEF PersistRef
  <2>2. CASE pc' = "failed" /\ ref' = ref
    BY <2>1, <2>2, AnchoredSame DEF Seals
  <2>3. CASE pc' = "anchored" /\ ref' = commit
    <3>1. commit = CommitOf(run, index) /\ index = Overlay(inventory)
      BY <2>1, CommitIsAccepted
    <3>2. sealed = commit /\ origin = [inventory |-> inventory, judged |-> judged]
      BY <2>1 DEF Anchored, Seals
    <3>3. Files(inventory) \subseteq Allowed /\ judged # {} /\ Tested
      BY <2>1 DEF Planned, Judged, Ran, HasIndex, HasCommit, Late, Seals
    <3>4. Accepted
      <4>1. sealed.tree = Overlay(inventory)
        BY <3>1, <3>2 DEF CommitOf
      <4>2. origin.inventory = inventory /\ origin.judged = judged
        BY <3>2
      <4>3. QED
        BY <3>3, <4>1, <4>2 DEF Accepted, Tested
    <3>5. Accepted'
      BY <2>1, <3>4 DEF Accepted, Files, Overlay, Matches, Baseline
    <3>6. run \in Runs /\ index \in Trees
      BY <1>1, <2>1 DEF TypeOK, Runs, HasIndex, HasCommit, Late, Seals
    <3>7. \E n \in Runs, tree \in Trees : RefOf(n, tree)'
      <4>1. PICK n, tree : n = run /\ tree = index
        OBVIOUS
      <4>2. RefOf(n, tree)'
        BY <2>1, <2>3, <3>1, <3>6, <4>1, <1>1 DEF RefOf, Runs, CommitOf
      <4>3. QED
        BY <3>6, <4>1, <4>2
    <3>8. pc' \notin Seals
      BY <2>3 DEF Seals
    <3>9. QED
      BY <3>5, <3>7, <3>8 DEF Anchored
  <2>4. QED
    BY <1>9, <2>2, <2>3 DEF PersistRef, GitFails
<1>10. CASE CleanUp \/ Crash
  <2>1. /\ UNCHANGED <<run, ref, origin>> /\ pc' = "idle" /\ sealed' \in {sealed, None}
    BY <1>10 DEF CleanUp, Crash, Forget, Removed
  <2>2. ASSUME ref # None
        PROVE  \E n \in Runs, tree \in Trees : RefOf(n, tree)'
    <3>1. PICK n \in Runs, tree \in Trees : RefOf(n, tree)
      BY <2>2 DEF Anchored
    <3>2. RefOf(n, tree)'
      BY <2>1, <3>1 DEF RefOf, CommitOf
    <3>3. QED
      BY <3>2
  <2>3. sealed' = sealed /\ Accepted => Accepted'
    BY <2>1 DEF Accepted, Files, Overlay, Matches, Baseline
  <2>4. QED
    BY <2>1, <2>2, <2>3 DEF Anchored, Seals
<1>11. QED
  BY <1>2, <1>3, <1>4, <1>5, <1>6, <1>7, <1>8, <1>9, <1>10 DEF Next

\* A candidate that can be loaded holds the files that were accepted from the agent
\* in the run that sealed it and nothing else, all allowed by the plan, and its
\* commands ran on them: whatever fails, crashes or is run again, when less than ten
\* stray writes fall into a run.
THEOREM LoadableAccepted ==
  ASSUME MaxStrays < 10
  PROVE  Spec => []LoadableIsAccepted
<1> DEFINE CandidateInv == TypeOK /\ Planned /\ Judged /\ Committing /\ Followed /\ Anchored
<1>1. Init => CandidateInv
  <2> SUFFICES ASSUME Init PROVE CandidateInv
    OBVIOUS
  <2>1. Planned /\ Judged
    BY DEF Init, Planned, Judged, Files, NoFiles, Tested, Ran, HasIndex, Cloning, Indexed,
      HasCommit, CommitMade, Late, Directed, Captures, Seals
  <2>2. Committing /\ Followed /\ Anchored
    BY DEF Init, Committing, Followed, Anchored, Cloning, HasCommit, CommitMade, Late,
      Directed, Captures, Seals
  <2>3. QED
    BY <2>1, <2>2, InitTypes
<1>2. CandidateInv /\ [Next]_vars => CandidateInv'
  BY TypeStep, PlannedStep, JudgedStep, CommittingStep, FollowedStep, AnchoredStep
<1>3. CandidateInv => LoadableIsAccepted
  BY DEF Anchored, Accepted, LoadableIsAccepted, Loadable
<1>4. QED
  BY <1>1, <1>2, <1>3, PTL DEF Spec

-----------------------------------------------------------------------------
(***************************************************************************)
(* What a plan leads to, and what may be accepted for it: no variable is   *)
(* read, so what holds is a matter of the definitions alone.               *)
(***************************************************************************)
\* The environment a profile publishes to, and how its copy is made.
Target(p) == IF p.adapter = "local" THEN None ELSE p.environment
Purpose(p) == IF p.adapter = "local" THEN "dry" ELSE "publish"

\* What a profile that was prepared publishes with.
LEMMA PublicationIs ==
  ASSUME NEW p \in Policy!Prepared
  PROVE  LET publication == Policy!PublicationOf(p)
         IN /\ publication.adapter = p.adapter /\ publication.environment = Target(p)
            /\ publication.configSha256
                 = Policy!Sanitized(p.config, Target(p), Purpose(p), p.root)
            /\ publication.siteIndexable = (Chosen(p).indexable = TRUE)
            /\ publication.siteIndexable => p.adapter = "cloudflare"
            /\ p.adapter = "cloudflare" => p.environment # None
            /\ Policy!Inside(p.config.main) /\ Policy!Inside(p.config.assets)
            /\ Policy!Inside(p.config.database.migrations)
            /\ Policy!Inside(Chosen(p).main) /\ Policy!Inside(Chosen(p).assets)
            /\ Policy!Inside(Chosen(p).database.migrations)
<1> DEFINE copied == Policy!Prepare(p.config, Target(p), Purpose(p), p.root)
<1>1. /\ p \in Profiles /\ p.adapter \in {"local", "cloudflare"}
      /\ Policy!Publication(p.adapter, p.config, p.environment, p.root) # None
  BY ProfilesAreWhole DEF Policy!Prepared, Policy!PublicationOf
<1>2. /\ copied # None /\ (p.adapter = "local" => ~copied.indexable)
      /\ (p.adapter = "cloudflare" => p.environment # None)
      /\ Policy!PublicationOf(p) = [adapter |-> p.adapter, configSha256 |-> copied.sha256,
                                    environment |-> Target(p), siteIndexable |-> copied.indexable]
  BY <1>1, Zenon DEF Policy!PublicationOf, Policy!Publication, Target, Purpose
<1>3. /\ copied = [sha256 |-> Policy!Sanitized(p.config, Target(p), Purpose(p), p.root),
                   environment |-> Target(p), indexable |-> Chosen(p).indexable = TRUE]
      /\ Policy!Sanitizable(p.config, IF Target(p) # None /\ Purpose(p) = "preview"
                                      THEN "publish" ELSE Purpose(p))
      /\ Policy!Sanitizable(Chosen(p), Purpose(p))
  BY <1>2, Zenon DEF Policy!Prepare, Chosen, Target
<1>4. /\ Policy!Inside(p.config.main) /\ Policy!Inside(p.config.assets)
      /\ Policy!Inside(p.config.database.migrations)
      /\ Policy!Inside(Chosen(p).main) /\ Policy!Inside(Chosen(p).assets)
      /\ Policy!Inside(Chosen(p).database.migrations)
  BY <1>3 DEF Policy!Sanitizable, Policy!ValidDatabase
<1> HIDE DEF copied
<1>5. QED
  BY <1>1, <1>2, <1>3, <1>4

\* The fields of a plan that come from its request and its profile.
LEMMA PlanIs ==
  ASSUME NEW p \in Policy!Prepared, NEW plan \in Policy!PlansOf(p)
  PROVE  /\ plan.publication = Policy!PublicationOf(p)
         /\ plan.islands = {} /\ plan.dependencies = {}
         /\ plan.components \in {{"SiteLayout"}, {"SiteLayout", "PageHero"}}
         /\ Policy!Planned(plan) = {Policy!Expected(plan)[f] : f \in DOMAIN Policy!Expected(plan)}
         /\ \E r \in Requests : plan.changeId = r.changeId /\ plan.target = r.target
<1>1. PICK r \in Requests, m \in Manifests :
        plan = Policy!ChangePlan(r, "b", Policy!PublicationOf(p), m) /\ plan # None
  BY DEF Policy!PlansOf
<1> DEFINE paths == Policy!OutputPaths(r.changeId, r.target)
           there == Policy!RouteExists(r.target, m)
           files == {<<paths.route, IF there THEN "modify" ELSE "create">>}
                      \cup {<<paths[f], "create">> : f \in DOMAIN paths \ {"route"}}
<1>2. plan = [changeId |-> r.changeId, baseline |-> "b", requestSha256 |-> r.inputSha256,
              mode |-> Policy!SelectMode(r), target |-> r.target, overwrites |-> there,
              files |-> files, components |-> Policy!SelectCatalog(r), islands |-> {},
              dependencies |-> {}, validations |-> Policy!Validations(there, r.criteria),
              publication |-> Policy!PublicationOf(p)]
  BY <1>1, Zenon DEF Policy!ChangePlan
<1>3. Policy!SelectCatalog(r) \in {{"SiteLayout"}, {"SiteLayout", "PageHero"}}
  BY DEF Policy!SelectCatalog
<1>4. "route" \in DOMAIN paths
  BY DEF Policy!OutputPaths
<1>5. Policy!Expected(plan) = paths
  BY <1>2 DEF Policy!Expected
<1>6. {file[1] : file \in files} = {paths[f] : f \in DOMAIN paths}
  <2> HIDE DEF paths, there
  <2>1. \A file \in files : \E f \in DOMAIN paths : file[1] = paths[f]
    BY <1>4
  <2>2. ASSUME NEW f \in DOMAIN paths PROVE \E file \in files : file[1] = paths[f]
    <3>1. CASE f = "route"
      <4>1. <<paths.route, IF there THEN "modify" ELSE "create">> \in files
        OBVIOUS
      <4>2. QED
        BY <3>1, <4>1
    <3>2. CASE f # "route"
      <4>1. <<paths[f], "create">> \in files
        BY <3>2
      <4>2. QED
        BY <4>1
    <3>3. QED
      BY <3>1, <3>2
  <2> HIDE DEF files
  <2>3. QED
    BY <2>1, <2>2
<1> HIDE DEF files, paths, there
<1>7. Policy!Planned(plan) = {paths[f] : f \in DOMAIN paths}
  BY <1>2, <1>6 DEF Policy!Planned
<1>8. QED
  BY <1>2, <1>3, <1>5, <1>7

\* What is accepted (validateOutputPolicy).
LEMMA AcceptedIsPlanned ==
  ASSUME NEW p \in Policy!Prepared, NEW plan \in Policy!PlansOf(p), NEW output,
         Policy!OutputAccepted(output, plan)
  PROVE  LET page == output.tree[Policy!Expected(plan).route].bytes
             content == output.tree[Policy!Expected(plan).content].bytes
         IN /\ Policy!OfTheChange(output, plan) /\ Policy!SiteComponents(page, plan)
            /\ content.contentSha256 = page
            /\ content.index =>
                 /\ p.adapter = "cloudflare" /\ Policy!Intended(p, <<>>).indexable
                 /\ ~content.private
<1> DEFINE paths == Policy!Expected(plan)
           page == output.sha256[paths.route]
           content == output.sha256[paths.content]
<1>1. /\ plan.publication = Policy!PublicationOf(p) /\ plan.islands = {}
      /\ plan.dependencies = {}
      /\ Policy!Planned(plan) = {paths[f] : f \in DOMAIN paths}
  BY PlanIs
<1>2. /\ \A path \in DOMAIN output.sha256 :
           /\ Policy!OutputPathAllowed(path, plan)
           /\ Policy!ReadInventoryFile(output, path)
           /\ Policy!ValidFile(output.sha256[path], path, plan)
      /\ paths.route \in DOMAIN output.sha256 /\ paths.content \in DOMAIN output.sha256
      /\ Policy!CommonContent(content, plan, page)
  BY Zenon DEF Policy!OutputAccepted
<1>3. /\ output.tree[paths.route].bytes = page
      /\ output.tree[paths.content].bytes = content
  BY <1>2 DEF Policy!ReadInventoryFile
<1>4. Policy!OfTheChange(output, plan)
  <2>1. SUFFICES ASSUME NEW path \in DOMAIN output.sha256, path \notin {paths[f] : f \in DOMAIN paths}
                 PROVE  /\ Policy!IsStrictPrefix(<<"public", "generated", plan.changeId>>, path.at)
                        /\ output.tree[path].bytes.type \in Policy!Inert
    BY DEF Policy!OfTheChange
  <2>2. Policy!IsDescendant(paths.assets, path)
    <3>1. ~Policy!IsDescendant(paths.components, path)
      BY <1>2, Zenon DEF Policy!ValidFile
    <3>2. QED
      BY <1>1, <1>2, <2>1, <3>1, Zenon DEF Policy!OutputPathAllowed
  <2>3. Policy!ValidAsset(output.sha256[path], path)
    BY <1>2, <2>2, Zenon DEF Policy!ValidFile
  <2>4. output.tree[path].bytes = output.sha256[path]
    BY <1>2 DEF Policy!ReadInventoryFile
  <2>5. paths.assets.at = <<"public", "generated", plan.changeId>>
    BY DEF Policy!Expected, Policy!OutputPaths
  <2>6. QED
    BY <2>2, <2>3, <2>4, <2>5 DEF Policy!IsDescendant, Policy!ValidAsset
<1>5. Policy!SiteComponents(page, plan)
  <2>1. Policy!ValidPage(page, paths.route, plan)
    <3>1. paths.route.ext = ".astro"
      BY DEF Policy!Expected, Policy!OutputPaths
    <3>2. QED
      BY <1>2, <3>1, Zenon DEF Policy!ValidFile
  <2>2. /\ \A r \in page.imports : Policy!Approved(r, plan)
        /\ Policy!ValidTags(page, plan)
    BY <2>1, Zenon DEF Policy!ValidPage, Policy!ValidImports
  <2>3. SUFFICES ASSUME NEW node \in Policy!Nodes(page)
                 PROVE  /\ node.type = "component" =>
                             {record.specifier.target : record \in
                                {r \in page.imports : \E b \in r.bindings : b.local = node.name}}
                             = {IF node.name = "GeneratedBlockPage" THEN Policy!Renderer
                                ELSE Policy!Components[node.name]}
                        /\ \A attribute \in Policy!Range(node.attributes) :
                             attribute.name \notin Policy!Handlers
                               \cup IF node.type = "component" THEN Policy!Hydration ELSE {}
    BY DEF Policy!SiteComponents
  <2> DEFINE found == {record.specifier.target : record \in
                         {r \in page.imports : \E b \in r.bindings : b.local = node.name}}
  <2>4. found = Policy!Bound(page, plan, node.name)
    BY <2>2 DEF Policy!Bound
  <2>5. /\ \A attribute \in Policy!Range(node.attributes) : Policy!ValidAttribute(attribute, node)
        /\ node.type = "component" => Policy!ValidComponent(node, page, plan)
    BY <2>2 DEF Policy!ValidTags
  <2>6. \A attribute \in Policy!Range(node.attributes) : attribute.name \notin Policy!Handlers
    BY <2>5 DEF Policy!ValidAttribute
  <2>7. ASSUME node.type = "component"
        PROVE  /\ found = {IF node.name = "GeneratedBlockPage" THEN Policy!Renderer
                           ELSE Policy!Components[node.name]}
               /\ \A attribute \in Policy!Range(node.attributes) : attribute.name \notin Policy!Hydration
    <3>1. Policy!ValidComponent(node, page, plan)
      BY <2>5, <2>7
    <3>2. "GeneratedBlockPage" \notin DOMAIN Policy!Components
      BY DEF Policy!Components
    <3>3. ~(node.name \in DOMAIN Policy!Islands \cap plan.islands)
      BY <1>1
    <3> HIDE DEF found
    <3>4. QED
      BY <2>4, <3>1, <3>2, <3>3 DEF Policy!ValidComponent
  <2>8. QED
    BY <2>6, <2>7
<1>6. /\ content.contentSha256 = page
      /\ plan.publication.siteIndexable \/ ~content.index
      /\ content.private => ~content.index
  BY <1>2 DEF Policy!CommonContent
<1>7. Policy!Intended(p, <<>>).indexable = (Chosen(p).indexable = TRUE)
  BY DEF Policy!Intended, Chosen
<1>8. content.index =>
        p.adapter = "cloudflare" /\ Policy!Intended(p, <<>>).indexable /\ ~content.private
  BY <1>1, <1>6, <1>7, PublicationIs
<1>9. QED
  BY <1>3, <1>4, <1>5, <1>6, <1>8

-----------------------------------------------------------------------------
\* path.relative and path.resolve: the longest common beginning is one.
LEMMA CommonIs ==
  ASSUME NEW A, NEW a \in Seq(A), NEW b \in Seq(A)
  PROVE  LET n == Policy!Common(a, b)
         IN n \in 0 .. Len(a) /\ n <= Len(b) /\ SubSeq(a, 1, n) = SubSeq(b, 1, n)
<1> DEFINE Shared(n) == Policy!IsPrefix(SubSeq(a, 1, n), b)
           left == {Len(a) - n : n \in {i \in 0 .. Len(a) : Shared(i)}}
           Longest(n) == Shared(n) /\ \A m \in n + 1 .. Len(a) : ~Shared(m)
<1>1. Len(a) \in Nat /\ Len(b) \in Nat
  OBVIOUS
<1>2. Shared(0)
  <2>1. SubSeq(a, 1, 0) = <<>> /\ SubSeq(b, 1, 0) = <<>> /\ SubSeq(<<>>, 1, 0) = <<>>
    BY <1>1, SubSeqEmpty
  <2>2. QED
    BY <1>1, <2>1 DEF Policy!IsPrefix
<1>3. \E n \in 0 .. Len(a) : Longest(n)
  <2> HIDE DEF Shared
  <2>1. left # {} /\ left \subseteq Nat
    BY <1>1, <1>2
  <2> HIDE DEF left
  <2>2. PICK k \in left : \A m \in left : ~(<<m, k>> \in OpToRel(<, Nat))
    BY <2>1, NatLessThanWellFounded, WFMin
  <2>3. \A m \in left : ~(m < k)
    <3>1. \A m \in left : m < k => <<m, k>> \in OpToRel(<, Nat)
      BY <2>1, <2>2 DEF OpToRel
    <3>2. QED
      BY <2>2, <3>1
  <2> USE DEF left
  <2>4. PICK n \in 0 .. Len(a) : k = Len(a) - n /\ Shared(n)
    BY <2>2
  <2>5. ASSUME NEW m \in n + 1 .. Len(a), Shared(m) PROVE FALSE
    <3>1. m \in 0 .. Len(a) /\ Len(a) - m < k
      BY <1>1, <2>4, <2>5
    <3>2. Len(a) - m \in left
      BY <2>5, <3>1
    <3>3. QED
      BY <2>3, <3>1, <3>2
  <2>6. QED
    BY <2>4, <2>5
<1> DEFINE n == Policy!Common(a, b)
<1>4. n \in 0 .. Len(a) /\ Shared(n)
  <2>1. n = CHOOSE i \in 0 .. Len(a) : Longest(i)
    BY DEF Policy!Common
  <2> HIDE DEF n, Longest
  <2>2. n \in 0 .. Len(a) /\ Longest(n)
    BY <1>3, <2>1
  <2>3. QED
    BY <2>2 DEF Longest
<1> HIDE DEF n
<1>5. /\ SubSeq(a, 1, n) \in Seq(A) /\ Len(SubSeq(a, 1, n)) = n
      /\ SubSeq(SubSeq(a, 1, n), 1, n) = SubSeq(a, 1, n)
  <2>1. \A i \in 1 .. n : a[i] \in A
    BY <1>1, <1>4
  <2>2. n \in Int /\ 1 \in Int
    BY <1>1, <1>4
  <2>3. /\ SubSeq(a, 1, n) \in Seq(A)
        /\ Len(SubSeq(a, 1, n)) = IF 1 <= n THEN n - 1 + 1 ELSE 0
    BY <2>1, <2>2, SubSeqProperties
  <2>4. Len(SubSeq(a, 1, n)) = n
    BY <1>1, <1>4, <2>3
  <2>5. QED
    BY <2>3, <2>4, SubSeqFull
<1>6. n <= Len(b) /\ SubSeq(a, 1, n) = SubSeq(b, 1, n)
  BY <1>4, <1>5 DEF Policy!IsPrefix
<1>7. QED
  BY <1>4, <1>6 DEF n

\* What is named from a directory is what it was.
LEMMA ThereAgain ==
  ASSUME NEW A, NEW from \in Seq(A), NEW to \in Seq(A)
  PROVE  Policy!Resolve(from, Policy!Relative(from, to)) = to
<1>1. PICK n : n = Policy!Common(from, to)
  OBVIOUS
<1>2. /\ n \in 0 .. Len(from) /\ n <= Len(to) /\ SubSeq(from, 1, n) = SubSeq(to, 1, n)
  BY <1>1, CommonIs
<1>3. PICK text : text = Policy!Relative(from, to)
  OBVIOUS
<1>4. text = [up |-> Len(from) - n, down |-> SubSeq(to, n + 1, Len(to))]
  BY <1>1, <1>3, Zenon DEF Policy!Relative
<1>5. Len(from) \in Nat /\ Len(to) \in Nat
  OBVIOUS
<1>6. text.up = Len(from) - n /\ text.down = SubSeq(to, n + 1, Len(to))
  BY <1>4
<1>7. Policy!Resolve(from, text) = SubSeq(from, 1, n) \o SubSeq(to, n + 1, Len(to))
  <2>1. ~(text.up > Len(from)) /\ Len(from) - text.up = n
    BY <1>2, <1>5, <1>6
  <2>2. Policy!Resolve(from, text) = SubSeq(from, 1, Len(from) - text.up) \o text.down
    BY <2>1, Zenon DEF Policy!Resolve
  <2>3. QED
    BY <1>6, <2>1, <2>2, Zenon
<1>8. SubSeq(to, 1, n) \o SubSeq(to, n + 1, Len(to)) = SubSeq(to, 1, Len(to))
  <2>1. /\ 1 \in 1 .. Len(to) + 1 /\ n \in 1 - 1 .. Len(to) /\ Len(to) \in n .. Len(to)
    BY <1>2, <1>5
  <2>2. QED
    BY <2>1, ConcatAdjacentSubSeq
<1>9. SubSeq(to, 1, Len(to)) = to
  BY SubSeqFull
<1>10. QED
  BY <1>2, <1>3, <1>7, <1>8, <1>9

\* A place below the root is named from there by going down only.
LEMMA FromTheRoot ==
  ASSUME NEW A, NEW to \in Seq(A)
  PROVE  Policy!Relative(<<>>, to) = [up |-> 0, down |-> to]
<1> DEFINE n == Policy!Common(<<>>, to)
<1>1. <<>> \in Seq(A) /\ Len(<<>>) = 0
  OBVIOUS
<1>2. n \in 0 .. Len(<<>>)
  BY <1>1, CommonIs
<1>3. n = 0
  BY <1>1, <1>2
<1>4. Policy!Relative(<<>>, to) = [up |-> Len(<<>>) - n, down |-> SubSeq(to, n + 1, Len(to))]
  BY DEF Policy!Relative
<1>5. 0 + 1 = 1 /\ Len(<<>>) - 0 = 0
  BY <1>1
<1> HIDE DEF n
<1>6. QED
  BY <1>3, <1>4, <1>5, SubSeqFull

\* In a copy of the repository the same name leads to the same place of the copy.
LEMMA FromACopy ==
  ASSUME NEW root, NEW to, root \in Seq(Range(root)), to \in Seq(Range(to))
  PROVE  Policy!Resolve(root, Policy!Relative(<<>>, to)) = root \o to
<1>1. Policy!Relative(<<>>, to) = [up |-> 0, down |-> to]
  BY FromTheRoot
<1>2. Len(root) \in Nat
  OBVIOUS
<1>3. ~(0 > Len(root)) /\ Len(root) - 0 = Len(root)
  BY <1>2
<1>4. SubSeq(root, 1, Len(root)) = root
  BY SubSeqFull
<1>5. QED
  BY <1>1, <1>3, <1>4 DEF Policy!Resolve

\* relativeExecutionPath undoes what rebaseProjectPath did.
LEMMA Undone ==
  ASSUME NEW root, NEW text, root \in Seq(Range(root)),
         text.down \in Seq(Range(text.down)), Policy!Inside(text), text.down # None
  PROVE  Policy!RelativeExecutionPath(Policy!Rebase(text, root), root)
           = Policy!Relative(<<>>, text.down)
<1> DEFINE A == Range(root) \cup Range(text.down)
<1>1. root \in Seq(A) /\ text.down \in Seq(A)
  OBVIOUS
<1> HIDE DEF A
<1>2. Policy!Resolve(root, Policy!Rebase(text, root)) = text.down
  BY <1>1, ThereAgain DEF Policy!Rebase
<1>3. QED
  BY <1>2 DEF Policy!RelativeExecutionPath, Policy!Inside

\* The migrations of a database, named from the root.
LEMMA DatabaseMoved ==
  ASSUME NEW root, NEW database, NEW there, root \in Seq(Range(root)),
         {"id", "migrations"} \subseteq DOMAIN database,
         Policy!Inside(database.migrations), database.migrations.down # None,
         database.migrations.down \in Seq(Range(database.migrations.down)),
         there = Policy!NormalizedDatabase(
                   [database EXCEPT !.migrations = Policy!Rebase(@, root)], root)
  PROVE  /\ there.migrations = Policy!Relative(<<>>, database.migrations.down)
         /\ there.id = database.id
<1>1. PICK text : text = Policy!Rebase(database.migrations, root)
  OBVIOUS
<1>2. PICK over : over = [database EXCEPT !.migrations = text]
  OBVIOUS
<1>3. /\ over.migrations = text /\ over.id = database.id /\ DOMAIN over = DOMAIN database
  BY <1>2
<1>4. there = [over EXCEPT !.migrations = Policy!RelativeExecutionPath(over.migrations, root)]
  BY <1>1, <1>2 DEF Policy!NormalizedDatabase
<1>5. /\ there.migrations = Policy!RelativeExecutionPath(text, root)
      /\ there.id = database.id
  BY <1>3, <1>4
<1>6. QED
  BY <1>1, <1>5, Undone

\* A profile is whole (createRelocatablePlanningPublication reads it once more).
LEMMA ProfileIs ==
  ASSUME NEW p \in Policy!Prepared
  PROVE  /\ p.root \in Seq(Range(p.root)) /\ None \notin Places(p)
         /\ \A place \in Places(p) :
              place \in Seq(Range(place)) /\ None # Policy!Relative(<<>>, place)
         /\ {"id", "migrations"} \subseteq DOMAIN p.config.database
         /\ {"id", "migrations"} \subseteq DOMAIN Chosen(p).database
         /\ Chosen(p).main = p.config.main /\ Chosen(p).assets = p.config.assets
         /\ Target(p) = None => Chosen(p) = p.config
<1>1. /\ p.root \in Seq(Range(p.root)) /\ None \notin Places(p)
      /\ \A place \in Places(p) :
           place \in Seq(Range(place)) /\ None # Policy!Relative(<<>>, place)
      /\ {"main", "assets", "database", "indexable"} \subseteq DOMAIN p.config
      /\ {"id", "migrations"} \subseteq DOMAIN p.config.database
      /\ {"id", "migrations"} \subseteq DOMAIN Chosen(p).database
  <2>1. \A place \in Places(p) : None # place /\ None # Policy!Relative(<<>>, place)
    BY NoneIsNothing
  <2>2. QED
    BY <2>1, ProfilesAreWhole
<1>2. /\ Chosen(p).main = p.config.main /\ Chosen(p).assets = p.config.assets
      /\ Target(p) = None => Chosen(p) = p.config
  <2>1. Chosen(p) = Policy!Effective(p.config, Target(p))
    BY DEF Chosen, Target
  <2>2. QED
    BY <1>1, <2>1 DEF Policy!Effective
<1>3. QED
  BY <1>1, <1>2

\* The copy of a profile moved to the root of a checkout: its base, what lies over
\* it, and what it publishes with.
BaseOf(p) == Policy!Moved(Policy!PublicationOf(p).configSha256, p.root)
OverOf(p) == IF Target(p) = None THEN None
             ELSE Policy!MovedOver(Policy!PublicationOf(p).configSha256, p.root)
EffectiveOf(p) == IF Target(p) = None THEN BaseOf(p) ELSE OverOf(p)

\* The sanitized copy, named from the root, names what the operator's profile names.
LEMMA CopyMoved ==
  ASSUME NEW p \in Policy!Prepared
  PROVE  /\ BaseOf(p).main = Policy!Relative(<<>>, p.config.main.down)
         /\ BaseOf(p).assets = Policy!Relative(<<>>, p.config.assets.down)
         /\ BaseOf(p).database.migrations
              = Policy!Relative(<<>>, p.config.database.migrations.down)
         /\ EffectiveOf(p).database.migrations
              = Policy!Relative(<<>>, Chosen(p).database.migrations.down)
         /\ EffectiveOf(p).database.id = Chosen(p).database.id
         /\ EffectiveOf(p).indexable = (Chosen(p).indexable = TRUE)
         /\ Policy!PublicationOf(p).configSha256.environment = Target(p)
         /\ ~Policy!PublicationOf(p).configSha256.routing
<1>1. PICK ours : ours = Policy!PublicationOf(p).configSha256
  OBVIOUS
<1>2. PICK moved : moved = BaseOf(p)
  OBVIOUS
<1>3. PICK over : over = OverOf(p)
  OBVIOUS
<1>4. PICK effective : effective = EffectiveOf(p)
  OBVIOUS
<1>5. /\ Policy!Inside(p.config.main) /\ Policy!Inside(p.config.assets)
      /\ Policy!Inside(p.config.database.migrations)
      /\ Policy!Inside(Chosen(p).database.migrations)
      /\ ours = Policy!Sanitized(p.config, Target(p), Purpose(p), p.root)
  BY <1>1, PublicationIs
<1>6. /\ {p.config.main.down, p.config.assets.down, p.config.database.migrations.down,
          Chosen(p).database.migrations.down} \subseteq Places(p)
  BY DEF Places
<1>7. PICK base : base = Policy!Clean(p.config, p.root)
  OBVIOUS
<1>8. PICK other : other = Policy!Clean(Chosen(p), p.root)
  OBVIOUS
<1>9. /\ ours.base = base /\ ours.environment = Target(p) /\ ~ours.routing
      /\ Target(p) # None => ours.over = [database |-> other.database,
                                          indexable |-> Chosen(p).indexable = TRUE]
  <2>1. Chosen(p) = Policy!Effective(p.config, Target(p))
    BY DEF Chosen, Target
  <2>2. Purpose(p) # "preview"
    BY DEF Purpose
  <2>3. ours = [base |-> base, environment |-> Target(p),
                over |-> IF Target(p) = None THEN None
                         ELSE [database |-> other.database,
                               indexable |-> Chosen(p).indexable = TRUE],
                routing |-> Purpose(p) = "preview"]
    BY <1>5, <1>7, <1>8, <2>1, Zenon DEF Policy!Sanitized
  <2>4. ours.base = base /\ ours.environment = Target(p) /\ ours.routing = (Purpose(p) = "preview")
    BY <2>3
  <2>5. ours.over = IF Target(p) = None THEN None
                    ELSE [database |-> other.database, indexable |-> Chosen(p).indexable = TRUE]
    BY <2>3
  <2>6. QED
    BY <2>2, <2>4, <2>5
<1>10. /\ base.main = Policy!Rebase(p.config.main, p.root)
      /\ base.assets = Policy!Rebase(p.config.assets, p.root)
      /\ base.database = [p.config.database EXCEPT !.migrations = Policy!Rebase(@, p.root)]
      /\ base.indexable = (p.config.indexable = TRUE)
      /\ other.database = [Chosen(p).database EXCEPT !.migrations = Policy!Rebase(@, p.root)]
  BY <1>7, <1>8 DEF Policy!Clean
<1>11. /\ moved.main = Policy!RelativeExecutionPath(base.main, p.root)
      /\ moved.assets = Policy!RelativeExecutionPath(base.assets, p.root)
      /\ moved.database = Policy!NormalizedDatabase(base.database, p.root)
      /\ moved.indexable = base.indexable
  BY <1>1, <1>2, <1>9 DEF BaseOf, Policy!Moved
<1>12. ASSUME Target(p) # None
      PROVE  /\ over.database = Policy!NormalizedDatabase(other.database, p.root)
             /\ over.indexable = (Chosen(p).indexable = TRUE)
  <2>1. over = [ours.over EXCEPT !.database = Policy!NormalizedDatabase(@, p.root)]
    BY <1>1, <1>3, <1>12 DEF OverOf, Policy!MovedOver
  <2>2. QED
    BY <1>9, <1>12, <2>1
<1>13. /\ moved.main = Policy!Relative(<<>>, p.config.main.down)
      /\ moved.assets = Policy!Relative(<<>>, p.config.assets.down)
  <2>1. \A text \in {p.config.main, p.config.assets} :
          /\ text.down \in Seq(Range(text.down)) /\ Policy!Inside(text) /\ text.down # None
    BY <1>5, <1>6, ProfileIs
  <2>2. p.root \in Seq(Range(p.root))
    BY ProfileIs
  <2>3. \A text \in {p.config.main, p.config.assets} :
          Policy!RelativeExecutionPath(Policy!Rebase(text, p.root), p.root)
            = Policy!Relative(<<>>, text.down)
    BY <2>1, <2>2, Undone
  <2>4. QED
    BY <1>10, <1>11, <2>3
<1>14. /\ moved.database.migrations
            = Policy!Relative(<<>>, p.config.database.migrations.down)
       /\ moved.database.id = p.config.database.id
  <2>1. PICK database : database = p.config.database
    OBVIOUS
  <2>2. /\ {"id", "migrations"} \subseteq DOMAIN database
        /\ Policy!Inside(database.migrations) /\ database.migrations.down # None
        /\ database.migrations.down \in Seq(Range(database.migrations.down))
        /\ p.root \in Seq(Range(p.root))
    BY <1>5, <1>6, <2>1, ProfileIs
  <2>3. moved.database = Policy!NormalizedDatabase(
                           [database EXCEPT !.migrations = Policy!Rebase(@, p.root)], p.root)
    BY <1>10, <1>11, <2>1
  <2>4. QED
    BY <2>1, <2>2, <2>3, DatabaseMoved
<1>15. ASSUME Target(p) # None
       PROVE  /\ over.database.migrations
                   = Policy!Relative(<<>>, Chosen(p).database.migrations.down)
              /\ over.database.id = Chosen(p).database.id
  <2>1. PICK database : database = Chosen(p).database
    OBVIOUS
  <2>2. /\ {"id", "migrations"} \subseteq DOMAIN database
        /\ Policy!Inside(database.migrations) /\ database.migrations.down # None
        /\ database.migrations.down \in Seq(Range(database.migrations.down))
        /\ p.root \in Seq(Range(p.root))
    BY <1>5, <1>6, <2>1, ProfileIs
  <2>3. over.database = Policy!NormalizedDatabase(
                          [database EXCEPT !.migrations = Policy!Rebase(@, p.root)], p.root)
    BY <1>10, <1>12, <1>15, <2>1
  <2>4. QED
    BY <2>1, <2>2, <2>3, DatabaseMoved
<1>16. effective = IF Target(p) = None THEN moved ELSE over
  BY <1>2, <1>3, <1>4 DEF EffectiveOf
<1>17. /\ effective.database.migrations
            = Policy!Relative(<<>>, Chosen(p).database.migrations.down)
       /\ effective.database.id = Chosen(p).database.id
       /\ effective.indexable = (Chosen(p).indexable = TRUE)
  <2>1. CASE Target(p) = None
    BY <1>10, <1>11, <1>14, <1>16, <2>1, ProfileIs
  <2>2. CASE Target(p) # None
    BY <1>12, <1>15, <1>16, <2>2
  <2>3. QED
    BY <2>1, <2>2
<1>18. QED
  BY <1>1, <1>2, <1>4, <1>9, <1>13, <1>14, <1>17

\* What a plan publishes with, wherever the repository is copied.
LEMMA TemplateIs ==
  ASSUME NEW p \in Policy!Prepared, NEW ours, NEW template,
         ours = Policy!PublicationOf(p).configSha256,
         template = Policy!Relocated(ours, p.root)
  PROVE  /\ Policy!Template(ours, p.root, Policy!PublicationOf(p)) = template
         /\ template # None
<1>1. PICK publication : publication = Policy!PublicationOf(p)
  OBVIOUS
<1>2. PICK moved : moved = BaseOf(p)
  OBVIOUS
<1>3. PICK over : over = OverOf(p)
  OBVIOUS
<1>4. PICK effective : effective = EffectiveOf(p)
  OBVIOUS
<1>5. /\ publication.adapter = p.adapter /\ publication.environment = Target(p)
      /\ publication.siteIndexable = (Chosen(p).indexable = TRUE)
      /\ p.adapter = "cloudflare" => p.environment # None
      /\ p.adapter \in {"local", "cloudflare"}
  BY <1>1, PublicationIs, ProfilesAreWhole
<1>6. /\ moved.main = Policy!Relative(<<>>, p.config.main.down)
      /\ moved.assets = Policy!Relative(<<>>, p.config.assets.down)
      /\ moved.database.migrations
           = Policy!Relative(<<>>, p.config.database.migrations.down)
      /\ effective.database.migrations
           = Policy!Relative(<<>>, Chosen(p).database.migrations.down)
      /\ effective.indexable = (Chosen(p).indexable = TRUE)
      /\ ours.environment = Target(p) /\ ~ours.routing
  BY <1>2, <1>4, CopyMoved
<1>7. None \notin {moved.main, moved.assets, moved.database.migrations,
                   effective.database.migrations}
  BY <1>6, ProfileIs DEF Places
<1>8. publication.adapter = "cloudflare" <=> publication.environment # None
  BY <1>5 DEF Target
<1>9. effective = IF publication.environment = None THEN moved
                  ELSE Policy!MovedOver(ours, p.root)
  BY <1>2, <1>3, <1>4, <1>5 DEF EffectiveOf, OverOf
<1>10. Policy!Template(ours, p.root, publication) = template
  <2>1. moved = Policy!Moved(ours, p.root)
    BY <1>2 DEF BaseOf
  <2>2. QED
    BY <2>1, <1>5, <1>6, <1>7, <1>8, <1>9, Zenon DEF Policy!Template
<1>11. template # None
  BY NoneIsNothing
<1>12. QED
  BY <1>1, <1>10, <1>11

\* In any copy of the repository, the profile leads where it leads here.
LEMMA MaterializedIs ==
  ASSUME NEW p \in Policy!Prepared, NEW ours, NEW template, NEW root \in Roots,
         ours = Policy!PublicationOf(p).configSha256,
         template = Policy!Relocated(ours, p.root)
  PROVE  Policy!Materialized(template, root) = Policy!Intended(p, root)
<1>1. PICK moved : moved = BaseOf(p)
  OBVIOUS
<1>2. PICK over : over = OverOf(p)
  OBVIOUS
<1>3. PICK effective : effective = EffectiveOf(p)
  OBVIOUS
<1>4. /\ moved.main = Policy!Relative(<<>>, p.config.main.down)
      /\ moved.assets = Policy!Relative(<<>>, p.config.assets.down)
      /\ effective.database.migrations
           = Policy!Relative(<<>>, Chosen(p).database.migrations.down)
      /\ effective.database.id = Chosen(p).database.id
      /\ effective.indexable = (Chosen(p).indexable = TRUE)
      /\ ours.environment = Target(p)
  BY <1>1, <1>3, CopyMoved
<1>5. /\ template.base = moved /\ template.environment = Target(p) /\ template.over = over
  <2>1. template = [base |-> moved, environment |-> Target(p), over |-> over]
    BY <1>1, <1>2, <1>4, Zenon DEF Policy!Relocated, BaseOf, OverOf
  <2>2. QED
    BY <2>1
<1>6. Policy!Materialized(template, root)
        = [main       |-> Policy!Resolve(root, moved.main),
           assets     |-> Policy!Resolve(root, moved.assets),
           migrations |-> Policy!Resolve(root, effective.database.migrations),
           database   |-> effective.database.id,
           indexable  |-> effective.indexable]
  BY <1>1, <1>2, <1>3, <1>5, Zenon DEF Policy!Materialized, EffectiveOf
<1>7. /\ Policy!Resolve(root, moved.main) = root \o p.config.main.down
      /\ Policy!Resolve(root, moved.assets) = root \o p.config.assets.down
      /\ Policy!Resolve(root, effective.database.migrations)
           = root \o Chosen(p).database.migrations.down
  <2>1. root \in Seq(Range(root))
    BY BoundsAre
  <2>2. /\ {p.config.main.down, p.config.assets.down,
            Chosen(p).database.migrations.down} \subseteq Places(p)
    BY DEF Places
  <2>3. QED
    BY <1>4, <2>1, <2>2, ProfileIs, FromACopy
<1>8. Policy!Intended(p, root)
        = [main       |-> root \o Chosen(p).main.down,
           assets     |-> root \o Chosen(p).assets.down,
           migrations |-> root \o Chosen(p).database.migrations.down,
           database   |-> Chosen(p).database.id,
           indexable  |-> Chosen(p).indexable = TRUE]
  BY Zenon DEF Policy!Intended, Chosen
<1>9. QED
  BY <1>4, <1>6, <1>7, <1>8, ProfileIs

\* What is found of the profile that a writer left, who may have died, is of use to a plan
\* exactly if it is the plan's own and whole; and then it leads where the operator's does.
Leads(p, q, died, root, plan) ==
  LET found == Policy!WriteArtifact(None, Policy!PublicationOf(q).configSha256, died)
      template == Policy!Relocatable(Policy!PublicationOf(p), plan, p.root, found)
  IN /\ template # None
          <=> /\ Policy!WriteArtifact(found, Policy!PublicationOf(p).configSha256, FALSE) # None
              /\ ~died
     /\ template # None => Policy!Materialized(template, root) = Policy!Intended(p, root)

LEMMA ProfileLeads ==
  ASSUME NEW p \in Policy!Prepared, NEW q \in Policy!Prepared, NEW died \in BOOLEAN,
         NEW root \in Roots, NEW plan \in Policy!PlansOf(p)
  PROVE  Leads(p, q, died, root, plan)
<1>1. PICK found : found = Policy!WriteArtifact(None, Policy!PublicationOf(q).configSha256, died)
  OBVIOUS
<1>2. PICK template :
         template = Policy!Relocatable(Policy!PublicationOf(p), plan, p.root, found)
  OBVIOUS
<1>3. PICK publication : publication = Policy!PublicationOf(p)
  OBVIOUS
<1>4. PICK ours : ours = publication.configSha256
  OBVIOUS
<1>5. PICK theirs : theirs = Policy!PublicationOf(q).configSha256
  OBVIOUS
<1>6. /\ found.copy = theirs /\ found.links = IF died THEN 2 ELSE 1
  <2>1. found = [copy |-> theirs, links |-> IF died THEN 2 ELSE 1]
    BY <1>1, <1>5 DEF Policy!WriteArtifact
  <2>2. QED
    BY <2>1
<1>7. found # None
  BY <1>1, <1>5, NoneIsNothing
<1>8. Policy!WriteArtifact(found, ours, FALSE) # None <=> theirs = ours
  BY <1>6, <1>7 DEF Policy!WriteArtifact
<1>9. plan.publication = publication
  BY <1>3, PlanIs
<1>10. Policy!ReadPrepared(found, ours) <=> theirs = ours /\ ~died
  BY <1>6 DEF Policy!ReadPrepared
<1>11. template = IF theirs = ours /\ ~died THEN Policy!Template(ours, p.root, publication)
                 ELSE None
  <2>1. template = IF publication = plan.publication /\ Policy!ReadPrepared(found, ours)
                   THEN Policy!Template(found.copy, p.root, plan.publication) ELSE None
    BY <1>2, <1>3, <1>4, Zenon DEF Policy!Relocatable
  <2>2. QED
    BY <1>6, <1>9, <1>10, <2>1
<1>12. PICK whole : whole = Policy!Relocated(ours, p.root)
  OBVIOUS
<1>13. Policy!Template(ours, p.root, publication) = whole /\ whole # None
  BY <1>3, <1>4, <1>12, TemplateIs
<1>14. Policy!Materialized(whole, root) = Policy!Intended(p, root)
  BY <1>3, <1>4, <1>12, MaterializedIs
<1>15. /\ template # None
            <=> /\ Policy!WriteArtifact(found, Policy!PublicationOf(p).configSha256, FALSE) # None
                /\ ~died
       /\ template # None => Policy!Materialized(template, root) = Policy!Intended(p, root)
  BY <1>3, <1>4, <1>8, <1>11, <1>13, <1>14
<1>16. QED
  BY <1>1, <1>2, <1>15, Zenon DEF Leads

\* What holds of 0 and of the successor of each number it holds of, up to N, holds up to N.
LEMMA Ascending ==
  ASSUME NEW N \in Nat, NEW S, 0 \in S, \A n \in 1 .. N : n - 1 \in S => n \in S
  PROVE  0 .. N \subseteq S
<1> DEFINE missing == {n \in 0 .. N : n \notin S}
<1>1. SUFFICES ASSUME missing # {} PROVE FALSE
  OBVIOUS
<1>2. missing \subseteq Nat
  OBVIOUS
<1> HIDE DEF missing
<1>3. PICK n \in missing : \A m \in missing : ~(<<m, n>> \in OpToRel(<, Nat))
  BY <1>1, <1>2, NatLessThanWellFounded, WFMin
<1> USE DEF missing
<1>4. n \in 1 .. N
  OBVIOUS
<1>5. <<n - 1, n>> \in OpToRel(<, Nat)
  BY <1>4 DEF OpToRel
<1> HIDE DEF missing
<1>6. n - 1 \notin missing
  BY <1>3, <1>5
<1> USE DEF missing
<1>7. n - 1 \in S
  BY <1>4, <1>6
<1>8. QED
  BY <1>4, <1>7

-----------------------------------------------------------------------------
\* The instance of the community module has the Range of this module.
LEMMA RangesAre ==
  ASSUME NEW f
  PROVE  Policy!Range(f) = Range(f)
BY DEF Policy!Range, Range

\* A path begins with the segments of its prefixes.
LEMMA PrefixIs ==
  ASSUME NEW A, NEW s \in Seq(A), NEW t \in Seq(A), Policy!IsStrictPrefix(s, t),
         NEW i \in 1 .. Len(s)
  PROVE  s[i] = t[i]
<1>1. Len(s) \in Nat /\ Len(t) \in Nat /\ Len(s) <= Len(t)
      /\ SubSeq(s, 1, Len(s)) = SubSeq(t, 1, Len(s))
  BY DEF Policy!IsStrictPrefix, Policy!IsPrefix
<1>2. /\ \A j \in 1 .. Len(s) : s[j] \in A
      /\ \A j \in 1 .. Len(s) : t[j] \in A
  BY <1>1
<1>3. /\ \A j \in 1 .. Len(s) - 1 + 1 : SubSeq(s, 1, Len(s))[j] = s[1 + j - 1]
      /\ \A j \in 1 .. Len(s) - 1 + 1 : SubSeq(t, 1, Len(s))[j] = t[1 + j - 1]
  BY <1>1, <1>2, SubSeqProperties
<1>4. i \in 1 .. Len(s) - 1 + 1 /\ 1 + i - 1 = i
  BY <1>1
<1>5. QED
  BY <1>1, <1>3, <1>4

\* The names of a request are plain, so no path of its plan is forbidden.
LEMMA PathIsSafe ==
  ASSUME NEW path, path.at \in Seq(Range(path.at)), Len(path.at) > 2, path.ext # "none",
         \A name \in Range(path.at) : PlainName(name),
         <<Policy!Last(path.at), path.ext>> \notin Policy!ForbiddenNames
  PROVE  /\ Policy!SafeRelativePath(path) /\ ~Policy!ForbiddenConfig(path)
         /\ path \notin Policy!Dependencies
<1>1. PICK at0 : at0 = path.at
  OBVIOUS
<1>2. at0 \in Seq(Range(at0)) /\ Len(at0) \in Nat /\ Len(at0) > 2
  BY <1>1
<1>3. \A i \in 1 .. Len(at0) : PlainName(at0[i])
  BY <1>1, <1>2 DEF Range
<1>4. path \notin Policy!Dependencies
  <2>1. \A dependency \in Policy!Dependencies : Len(dependency.at) = 1
    BY DEF Policy!Dependencies
  <2>2. ASSUME path \in Policy!Dependencies PROVE FALSE
    <3>1. Len(path.at) = 1
      BY <2>1, <2>2
    <3>2. QED
      BY <1>1, <1>2, <3>1
  <2>3. QED
    BY <2>2
<1>5. at0 # <<>> /\ ".." \notin Range(at0)
  BY <1>1, <1>2 DEF PlainName
<1>6. \A name \in Policy!Range(Policy!Front(at0)) : PlainName(name)
  <2>1. \A j \in 1 .. Len(at0) - 1 : at0[j] \in Range(at0)
    BY <1>2 DEF Range
  <2>2. /\ Len(SubSeq(at0, 1, Len(at0) - 1)) = Len(at0) - 1 - 1 + 1
        /\ \A j \in 1 .. Len(at0) - 1 - 1 + 1 : SubSeq(at0, 1, Len(at0) - 1)[j] = at0[1 + j - 1]
        /\ SubSeq(at0, 1, Len(at0) - 1) \in Seq(Range(at0))
    <3>1. 1 \in Int /\ Len(at0) - 1 \in Int /\ 1 <= Len(at0) - 1
      BY <1>2
    <3>2. QED
      BY <2>1, <3>1, SubSeqProperties
  <2>3. PICK front : front = SubSeq(at0, 1, Len(at0) - 1)
    OBVIOUS
  <2>4. DOMAIN front = 1 .. Len(at0) - 1
    BY <1>2, <2>2, <2>3
  <2>5. \A j \in 1 .. Len(at0) - 1 : front[j] = at0[j]
    BY <1>2, <2>2, <2>3
  <2>6. \A j \in DOMAIN front : PlainName(front[j])
    BY <1>2, <1>3, <2>4, <2>5
  <2>7. QED
    BY <2>3, <2>6 DEF Policy!Range, Policy!Front
<1>7. PlainName(Policy!Last(at0))
  BY <1>2, <1>3 DEF Policy!Last
<1>8. ~Policy!ForbiddenConfig(path)
  <2>1. ".env.local" \in Policy!ForbiddenSegments
    BY DEF Policy!ForbiddenSegments
  <2>2. QED
    BY <1>1, <1>6, <1>7, <2>1 DEF Policy!ForbiddenConfig, PlainName
<1>9. Policy!SafeRelativePath(path)
  BY <1>1, <1>5, RangesAre DEF Policy!SafeRelativePath
<1>10. QED
  BY <1>4, <1>8, <1>9

\* No page and no stylesheet is a configuration file by its name.
LEMMA OtherNames ==
  ASSUME NEW name
  PROVE  /\ <<name, ".astro">> \notin Policy!ForbiddenNames
         /\ <<name, ".css">> \notin Policy!ForbiddenNames
BY DEF Policy!ForbiddenNames

\* The directories of the site are no forbidden segments.
LEMMA SitePlain ==
  /\ PlainName("src") /\ PlainName("pages") /\ PlainName("index") /\ PlainName("content")
  /\ PlainName("styles") /\ PlainName("generated")
BY DEF PlainName, Policy!ForbiddenSegments

\* The three files of an output that follows the plan.
OwnFile(path, plan, ext) ==
  /\ path.at \in Seq(Range(path.at)) /\ Len(path.at) > 2 /\ path.ext = ext
  /\ \A name \in Range(path.at) : PlainName(name)
  /\ path.at[1] = "src" /\ path.at[2] \in {"pages", "content", "styles"}
  /\ path # None

\* The planned paths are plain ones, each in its own place.
LEMMA FilesAre ==
  ASSUME NEW p \in Policy!Prepared, NEW plan \in Policy!PlansOf(p), NEW paths,
         paths = Policy!Expected(plan)
  PROVE  /\ OwnFile(paths.route, plan, ".astro")
         /\ OwnFile(paths.content, plan, ".json")
         /\ Policy!Last(paths.content.at) = plan.changeId
         /\ OwnFile(paths.stylesheet, plan, ".css")
         /\ {paths.route, paths.content, paths.stylesheet} \subseteq Policy!Planned(plan)
         /\ paths.components.at = <<"src", "components", "generated", plan.changeId>>
         /\ paths.assets.at = <<"public", "generated", plan.changeId>>
<1>1. PICK r \in Requests : plan.changeId = r.changeId /\ plan.target = r.target
  BY PlanIs
<1>2. PICK id : id = plan.changeId
  OBVIOUS
<1>3. PICK target : target = plan.target
  OBVIOUS
<1>4. PlainName(id) /\ target \in Seq(Range(target)) /\ \A name \in Range(target) : PlainName(name)
  BY <1>1, <1>2, <1>3, RequestsArePlain
<1>5. paths = Policy!OutputPaths(id, target)
  BY <1>2, <1>3 DEF Policy!Expected
<1>6. PICK place : place = IF target = <<>> THEN <<"index">> ELSE target
  OBVIOUS
<1>7. paths = [route |-> [at |-> <<"src", "pages">> \o place, ext |-> ".astro"],
               components |-> [at |-> <<"src", "components", "generated", id>>, ext |-> "none"],
               content |-> [at |-> <<"src", "content", "generated", id>>, ext |-> ".json"],
               stylesheet |-> [at |-> <<"src", "styles", "generated", id>>, ext |-> ".css"],
               assets |-> [at |-> <<"public", "generated", id>>, ext |-> "none"]]
  BY <1>5, <1>6, Zenon DEF Policy!OutputPaths
<1>8. /\ paths.route \in Policy!Range(paths) /\ paths.content \in Policy!Range(paths)
      /\ paths.stylesheet \in Policy!Range(paths) /\ Policy!Range(paths) = Policy!Planned(plan)
  <2>1. DOMAIN paths = {"route", "components", "content", "stylesheet", "assets"}
    BY <1>7
  <2>2. Policy!Planned(plan) = {paths[f] : f \in DOMAIN paths}
    BY PlanIs
  <2>3. QED
    BY <2>1, <2>2 DEF Policy!Range
<1>9. None \notin Policy!Range(paths)
  BY <1>1, <1>2, <1>3, <1>5, NoneIsNothing, RangesAre
<1>10. ASSUME NEW kind \in {"content", "styles"}, NEW file,
              file.at = <<"src", kind, "generated", id>>
       PROVE  /\ file.at \in Seq(Range(file.at)) /\ Len(file.at) = 4
              /\ \A name \in Range(file.at) : PlainName(name)
              /\ file.at[1] = "src" /\ file.at[2] = kind /\ Policy!Last(file.at) = id
  <2>1. PICK at0 : at0 = <<"src", kind, "generated", id>>
    OBVIOUS
  <2>2. /\ Len(at0) = 4 /\ at0[1] = "src" /\ at0[2] = kind /\ at0[3] = "generated" /\ at0[4] = id
        /\ DOMAIN at0 = 1 .. 4
    BY <2>1
  <2>3. \A i \in 1 .. 4 : PlainName(at0[i])
    BY <1>4, <2>2, SitePlain
  <2>4. at0 \in Seq(Range(at0))
    BY <2>1, <2>2 DEF Range
  <2>5. QED
    BY <1>10, <2>1, <2>2, <2>3, <2>4 DEF Range, Policy!Last
<1>11. /\ OwnFile(paths.content, plan, ".json") /\ OwnFile(paths.stylesheet, plan, ".css")
       /\ Policy!Last(paths.content.at) = id
  <2>1. /\ paths.content.at = <<"src", "content", "generated", id>> /\ paths.content.ext = ".json"
        /\ paths.stylesheet.at = <<"src", "styles", "generated", id>>
        /\ paths.stylesheet.ext = ".css"
    BY <1>7
  <2>2. paths.content # None /\ paths.stylesheet # None
    BY <1>8, <1>9
  <2>3. OwnFile(paths.content, plan, ".json") /\ Policy!Last(paths.content.at) = id
    <3>1. PICK file : file = paths.content
      OBVIOUS
    <3>2. /\ file.at \in Seq(Range(file.at)) /\ Len(file.at) = 4
          /\ \A name \in Range(file.at) : PlainName(name)
          /\ file.at[1] = "src" /\ file.at[2] = "content" /\ Policy!Last(file.at) = id
      BY <1>10, <2>1, <3>1
    <3>3. OwnFile(file, plan, ".json")
      BY <2>1, <2>2, <3>1, <3>2 DEF OwnFile
    <3>4. QED
      BY <3>1, <3>2, <3>3
  <2>4. OwnFile(paths.stylesheet, plan, ".css")
    <3>1. PICK file : file = paths.stylesheet
      OBVIOUS
    <3>2. /\ file.at \in Seq(Range(file.at)) /\ Len(file.at) = 4
          /\ \A name \in Range(file.at) : PlainName(name)
          /\ file.at[1] = "src" /\ file.at[2] = "styles"
      BY <1>10, <2>1, <3>1
    <3>3. QED
      BY <2>1, <2>2, <3>1, <3>2 DEF OwnFile
  <2>5. QED
    BY <2>3, <2>4
<1>12. OwnFile(paths.route, plan, ".astro")
  <2>1. PICK A : A = {"src", "pages", "index"} \cup Range(target)
    OBVIOUS
  <2>2. /\ place \in Seq(A) /\ Len(place) \in Nat /\ Len(place) > 0 /\ <<"src", "pages">> \in Seq(A)
    <3>1. CASE target = <<>>
      BY <1>6, <2>1, <3>1
    <3>2. CASE target # <<>>
      <4>1. target \in Seq(A)
        BY <1>4, <2>1
      <4>2. QED
        BY <1>6, <2>1, <3>2, <4>1
    <3>3. QED
      BY <3>1, <3>2
  <2>3. PICK at0 : at0 = <<"src", "pages">> \o place
    OBVIOUS
  <2>4. /\ at0 \in Seq(A) /\ Len(at0) = 2 + Len(place)
        /\ at0[1] = "src" /\ at0[2] = "pages"
    BY <2>2, <2>3
  <2>5. at0 \in Seq(Range(at0)) /\ Range(at0) \subseteq A
    BY <2>4 DEF Range
  <2>6. \A name \in A : PlainName(name)
    BY <1>4, <2>1, SitePlain
  <2>7. paths.route.at = at0 /\ paths.route.ext = ".astro"
    BY <1>7, <2>3
  <2>8. QED
    BY <1>8, <1>9, <2>2, <2>4, <2>5, <2>6, <2>7 DEF OwnFile
<1>13. QED
  BY <1>2, <1>7, <1>8, <1>11, <1>12

\* Each of them may be there, and is not below one of the planned directories.
LEMMA FileIsAllowed ==
  ASSUME NEW p \in Policy!Prepared, NEW plan \in Policy!PlansOf(p), NEW path, NEW ext,
         OwnFile(path, plan, ext), path \in Policy!Planned(plan), ext # "none",
         <<Policy!Last(path.at), ext>> \notin Policy!ForbiddenNames
  PROVE  /\ Policy!OutputPathAllowed(path, plan)
         /\ ~Policy!IsDescendant(Policy!Expected(plan).components, path)
         /\ ~Policy!IsDescendant(Policy!Expected(plan).assets, path)
         /\ path \notin Policy!Dependencies
<1>1. /\ Policy!SafeRelativePath(path) /\ ~Policy!ForbiddenConfig(path)
      /\ path \notin Policy!Dependencies
  BY PathIsSafe DEF OwnFile
<1>2. Policy!OutputPathAllowed(path, plan)
  BY <1>1, Zenon DEF Policy!OutputPathAllowed
<1>3. PICK id : id = plan.changeId
  OBVIOUS
<1>4. /\ Policy!Expected(plan).components.at = <<"src", "components", "generated", id>>
      /\ Policy!Expected(plan).assets.at = <<"public", "generated", id>>
  BY <1>3, FilesAre
<1>5. PICK A : A = Range(path.at) \cup {"src", "components", "public", "generated", id}
  OBVIOUS
<1>6. path.at \in Seq(A) /\ path.at[1] = "src" /\ path.at[2] # "components"
  BY <1>5 DEF OwnFile
<1>7. ~Policy!IsStrictPrefix(<<"src", "components", "generated", id>>, path.at)
  <2>1. <<"src", "components", "generated", id>> \in Seq(A)
    BY <1>5
  <2>2. /\ 2 \in 1 .. Len(<<"src", "components", "generated", id>>)
        /\ <<"src", "components", "generated", id>>[2] = "components"
    OBVIOUS
  <2>3. QED
    BY <1>6, <2>1, <2>2, PrefixIs
<1>8. ~Policy!IsStrictPrefix(<<"public", "generated", id>>, path.at)
  <2>1. <<"public", "generated", id>> \in Seq(A)
    BY <1>5
  <2>2. /\ 1 \in 1 .. Len(<<"public", "generated", id>>)
        /\ <<"public", "generated", id>>[1] = "public"
    OBVIOUS
  <2>3. QED
    BY <1>6, <2>1, <2>2, PrefixIs
<1>9. QED
  BY <1>1, <1>2, <1>4, <1>7, <1>8 DEF Policy!IsDescendant

-----------------------------------------------------------------------------
\* The nodes of a page, as the levels below its roots.
LEMMA NodesByLevel ==
  ASSUME NEW page
  PROVE  \E level : /\ Policy!Nodes(page) = UNION {level[n] : n \in 0 .. Depth}
                    /\ level[0] = Policy!Range(page.roots)
                    /\ \A n \in 1 .. Depth : level[n] = Policy!Below(level[n - 1])
<1> DEFINE first == Policy!Range(page.roots)
           Defined(f, n) == f = [m \in 0 .. n |-> IF m = 0 THEN first ELSE Policy!Below(f[m - 1])]
           S == {n \in 0 .. Depth : \E f : Defined(f, n)}
<1>1. Depth \in Nat
  BY BoundsAre
<1>2. 0 \in S
  <2> DEFINE g == [m \in 0 .. 0 |-> first]
  <2>1. Defined(g, 0)
    OBVIOUS
  <2> HIDE DEF g
  <2>2. \E f : Defined(f, 0)
    BY <2>1
  <2>3. QED
    BY <1>1, <2>2
<1>3. ASSUME NEW n \in 1 .. Depth, n - 1 \in S PROVE n \in S
  <2>1. PICK f : Defined(f, n - 1)
    BY <1>3
  <2> DEFINE g == [m \in 0 .. n |-> IF m = n THEN Policy!Below(f[n - 1]) ELSE f[m]]
  <2>2. \A m \in 0 .. n : g[m] = IF m = 0 THEN first ELSE Policy!Below(g[m - 1])
    BY <1>1, <2>1
  <2>3. Defined(g, n)
    BY <2>2
  <2> HIDE DEF g, Defined
  <2>4. \E h : Defined(h, n)
    BY <2>3
  <2>5. QED
    BY <1>1, <2>4
<1>4. Depth \in S
  <2> HIDE DEF S
  <2>1. \A n \in 1 .. Depth : n - 1 \in S => n \in S
    BY <1>3
  <2>2. 0 .. Depth \subseteq S
    BY <1>1, <1>2, <2>1, Ascending
  <2>3. QED
    BY <1>1, <2>2
<1>5. PICK f : Defined(f, Depth)
  BY <1>4
<1> DEFINE level == CHOOSE g : Defined(g, Depth)
<1>6. Defined(level, Depth)
  BY <1>5
<1>7. Policy!Nodes(page) = UNION {level[n] : n \in 0 .. Depth}
  BY DEF Policy!Nodes
<1> HIDE DEF level
<1>8. level[0] = first
  BY <1>1, <1>6
<1>9. \A n \in 1 .. Depth : level[n] = Policy!Below(level[n - 1])
  BY <1>1, <1>6
<1>10. QED
  BY <1>7, <1>8, <1>9

\* A set with the roots and with the children of its nodes has all nodes.
LEMMA NodesWithin ==
  ASSUME NEW page, NEW H, Policy!Range(page.roots) \subseteq H,
         \A node \in H : Policy!Range(node.children) \subseteq H
  PROVE  Policy!Nodes(page) \subseteq H
<1>1. PICK level : /\ Policy!Nodes(page) = UNION {level[n] : n \in 0 .. Depth}
                   /\ level[0] = Policy!Range(page.roots)
                   /\ \A n \in 1 .. Depth : level[n] = Policy!Below(level[n - 1])
  BY NodesByLevel
<1> DEFINE S == {n \in 0 .. Depth : level[n] \subseteq H}
<1>2. Depth \in Nat
  BY BoundsAre
<1>3. 0 \in S
  BY <1>1, <1>2
<1>4. ASSUME NEW n \in 1 .. Depth, n - 1 \in S PROVE n \in S
  <2>1. level[n - 1] \subseteq H
    BY <1>4
  <2>2. level[n] \subseteq H
    BY <1>1, <2>1 DEF Policy!Below
  <2>3. QED
    BY <1>2, <2>2
<1>5. 0 .. Depth \subseteq S
  <2> HIDE DEF S
  <2>1. QED
    BY <1>2, <1>3, <1>4, Ascending
<1>6. QED
  BY <1>1, <1>5

\* What validateTags asks of one node.
ValidNode(node, page, plan) ==
  /\ node.type # "expression"
  /\ \A attribute \in Policy!Range(node.attributes) : Policy!ValidAttribute(attribute, node)
  /\ node.type = "element" => node.name \in Policy!ApprovedElements
  /\ node.type = "component" => Policy!ValidComponent(node, page, plan)

\* What short sequences hold.
LEMMA RangesOfTuples ==
  /\ Policy!Range(<<>>) = {}
  /\ \A a : Policy!Range(<<a>>) = {a}
  /\ \A a, b : Policy!Range(<<a, b>>) = {a, b}
  /\ \A a, b, c : Policy!Range(<<a, b, c>>) = {a, b, c}
<1>1. Policy!Range(<<>>) = {}
  BY DEF Policy!Range
<1>2. ASSUME NEW a PROVE Policy!Range(<<a>>) = {a}
  BY DEF Policy!Range
<1>3. ASSUME NEW a, NEW b PROVE Policy!Range(<<a, b>>) = {a, b}
  BY DEF Policy!Range
<1>4. ASSUME NEW a, NEW b, NEW c PROVE Policy!Range(<<a, b, c>>) = {a, b, c}
  BY DEF Policy!Range
<1>5. QED
  BY <1>1, <1>2, <1>3, <1>4

\* A link to the site or to an address is accepted.
LEMMA AnchorIsValid ==
  ASSUME NEW page, NEW plan, NEW value \in {"/page", "mailto:a@b"}
  PROVE  /\ ValidNode(Policy!Anchor(value), page, plan)
         /\ Policy!Range(Policy!Anchor(value).children) = {}
<1>1. PICK attribute : attribute = Policy!Attribute("href", "quoted", value)
  OBVIOUS
<1>2. PICK node : node = Policy!Anchor(value)
  OBVIOUS
<1>3. /\ attribute.name = "href" /\ attribute.kind = "quoted" /\ attribute.value = value
  BY <1>1 DEF Policy!Attribute
<1>4. /\ node.type = "element" /\ node.name = "a" /\ node.attributes = <<attribute>>
      /\ node.children = <<>>
  BY <1>1, <1>2 DEF Policy!Anchor, Policy!Node
<1>5. Policy!ValidAttribute(attribute, node)
  BY <1>3, <1>4 DEF Policy!ValidAttribute, Policy!Handlers, Policy!ActiveUrls,
     Policy!ApprovedLinks, Policy!NavigationOnly
<1>6. Policy!Range(node.attributes) = {attribute} /\ Policy!Range(node.children) = {}
  BY <1>4, RangesOfTuples
<1>7. ValidNode(node, page, plan)
  BY <1>4, <1>5, <1>6 DEF ValidNode, Policy!ApprovedElements
<1>8. QED
  BY <1>2, <1>6, <1>7

\* An import as the plan approves it.
LEMMA ImportIs ==
  ASSUME NEW plan, NEW expected, expected \in Policy!Expectations(plan),
         expected.module # None, NEW record,
         record = Policy!Import("local", expected.module, expected.bindings)
  PROVE  /\ Policy!Approved(record, plan) /\ record.specifier.target = expected.module
         /\ record.bindings = expected.bindings
<1>1. /\ record.specifier = [form |-> "local", target |-> expected.module, canonical |-> TRUE]
      /\ record.bindings = expected.bindings /\ record.sideEffect = (expected.bindings = {})
      /\ record.typeOnly = FALSE /\ record.attributes = FALSE
  BY DEF Policy!Import
<1>2. /\ record.specifier.form = "local" /\ record.specifier.target = expected.module
      /\ record.specifier.canonical
  BY <1>1
<1>3. Policy!Local(record.specifier)
  BY <1>2 DEF Policy!Local
<1>4. Policy!ImportMatches(record, expected.bindings)
  BY <1>1, <1>2 DEF Policy!ImportMatches
<1>5. QED
  BY <1>1, <1>2, <1>3, <1>4 DEF Policy!Approved

\* The import of a module under its own name is the expected one.
LEMMA NamedIs ==
  ASSUME NEW plan, NEW name, NEW module, module # None,
         Policy!Default(module, name) \in Policy!Expectations(plan)
  PROVE  /\ Policy!Approved(Policy!Named(name, module), plan)
         /\ Policy!Named(name, module).specifier.target = module
         /\ Policy!Named(name, module).bindings # {}
         /\ \A b \in Policy!Named(name, module).bindings : b.local = name
<1>1. PICK expected : expected = Policy!Default(module, name)
  OBVIOUS
<1>2. PICK record : record = Policy!Named(name, module)
  OBVIOUS
<1>3. /\ expected.module = module
      /\ expected.bindings = Policy!Binding("default", "default", name)
  BY <1>1 DEF Policy!Default, Policy!Binding
<1>4. record = Policy!Import("local", expected.module, expected.bindings)
  BY <1>2, <1>3 DEF Policy!Named
<1>5. /\ Policy!Approved(record, plan) /\ record.specifier.target = module
      /\ record.bindings = Policy!Binding("default", "default", name)
  BY <1>1, <1>3, <1>4, ImportIs
<1>6. /\ Policy!Binding("default", "default", name) # {}
      /\ \A b \in Policy!Binding("default", "default", name) : b.local = name
  BY DEF Policy!Binding
<1>7. QED
  BY <1>2, <1>5, <1>6

Binds(record, name) == \E b \in record.bindings : b.local = name
BindsOnly(page, plan, name, target) ==
  \A r \in page.imports :
    Policy!Approved(r, plan) /\ (Binds(r, name) => r.specifier.target = target)

\* A default import binds its module.
LEMMA BoundIs ==
  ASSUME NEW page, NEW plan, NEW name, NEW target, NEW record \in page.imports,
         record.specifier.target = target, Binds(record, name),
         BindsOnly(page, plan, name, target)
  PROVE  Policy!Bound(page, plan, name) = {target}
BY DEF Policy!Bound, Binds, BindsOnly

\* The element of the block renderer is accepted.
LEMMA BlocksAreValid ==
  ASSUME NEW page, NEW plan, plan.mode = "blocks",
         Policy!Bound(page, plan, "GeneratedBlockPage") = {Policy!Renderer}
  PROVE  /\ ValidNode(Policy!Blocks, page, plan)
         /\ Policy!Range(Policy!Blocks.children) = {}
<1>1. PICK attribute : attribute = Policy!Attribute("page", "shorthand", "none")
  OBVIOUS
<1>2. PICK node : node = Policy!Blocks
  OBVIOUS
<1>3. attribute.name = "page" /\ attribute.kind = "shorthand"
  BY <1>1 DEF Policy!Attribute
<1>4. /\ node.type = "component" /\ node.name = "GeneratedBlockPage"
      /\ node.attributes = <<attribute>> /\ node.children = <<>>
  BY <1>1, <1>2 DEF Policy!Blocks, Policy!Node
<1>5. Policy!ValidAttribute(attribute, node)
  BY <1>3, <1>4 DEF Policy!ValidAttribute, Policy!Handlers, Policy!ActiveUrls
<1>6. Policy!Range(node.attributes) = {attribute} /\ Policy!Range(node.children) = {}
  BY <1>4, RangesOfTuples
<1>7. attribute.name \notin Policy!Hydration /\ node.name \notin DOMAIN Policy!Components
  BY <1>3, <1>4 DEF Policy!Hydration, Policy!Components
<1>8. Policy!ValidComponent(node, page, plan)
  BY <1>4, <1>6, <1>7 DEF Policy!ValidComponent
<1>9. QED
  BY <1>2, <1>4, <1>5, <1>6, <1>8 DEF ValidNode

\* A component of the site with one attribute that it has.
LEMMA ComponentIsValid ==
  ASSUME NEW page, NEW plan, NEW node, NEW attribute,
         node.type = "component", node.attributes = <<attribute>>,
         node.name \in {"SiteLayout", "PageHero"}, node.name \in plan.components,
         Policy!Bound(page, plan, node.name) = {Policy!Components[node.name]},
         attribute.name \in {"page", "title"}, attribute.kind = "quoted",
         attribute.name \in DOMAIN Policy!Props[node.name],
         attribute.value \in Policy!Props[node.name][attribute.name]
  PROVE  ValidNode(node, page, plan)
<1>1. Policy!ValidAttribute(attribute, node)
  BY DEF Policy!ValidAttribute, Policy!Handlers, Policy!ActiveUrls
<1>2. Policy!Range(node.attributes) = {attribute}
  BY RangesOfTuples
<1>3. Policy!ValidProps(node)
  <2>1. DOMAIN node.attributes = 1 .. 1
    OBVIOUS
  <2>2. \A i, j \in DOMAIN node.attributes : i = j
    BY <2>1
  <2>3. QED
    BY <1>2, <2>2 DEF Policy!ValidProps
<1>4. attribute.name \notin Policy!Hydration /\ node.name \in DOMAIN Policy!Components
  BY DEF Policy!Hydration, Policy!Components
<1>5. Policy!ValidComponent(node, page, plan)
  BY <1>2, <1>3, <1>4 DEF Policy!ValidComponent
<1>6. QED
  BY <1>1, <1>2, <1>5 DEF ValidNode

\* None is no module of the site.
LEMMA ModulesAre ==
  /\ Policy!Renderer # None /\ Policy!Components["SiteLayout"] # None
  /\ Policy!Components["PageHero"] # None
<1>1. None \notin Policy!Range(Policy!Components) /\ None # Policy!Renderer
  BY NoneIsNothing, RangesAre
<1>2. /\ Policy!Components["SiteLayout"] \in Policy!Range(Policy!Components)
      /\ Policy!Components["PageHero"] \in Policy!Range(Policy!Components)
  <2>1. "SiteLayout" \in DOMAIN Policy!Components /\ "PageHero" \in DOMAIN Policy!Components
    BY DEF Policy!Components
  <2>2. QED
    BY <2>1 DEF Policy!Range
<1>3. QED
  BY <1>1, <1>2

\* The page made of blocks.
LEMMA BlocksPageIsValid ==
  ASSUME NEW p \in Policy!Prepared, NEW plan \in Policy!PlansOf(p), plan.mode = "blocks",
         NEW page, page = Policy!HonestPage(plan)
  PROVE  Policy!ValidPage(page, Policy!Expected(plan).route, plan) /\ ~page.secret
<1>1. PICK content : content = Policy!Expected(plan).content
  OBVIOUS
<1>2. PICK first : first = Policy!Named("GeneratedBlockPage", Policy!Renderer)
  OBVIOUS
<1>3. PICK second : second = Policy!Named("page", content)
  OBVIOUS
<1>4. /\ page.imports = {first, second} /\ page.roots = <<Policy!Blocks>> /\ page.parses
      /\ ~page.code /\ ~page.secret
  BY <1>1, <1>2, <1>3 DEF Policy!HonestPage, Policy!PageOf
<1>5. /\ Policy!Default(Policy!Renderer, "GeneratedBlockPage") \in Policy!Expectations(plan)
      /\ Policy!Default(content, "page") \in Policy!Expectations(plan)
  BY <1>1 DEF Policy!Expectations
<1>6. content # None
  BY <1>1, FilesAre DEF OwnFile
<1>7. /\ Policy!Approved(first, plan) /\ first.specifier.target = Policy!Renderer
      /\ first.bindings # {} /\ \A b \in first.bindings : b.local = "GeneratedBlockPage"
  BY <1>2, <1>5, ModulesAre, NamedIs
<1>8. /\ Policy!Approved(second, plan) /\ second.specifier.target = content
      /\ \A b \in second.bindings : b.local = "page"
  BY <1>3, <1>5, <1>6, NamedIs
<1>9. Policy!Bound(page, plan, "GeneratedBlockPage") = {Policy!Renderer}
  <2>1. first \in page.imports /\ Binds(first, "GeneratedBlockPage")
    BY <1>4, <1>7 DEF Binds
  <2>2. BindsOnly(page, plan, "GeneratedBlockPage", Policy!Renderer)
    BY <1>4, <1>7, <1>8 DEF Binds, BindsOnly
  <2>3. QED
    BY <1>7, <2>1, <2>2, BoundIs
<1>10. /\ ValidNode(Policy!Blocks, page, plan) /\ Policy!Range(Policy!Blocks.children) = {}
  BY <1>9, BlocksAreValid
<1>11. Policy!ValidTags(page, plan)
  <2>1. Policy!Range(page.roots) = {Policy!Blocks}
    BY <1>4, RangesOfTuples
  <2>2. Policy!Nodes(page) \subseteq {Policy!Blocks}
    BY <1>10, <2>1, NodesWithin
  <2>3. QED
    BY <1>10, <2>2 DEF Policy!ValidTags, ValidNode
<1>12. Policy!ValidImports(page, plan)
  BY <1>4, <1>7, <1>8 DEF Policy!ValidImports
<1>13. Policy!RequiredImports(page, plan)
  BY <1>1, <1>4, <1>7, <1>8 DEF Policy!RequiredImports
<1>14. Policy!ModeStructure(page, plan)
  <2>1. /\ Len(page.roots) = 1 /\ page.roots[1] = Policy!Blocks
    BY <1>4
  <2>2. /\ Policy!Blocks.type = "component" /\ Policy!Blocks.name = "GeneratedBlockPage"
        /\ Policy!Blocks.children = <<>>
        /\ Policy!Blocks.attributes
             = <<[name |-> "page", kind |-> "shorthand", value |-> "none"]>>
    BY DEF Policy!Blocks, Policy!Node, Policy!Attribute
  <2>3. QED
    BY <2>1, <2>2 DEF Policy!ModeStructure
<1>15. QED
  BY <1>4, <1>11, <1>12, <1>13, <1>14 DEF Policy!ValidPage

\* The page of the other modes.
LEMMA LaidOutPageIsValid ==
  ASSUME NEW p \in Policy!Prepared, NEW plan \in Policy!PlansOf(p), plan.mode # "blocks",
         NEW page, page = Policy!HonestPage(plan)
  PROVE  Policy!ValidPage(page, Policy!Expected(plan).route, plan) /\ ~page.secret
<1>1. PICK sheet : sheet = Policy!Expected(plan).stylesheet
  OBVIOUS
<1>2. PICK first : first = Policy!Named("SiteLayout", Policy!Components["SiteLayout"])
  OBVIOUS
<1>3. PICK second : second = Policy!Import("local", sheet, {})
  OBVIOUS
<1>4. PICK third : third = Policy!Named("PageHero", Policy!Components["PageHero"])
  OBVIOUS
<1>5. PICK link : link = Policy!Anchor("/page")
  OBVIOUS
<1>6. PICK mail : mail = Policy!Anchor("mailto:a@b")
  OBVIOUS
<1>7. PICK hero : hero = ("PageHero" \in plan.components)
  OBVIOUS
<1>8. PICK children : children = IF hero THEN <<Policy!Hero, link, mail>> ELSE <<link, mail>>
  OBVIOUS
<1>9. PICK root : root = Policy!LaidOut(children)
  OBVIOUS
<1>10. PICK imports : imports = {first, second} \cup IF hero THEN {third} ELSE {}
  OBVIOUS
<1>11. page = Policy!PageOf(imports, <<root>>)
  <2>1. CASE hero
    <3>1. page = Policy!PageOf({first, second} \cup {third},
                               <<Policy!LaidOut(<<Policy!Hero, link, mail>>)>>)
      BY <1>1, <1>2, <1>3, <1>4, <1>5, <1>6, <1>7, <2>1, Zenon DEF Policy!HonestPage
    <3>2. QED
      BY <1>8, <1>9, <1>10, <2>1, <3>1, Zenon
  <2>2. CASE ~hero
    <3>1. page = Policy!PageOf({first, second}, <<Policy!LaidOut(<<link, mail>>)>>)
      BY <1>1, <1>2, <1>3, <1>4, <1>5, <1>6, <1>7, <2>2, Zenon DEF Policy!HonestPage
    <3>2. imports = {first, second}
      BY <1>10, <2>2
    <3>3. children = <<link, mail>>
      BY <1>8, <2>2
    <3>4. QED
      BY <1>9, <3>1, <3>2, <3>3, Zenon
  <2>3. QED
    BY <2>1, <2>2
<1>12. /\ page.imports = imports /\ page.roots = <<root>> /\ page.parses /\ ~page.code
       /\ ~page.secret
  BY <1>11 DEF Policy!PageOf
<1>13. "SiteLayout" \in plan.components
  BY PlanIs
<1>14. PICK expected : expected = [module |-> sheet, bindings |-> {}]
  OBVIOUS
<1>15. /\ expected \in Policy!Expectations(plan)
       /\ Policy!Default(Policy!Components["SiteLayout"], "SiteLayout")
            \in Policy!Expectations(plan)
       /\ hero => Policy!Default(Policy!Components["PageHero"], "PageHero")
                    \in Policy!Expectations(plan)
  BY <1>1, <1>7, <1>13, <1>14 DEF Policy!Expectations
<1>16. sheet # None
  BY <1>1, FilesAre DEF OwnFile
<1>17. /\ Policy!Approved(first, plan)
       /\ first.specifier.target = Policy!Components["SiteLayout"]
       /\ first.bindings # {} /\ \A b \in first.bindings : b.local = "SiteLayout"
  BY <1>2, <1>15, ModulesAre, NamedIs
<1>18. /\ Policy!Approved(second, plan) /\ second.specifier.target = sheet
       /\ second.bindings = {}
  <2>1. expected.module = sheet /\ expected.bindings = {}
    BY <1>14
  <2>2. second = Policy!Import("local", expected.module, expected.bindings)
    BY <1>3, <2>1
  <2>3. QED
    BY <1>15, <1>16, <2>1, <2>2, ImportIs
<1>19. ASSUME hero
       PROVE  /\ Policy!Approved(third, plan)
              /\ third.specifier.target = Policy!Components["PageHero"]
              /\ third.bindings # {} /\ \A b \in third.bindings : b.local = "PageHero"
  BY <1>4, <1>15, <1>19, ModulesAre, NamedIs
<1>20. Policy!Bound(page, plan, "SiteLayout") = {Policy!Components["SiteLayout"]}
  <2>1. first \in page.imports /\ Binds(first, "SiteLayout")
    BY <1>10, <1>12, <1>17 DEF Binds
  <2>2. BindsOnly(page, plan, "SiteLayout", Policy!Components["SiteLayout"])
    BY <1>10, <1>12, <1>17, <1>18, <1>19 DEF Binds, BindsOnly
  <2>3. QED
    BY <1>17, <2>1, <2>2, BoundIs
<1>21. ASSUME hero PROVE Policy!Bound(page, plan, "PageHero") = {Policy!Components["PageHero"]}
  <2>1. third \in page.imports /\ Binds(third, "PageHero")
    BY <1>10, <1>12, <1>19, <1>21 DEF Binds
  <2>2. BindsOnly(page, plan, "PageHero", Policy!Components["PageHero"])
    BY <1>10, <1>12, <1>17, <1>18, <1>19, <1>21 DEF Binds, BindsOnly
  <2>3. QED
    BY <1>19, <1>21, <2>1, <2>2, BoundIs
<1>22. /\ root.type = "component" /\ root.name = "SiteLayout" /\ root.children = children
       /\ ValidNode(root, page, plan)
  <2>1. PICK attribute : attribute = Policy!Attribute("page", "quoted", "blog")
    OBVIOUS
  <2>2. attribute.name = "page" /\ attribute.kind = "quoted" /\ attribute.value = "blog"
    BY <2>1 DEF Policy!Attribute
  <2>3. /\ root.type = "component" /\ root.name = "SiteLayout" /\ root.children = children
        /\ root.attributes = <<attribute>>
    BY <1>9, <2>1 DEF Policy!LaidOut, Policy!Node
  <2>4. "page" \in DOMAIN Policy!Props["SiteLayout"] /\ "blog" \in Policy!Props["SiteLayout"]["page"]
    BY DEF Policy!Props
  <2>5. QED
    BY <1>13, <1>20, <2>2, <2>3, <2>4, ComponentIsValid
<1>23. Policy!Range(Policy!Hero.children) = {} /\ (hero => ValidNode(Policy!Hero, page, plan))
  <2>1. PICK node : node = Policy!Hero
    OBVIOUS
  <2>2. PICK attribute : attribute = Policy!Attribute("title", "quoted", "text")
    OBVIOUS
  <2>3. attribute.name = "title" /\ attribute.kind = "quoted" /\ attribute.value = "text"
    BY <2>2 DEF Policy!Attribute
  <2>4. /\ node.type = "component" /\ node.name = "PageHero" /\ node.children = <<>>
        /\ node.attributes = <<attribute>>
    BY <2>1, <2>2 DEF Policy!Hero, Policy!Title, Policy!Node
  <2>5. "title" \in DOMAIN Policy!Props["PageHero"] /\ "text" \in Policy!Props["PageHero"]["title"]
    BY DEF Policy!Props
  <2>6. hero => ValidNode(node, page, plan)
    BY <1>7, <1>21, <2>3, <2>4, <2>5, ComponentIsValid
  <2>7. QED
    BY <2>1, <2>4, <2>6, RangesOfTuples
<1>24. /\ ValidNode(link, page, plan) /\ Policy!Range(link.children) = {}
       /\ ValidNode(mail, page, plan) /\ Policy!Range(mail.children) = {}
  BY <1>5, <1>6, AnchorIsValid
<1>25. Policy!Range(children) = {link, mail} \cup IF hero THEN {Policy!Hero} ELSE {}
  BY <1>8, RangesOfTuples
<1>26. Policy!ValidTags(page, plan)
  <2>1. PICK H : H = {root, link, mail} \cup IF hero THEN {Policy!Hero} ELSE {}
    OBVIOUS
  <2>2. Policy!Range(page.roots) \subseteq H
    BY <1>12, <2>1, RangesOfTuples
  <2>3. \A node \in H : Policy!Range(node.children) \subseteq H
    BY <1>22, <1>23, <1>24, <1>25, <2>1
  <2>4. Policy!Nodes(page) \subseteq H
    BY <2>2, <2>3, NodesWithin
  <2>5. \A node \in H : ValidNode(node, page, plan)
    BY <1>22, <1>23, <1>24, <2>1
  <2>6. QED
    BY <2>4, <2>5 DEF Policy!ValidTags, ValidNode
<1>27. Policy!ValidImports(page, plan)
  BY <1>10, <1>12, <1>17, <1>18, <1>19 DEF Policy!ValidImports
<1>28. Policy!RequiredImports(page, plan)
  BY <1>1, <1>10, <1>12, <1>17, <1>18 DEF Policy!RequiredImports
<1>29. Policy!ModeStructure(page, plan)
  <2>1. Len(page.roots) = 1 /\ page.roots[1] = root
    BY <1>12
  <2>2. QED
    BY <1>22, <2>1 DEF Policy!ModeStructure
<1>30. QED
  BY <1>12, <1>26, <1>27, <1>28, <1>29 DEF Policy!ValidPage

\* The definition and the stylesheet.
LEMMA DefinitionIsValid ==
  ASSUME NEW plan, NEW page, NEW content,
         content = Policy!Definition(plan, page, FALSE, FALSE, None)
  PROVE  /\ content.kind = "content" /\ ~content.secret
         /\ Policy!CommonContent(content, plan, page)
         /\ plan.mode = "blocks" => Policy!ValidBlocks(content)
<1>1. /\ content.kind = "content" /\ content.secret = FALSE
      /\ content.changeId = plan.changeId /\ content.mode = plan.mode
      /\ content.target = plan.target /\ content.contentSha256 = page
      /\ content.index = FALSE /\ content.private = FALSE /\ content.area = None
      /\ content.blocks = IF plan.mode = "blocks" THEN Policy!HeroBlock ELSE None
  BY DEF Policy!Definition
<1>2. Policy!HeroBlock # None
  BY NoneIsNothing
<1>3. Policy!CommonContent(content, plan, page)
  BY <1>1, <1>2 DEF Policy!CommonContent
<1>4. ASSUME plan.mode = "blocks" PROVE Policy!ValidBlocks(content)
  <2>1. content.blocks = Policy!HeroBlock
    BY <1>1, <1>4
  <2>2. /\ Policy!HeroBlock # {}
        /\ \A block \in Policy!HeroBlock : block.type = "hero" /\ block.href = "/page"
    BY DEF Policy!HeroBlock
  <2>3. "hero" \in Policy!BlockTypes /\ "/page" \in Policy!ApprovedLinks
    BY DEF Policy!BlockTypes, Policy!ApprovedLinks
  <2>4. QED
    BY <2>1, <2>2, <2>3 DEF Policy!ValidBlocks
<1>5. QED
  BY <1>1, <1>3, <1>4

\* A stylesheet with the scope of the change alone is accepted.
LEMMA SheetIsValid ==
  ASSUME NEW plan, NEW sheet, sheet = Policy!Sheet(FALSE, {plan.changeId}),
         plan.mode # "blocks"
  PROVE  /\ sheet.kind = "css" /\ ~sheet.secret
         /\ Policy!ValidCss(sheet, Policy!Expected(plan).stylesheet, plan)
BY DEF Policy!Sheet, Policy!ValidCss

\* What an agent leaves that follows its plan is accepted (validateOutputPolicy).
LEMMA HonestIsAccepted ==
  ASSUME NEW p \in Policy!Prepared, NEW plan \in Policy!PlansOf(p),
         <<plan.changeId, ".json">> \notin Policy!ForbiddenNames
  PROVE  Policy!OutputAccepted(Policy!HonestOutput(plan), plan)
<1>1. PICK paths : paths = Policy!Expected(plan)
  OBVIOUS
<1>2. PICK files : files = Policy!HonestFiles(plan)
  OBVIOUS
<1>3. PICK page : page = Policy!HonestPage(plan)
  OBVIOUS
<1>4. PICK content : content = Policy!Definition(plan, page, FALSE, FALSE, None)
  OBVIOUS
<1>5. PICK sheet : sheet = Policy!Sheet(FALSE, {plan.changeId})
  OBVIOUS
<1>6. PICK listed : listed = Policy!Range(files)
  OBVIOUS
<1>7. PICK output : output = Policy!HonestOutput(plan)
  OBVIOUS
<1>8. /\ OwnFile(paths.route, plan, ".astro") /\ OwnFile(paths.content, plan, ".json")
      /\ OwnFile(paths.stylesheet, plan, ".css")
      /\ paths.route.ext = ".astro" /\ paths.content.ext = ".json"
      /\ paths.stylesheet.ext = ".css"
      /\ Policy!Last(paths.content.at) = plan.changeId
      /\ {paths.route, paths.content, paths.stylesheet} \subseteq Policy!Planned(plan)
  BY <1>1, FilesAre DEF OwnFile
<1>9. /\ paths.route # paths.content /\ paths.route # paths.stylesheet
      /\ paths.content # paths.stylesheet
  BY <1>8
<1>10. /\ files = IF plan.mode = "blocks" THEN <<paths.route, paths.content>>
                  ELSE <<paths.route, paths.content, paths.stylesheet>>
  BY <1>1, <1>2 DEF Policy!HonestFiles
<1>11. /\ Policy!IsInjective(files)
       /\ listed = {paths.route, paths.content}
                     \cup IF plan.mode = "blocks" THEN {} ELSE {paths.stylesheet}
  <2>1. CASE plan.mode = "blocks"
    <3>1. files = <<paths.route, paths.content>>
      BY <1>10, <2>1
    <3>2. DOMAIN files = {1, 2} /\ files[1] = paths.route /\ files[2] = paths.content
      BY <3>1
    <3>3. Policy!IsInjective(files)
      BY <1>9, <3>2 DEF Policy!IsInjective
    <3>4. listed = {paths.route, paths.content}
      BY <1>6, <3>1, RangesOfTuples
    <3>5. QED
      BY <2>1, <3>3, <3>4
  <2>2. CASE plan.mode # "blocks"
    <3>1. files = <<paths.route, paths.content, paths.stylesheet>>
      BY <1>10, <2>2
    <3>2. /\ DOMAIN files = {1, 2, 3} /\ files[1] = paths.route /\ files[2] = paths.content
          /\ files[3] = paths.stylesheet
      BY <3>1
    <3>3. Policy!IsInjective(files)
      BY <1>9, <3>2 DEF Policy!IsInjective
    <3>4. listed = {paths.route, paths.content, paths.stylesheet}
      BY <1>6, <3>1, RangesOfTuples
    <3>5. QED
      BY <2>2, <3>3, <3>4
  <2>3. QED
    BY <2>1, <2>2
<1>12. PICK bytes : bytes = Policy!HonestBytes(plan)
  OBVIOUS
<1>13. /\ DOMAIN bytes = listed /\ bytes[paths.route] = page /\ bytes[paths.content] = content
       /\ paths.stylesheet \in listed => bytes[paths.stylesheet] = sheet
  <2>1. bytes = [path \in listed |-> IF path = paths.route THEN page
                                     ELSE IF path = paths.content THEN content ELSE sheet]
    BY <1>1, <1>2, <1>3, <1>4, <1>5, <1>6, <1>12, Zenon DEF Policy!HonestBytes
  <2>2. QED
    BY <1>9, <1>11, <2>1
<1>14. /\ output.files = files /\ output.sha256 = bytes /\ DOMAIN output.tree = listed
       /\ \A path \in listed : /\ output.tree[path].regular
                               /\ output.tree[path].bytes = bytes[path]
  <2>1. output = Policy!Listed(files, bytes)
    BY <1>2, <1>7, <1>12 DEF Policy!HonestOutput
  <2>2. /\ output.files = files /\ output.sha256 = bytes
        /\ output.tree = [path \in DOMAIN bytes |-> [regular |-> TRUE, bytes |-> bytes[path]]]
    BY <2>1 DEF Policy!Listed
  <2>3. QED
    BY <1>13, <2>2
<1>15. Policy!ExactInventory(output)
  BY <1>6, <1>11, <1>13, <1>14 DEF Policy!ExactInventory
<1>16. \A path \in listed : Policy!ReadInventoryFile(output, path)
  BY <1>14 DEF Policy!ReadInventoryFile
<1>17. /\ Policy!OutputPathAllowed(paths.route, plan)
       /\ Policy!ValidFile(page, paths.route, plan)
  <2>1. /\ Policy!OutputPathAllowed(paths.route, plan)
        /\ ~Policy!IsDescendant(Policy!Expected(plan).components, paths.route)
        /\ ~Policy!IsDescendant(Policy!Expected(plan).assets, paths.route)
        /\ paths.route \notin Policy!Dependencies
    BY <1>8, OtherNames, FileIsAllowed
  <2>2. ~page.secret /\ page.kind = "page"
    <3>1. page.kind = "page"
      <4>1. CASE plan.mode = "blocks"
        BY <1>3, <4>1 DEF Policy!HonestPage, Policy!PageOf
      <4>2. CASE plan.mode # "blocks"
        BY <1>3, <4>2 DEF Policy!HonestPage, Policy!PageOf
      <4>3. QED
        BY <4>1, <4>2
    <3>2. QED
      BY <1>3, <3>1, BlocksPageIsValid, LaidOutPageIsValid
  <2>3. Policy!ValidPage(page, paths.route, plan)
    BY <1>1, <1>3, BlocksPageIsValid, LaidOutPageIsValid
  <2>4. QED
    BY <1>8, <2>1, <2>2, <2>3 DEF Policy!ValidFile, Policy!Refused
<1>18. content.kind = "content" /\ ~content.secret /\ Policy!CommonContent(content, plan, page)
       /\ (plan.mode = "blocks" => Policy!ValidBlocks(content))
  BY <1>4, DefinitionIsValid
<1>19. /\ Policy!OutputPathAllowed(paths.content, plan)
       /\ Policy!ValidFile(content, paths.content, plan)
  <2>1. /\ Policy!OutputPathAllowed(paths.content, plan)
        /\ ~Policy!IsDescendant(Policy!Expected(plan).components, paths.content)
        /\ ~Policy!IsDescendant(Policy!Expected(plan).assets, paths.content)
        /\ paths.content \notin Policy!Dependencies
    BY <1>8, FileIsAllowed
  <2>2. QED
    BY <1>8, <1>18, <2>1 DEF Policy!ValidFile, Policy!Refused
<1>20. ASSUME plan.mode # "blocks"
       PROVE  /\ Policy!OutputPathAllowed(paths.stylesheet, plan)
              /\ Policy!ValidFile(sheet, paths.stylesheet, plan)
  <2>1. /\ Policy!OutputPathAllowed(paths.stylesheet, plan)
        /\ ~Policy!IsDescendant(Policy!Expected(plan).components, paths.stylesheet)
        /\ ~Policy!IsDescendant(Policy!Expected(plan).assets, paths.stylesheet)
        /\ paths.stylesheet \notin Policy!Dependencies
    BY <1>8, OtherNames, FileIsAllowed
  <2>2. /\ sheet.kind = "css" /\ ~sheet.secret
        /\ Policy!ValidCss(sheet, paths.stylesheet, plan)
    BY <1>1, <1>5, <1>20, SheetIsValid
  <2>3. QED
    BY <1>8, <2>1, <2>2 DEF Policy!ValidFile, Policy!Refused
<1>21. \A path \in DOMAIN output.sha256 :
         /\ Policy!OutputPathAllowed(path, plan)
         /\ Policy!ReadInventoryFile(output, path)
         /\ Policy!ValidFile(output.sha256[path], path, plan)
  <2>1. SUFFICES ASSUME NEW path \in listed
                 PROVE  /\ Policy!OutputPathAllowed(path, plan)
                        /\ Policy!ValidFile(bytes[path], path, plan)
    BY <1>13, <1>14, <1>16
  <2>2. CASE path = paths.route
    BY <1>13, <1>17, <2>2
  <2>3. CASE path = paths.content
    BY <1>13, <1>19, <2>3
  <2>4. CASE path = paths.stylesheet /\ plan.mode # "blocks"
    BY <1>13, <1>20, <2>4
  <2>5. QED
    BY <1>11, <2>1, <2>2, <2>3, <2>4
<1>22. /\ {paths.route, paths.content} \subseteq DOMAIN output.sha256
       /\ plan.mode # "blocks" => paths.stylesheet \in DOMAIN output.sha256
       /\ output.sha256[paths.content] = content /\ output.sha256[paths.route] = page
  BY <1>11, <1>13, <1>14
<1>23. Policy!OutputAccepted(output, plan)
  BY <1>1, <1>15, <1>18, <1>21, <1>22 DEF Policy!OutputAccepted
<1>24. QED
  BY <1>7, <1>23

-----------------------------------------------------------------------------
\* For every output, whatever an agent leaves in place of what it was asked for: what
\* validateOutputPolicy accepts is the planned page, with the definition written for
\* exactly that page, of files of its own change and of the site's own components,
\* indexed only if the operator publishes an indexed site and the page is public; the
\* output that follows the plan is accepted; and what a plan publishes with leads,
\* from any copy of the repository, where the operator's profile leads.
THEOREM OutputsArePlanned == Spec => []OutputIsPlanned
<1>1. ASSUME NEW p \in Policy!Prepared, NEW plan \in Policy!PlansOf(p)
      PROVE  /\ <<plan.changeId, ".json">> \notin Policy!ForbiddenNames =>
                   Policy!OutputAccepted(Policy!HonestOutput(plan), plan)
             /\ \A output \in Policy!AcceptedOf(plan) :
                  LET page == output.tree[Policy!Expected(plan).route].bytes
                      content == output.tree[Policy!Expected(plan).content].bytes
                  IN /\ Policy!OfTheChange(output, plan) /\ Policy!SiteComponents(page, plan)
                     /\ content.contentSha256 = page
                     /\ content.index =>
                          /\ p.adapter = "cloudflare" /\ Policy!Intended(p, <<>>).indexable
                          /\ ~content.private
  <2>1. \A output \in Policy!AcceptedOf(plan) : Policy!OutputAccepted(output, plan)
    BY DEF Policy!AcceptedOf
  <2>2. QED
    BY <2>1, HonestIsAccepted, AcceptedIsPlanned
<1>2. ASSUME NEW p \in Policy!Prepared, NEW q \in Policy!Prepared, NEW died \in BOOLEAN,
             NEW root \in Roots, NEW plan \in Policy!PlansOf(p)
      PROVE  LET found == Policy!WriteArtifact(None, Policy!PublicationOf(q).configSha256, died)
                 template == Policy!Relocatable(Policy!PublicationOf(p), plan, p.root, found)
             IN /\ template # None
                     <=> /\ Policy!WriteArtifact(found, Policy!PublicationOf(p).configSha256,
                                                  FALSE) # None
                         /\ ~died
                /\ template # None =>
                     Policy!Materialized(template, root) = Policy!Intended(p, root)
  BY ProfileLeads, Zenon DEF Leads
<1>3. Policy!OutputIsPlanned
  BY <1>1, <1>2, Zenon DEF Policy!OutputIsPlanned
<1>4. OutputIsPlanned
  BY <1>3 DEF OutputIsPlanned
<1>5. QED
  BY <1>4, PTL
=============================================================================
