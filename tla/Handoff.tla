-------------------------------- MODULE Handoff --------------------------------
(***************************************************************************)
(* From the workspace of an agent to the sealed candidate of an attempt:   *)
(* workspaces/service.ts, workspaces/policy.ts, validation/runner.ts and   *)
(* createCandidate of candidate/manifest.ts.                               *)
(*                                                                         *)
(* The controller copies trees from one private directory to the next:     *)
(* workspace, staging, execution copy, candidate checkout, commit.         *)
(* Nothing locks them.  A process the agent left behind still writes in    *)
(* the workspace, a validation command in its execution copy, and a stray  *)
(* process anywhere; so every stage reads the bytes again and compares     *)
(* them with what the stage before accepted.                               *)
(*                                                                         *)
(* A tree is a function from paths to contents.  An attempt that failed    *)
(* is run again under the same identifier, over what it left on disk.      *)
(***************************************************************************)
EXTENDS Naturals, Sequences, FiniteSets, SequencesExt

CONSTANTS
  Paths,       \* the paths of the tree, a sequence: the order of the walk
  Tracked,     \* those the baseline has
  Allowed,     \* those the approved plan allows to change
  Versions,    \* contents that are not the baseline's
  Commands,    \* bound: how many validation commands run
  RoughRuns,   \* bound: the runs in which other processes write
  MaxWrites,   \* bound: writes of what the agent started and left behind
  MaxStrays,   \* bound: stray writes in the trees of the controller, in a run
  MaxRuns,     \* bound: runs of the attempt
  Faults,      \* what may fail: "agent", "verdict", "git", "cleanup", "crash"
  None,        \* no such tree, no such commit
  Empty        \* a directory with nothing in it

Base == "base"     \* what the baseline has at a path
Absent == "absent" \* no file
Link == "link"     \* anything but a regular file with one name

Names == Range(Paths)
Contents == Versions \cup {Base, Absent, Link}
Trees == [Names -> Contents]
Runs == 1 .. MaxRuns
\* A commit records its time: two runs never make the same one.
CommitOf(n, tree) == [run |-> n, tree |-> tree]

ASSUME HandoffConstants ==
  /\ Paths \in Seq(Names) /\ IsInjective(Paths) /\ Len(Paths) > 0
  /\ Tracked \subseteq Names /\ Allowed \subseteq Names
  /\ Versions \cap {Base, Absent, Link} = {}
  /\ Commands \in Nat \ {0} /\ MaxWrites \in Nat /\ MaxStrays \in Nat
  /\ MaxRuns \in Nat \ {0} /\ RoughRuns \subseteq Runs
  /\ Faults \subseteq {"agent", "verdict", "git", "cleanup", "crash"}

ASSUME NothingThere ==
  /\ None # Empty /\ None \notin Trees
  /\ \A n \in Runs, t \in Trees : CommitOf(n, t) \notin {None, Empty}

VARIABLES
  pc,         \* what the controller does next
  run,        \* which run of the attempt it is
  late,       \* something the agent started may still write there
  workspace,  \* the workspace of the agent, or None
  trusted,    \* its private inputs and the repository are as they were copied
  writes,     \* how many times what the agent started has written
  at,         \* how many paths the current walk has passed
  manifest,   \* manifest[p]: what the walk saw at p
  inventory,  \* the accepted files with their contents: output.sha256
  staging, copy, checkout, index,  \* the trees of the controller, or None
  strays,     \* how many stray writes there have been
  command,    \* how many validation commands have passed
  commit,     \* commit A, or None
  mine,       \* this run has made the candidate directories
  bundle,     \* the directory of the artifacts: None, Empty, or a commit's
  sealed,     \* the directory of the state: None, Empty, or a commit's
  ref,        \* refs/comunidadsolar/candidates/<change>/<attempt>, or None
  lived,      \* history: the trees the workspace had since the walk began
  judged,     \* history: what the commands of this run ran on
  origin      \* history: the inventory and judged of the run that sealed

agentVars == <<late, workspace, trusted, writes, lived>>
walkVars == <<at, manifest, inventory>>
treeVars == <<staging, copy, checkout, index>>
durableVars == <<bundle, sealed, ref>>
historyVars == <<judged, origin>>
vars == <<pc, run, agentVars, walkVars, treeVars, strays, command, commit, mine,
          durableVars, historyVars>>

Baseline == [p \in Names |-> IF p \in Tracked THEN Base ELSE Absent]
NoFiles == [p \in Names |-> Base]

\* An inventory names the files it accepts; it has Base at all other paths.
Files(inv) == {p \in Names : inv[p] # Base}
Matches(tree, inv) == tree # None /\ \A p \in Files(inv) : tree[p] = inv[p]
\* The baseline with the accepted files written over it.
Overlay(inv) == [p \in Names |-> IF p \in Files(inv) THEN inv[p] ELSE Baseline[p]]
Changed(tree) == {p \in Names : tree[p] # Baseline[p]}

At(label) == pc = label
Goto(label) == pc' = label

Init ==
  /\ pc = "idle" /\ run = 0
  /\ late = FALSE /\ workspace = None /\ trusted = TRUE
  /\ writes = 0 /\ lived = {}
  /\ at = 0 /\ manifest = NoFiles /\ inventory = NoFiles
  /\ staging = None /\ copy = None /\ checkout = None /\ index = None
  /\ strays = 0 /\ command = 0
  /\ commit = None /\ mine = FALSE
  /\ bundle = None /\ sealed = None /\ ref = None
  /\ judged = {} /\ origin = None

-----------------------------------------------------------------------------
(***************************************************************************)
(* The workspace.                                                          *)
(***************************************************************************)
\* createAgentWorkspace: a private export of the baseline.
Create ==
  /\ At("idle") /\ run < MaxRuns
  /\ Goto("agent") /\ run' = run + 1
  /\ workspace' = Baseline /\ trusted' = TRUE
  /\ UNCHANGED <<late, writes, lived, walkVars, treeVars, strays, command, commit, mine,
                 durableVars, historyVars>>

\* The agent leaves any tree; its process ends, what it started may not.
AgentReturns ==
  /\ At("agent")
  /\ \/ Goto("inputs") /\ workspace' \in Trees /\ late' \in {FALSE, (run \in RoughRuns)}
     \/ "agent" \in Faults /\ Goto("failed") /\ UNCHANGED <<workspace, late>>
  /\ UNCHANGED <<run, trusted, writes, lived, walkVars, treeVars, strays, command,
                 commit, mine, durableVars, historyVars>>

\* Where the history of the workspace counts, and where it is read at all.
Walking == pc \in {"walk", "accept", "copyFiles"}

LateWrite ==
  /\ late /\ writes < MaxWrites
  /\ At("inputs") \/ Walking
  /\ \E p \in Names, c \in Contents :
       c # workspace[p] /\ workspace' = [workspace EXCEPT ![p] = c]
  /\ writes' = writes + 1
  /\ lived' = IF Walking THEN lived \cup {workspace'} ELSE lived
  /\ UNCHANGED <<pc, run, late, trusted, walkVars, treeVars, strays, command, commit,
                 mine, durableVars, historyVars>>

\* The agent reaches an input, or somebody moves the trusted repository.
Tamper ==
  /\ workspace # None /\ trusted /\ trusted' = FALSE
  /\ UNCHANGED <<pc, run, late, workspace, writes, lived, walkVars, treeVars, strays,
                 command, commit, mine, durableVars, historyVars>>

\* assertWorkspaceInputs, and the root of the walk.
CheckInputs ==
  /\ At("inputs")
  /\ Goto(IF trusted THEN "walk" ELSE "failed")
  /\ at' = 0 /\ lived' = {workspace}
  /\ UNCHANGED <<run, late, workspace, trusted, writes, manifest, inventory, treeVars,
                 strays, command, commit, mine, durableVars, historyVars>>

\* captureManifest: one path after the other.
Scan ==
  /\ At("walk")
  /\ LET p == Paths[at + 1]
     IN /\ manifest' = [manifest EXCEPT ![p] = workspace[p]]
        /\ Goto(IF workspace[p] = Link THEN "failed"
                ELSE IF at + 1 = Len(Paths) THEN "accept" ELSE "walk")
  /\ at' = (at + 1) % Len(Paths)
  /\ UNCHANGED <<run, agentVars, inventory, treeVars, strays, command, commit, mine,
                 durableVars, historyVars>>

-----------------------------------------------------------------------------
(***************************************************************************)
(* The hand-off: what is accepted is copied to a fresh baseline.           *)
(***************************************************************************)
\* changedOutputFiles: nothing removed, nothing changed outside of the plan.
Acceptable(seen) ==
  /\ \A p \in Tracked : seen[p] # Absent
  /\ Changed(seen) \subseteq Allowed

Accept ==
  /\ At("accept")
  /\ \/ Acceptable(manifest) /\ Goto("copyFiles") /\ staging' = Baseline
     \/ ~Acceptable(manifest) /\ Goto("failed") /\ UNCHANGED staging
  /\ UNCHANGED <<run, agentVars, walkVars, copy, checkout, index, strays, command,
                 commit, mine, durableVars, historyVars>>

\* Mutant of SameAsSeen: the file is copied as it is now.
RegularNow(p) == workspace[p] \notin {Link, Absent, Base}

\* copyAcceptedFile: the bytes copied are those of the manifest.
SameAsSeen(p) == workspace[p] = manifest[p]

CopyFile ==
  /\ At("copyFiles")
  /\ LET p == Paths[at + 1]
         next == IF at + 1 = Len(Paths) THEN "mint" ELSE "copyFiles"
     IN \/ /\ p \notin Changed(manifest) /\ Goto(next)
           /\ UNCHANGED <<staging, inventory>>
        \/ /\ p \in Changed(manifest) /\ SameAsSeen(p) /\ Goto(next)
           /\ staging' = [staging EXCEPT ![p] = workspace[p]]
           /\ inventory' = [inventory EXCEPT ![p] = workspace[p]]
        \/ /\ p \in Changed(manifest) /\ ~SameAsSeen(p) /\ Goto("failed")
           /\ UNCHANGED <<staging, inventory>>
  /\ at' = (at + 1) % Len(Paths)
  /\ UNCHANGED <<run, agentVars, manifest, copy, checkout, index, strays, command,
                 commit, mine, durableVars, historyVars>>

\* The inputs and the repository once more.  Nothing reads the workspace after.
Mint ==
  /\ At("mint")
  /\ Goto(IF trusted THEN "policy" ELSE "failed")
  /\ late' = FALSE /\ writes' = 0 /\ workspace' = None /\ lived' = {} /\ manifest' = NoFiles
  /\ UNCHANGED <<run, trusted, at, inventory, treeVars, strays, command, commit,
                 mine, durableVars, historyVars>>

-----------------------------------------------------------------------------
(***************************************************************************)
(* The checks between two steps.  Checks says where, of what, what next.   *)
(***************************************************************************)
\* assertControllerCandidateCommitIdentity: HEAD, the index, the files.
Identity == checkout = commit.tree /\ index = commit.tree

\* Mutant of OwnCheckout: only Git is asked whether this is the candidate.
IsHead == commit # None => Identity

\* assertControllerCandidateCheckout: the digest of every accepted file.
OwnCheckout == Matches(checkout, inventory)

\* The index has the accepted paths, with the bytes of the files, unfiltered.
Blobs ==
  /\ Changed(index) = Files(inventory)
  /\ \A p \in Files(inventory) : checkout[p] = index[p]

\* After the commit: no status, and only the accepted paths differ.
Committed == checkout = commit.tree /\ Changed(checkout) = Files(inventory)

Holds(what) ==
  CASE what = "staging" -> Matches(staging, inventory)
    [] what = "copy" -> Matches(copy, inventory)
    [] what = "checkout" -> OwnCheckout
    [] what = "blobs" -> Blobs
    [] what = "committed" -> Committed
    [] what = "identity" -> Identity

Is(what, next) == [what |-> what, next |-> next]

MoreCommands == command < Commands

Checks ==
  [ stagedForCopy |-> Is("staging", "fillCopy"),
    stagedAfterCopy |-> Is("staging", "copyMade"),
    copyMade |-> Is("copy", "copyBefore"),
    copyBefore |-> Is("copy", "command"),
    copyAfter |-> Is("copy", IF MoreCommands THEN "copyBefore" ELSE "storeOutput"),
    storeOutput |-> Is("staging", "clone"),
    stagedAfterClone |-> Is("staging", "cloneMade"),
    cloneMade |-> Is("checkout", "checkoutForCommit"),
    checkoutForCommit |-> Is("checkout", "add"),
    blobs |-> Is("blobs", "commit"),
    committed |-> Is("committed", "checkoutCommitted"),
    checkoutCommitted |-> Is("checkout", "checkoutForBuild"),
    checkoutForBuild |-> Is("checkout", "identityForBuild"),
    identityForBuild |-> Is("identity", "build"),
    identityBuilt |-> Is("identity", "checkoutBuilt"),
    checkoutBuilt |-> Is("checkout", "identityRebuilt"),
    identityRebuilt |-> Is("identity", "artifactPath"),
    checkoutForCapture |-> Is("checkout", "identityForCapture"),
    identityForCapture |-> Is("identity", "capture"),
    identityCaptured |-> Is("identity", "seal"),
    checkoutSealed |-> Is("checkout", "identitySealed"),
    identitySealed |-> Is("identity", "checkoutForRef"),
    checkoutForRef |-> Is("checkout", "stagedForRef"),
    stagedForRef |-> Is("staging", "ref") ]

Verify ==
  /\ pc \in DOMAIN Checks
  /\ LET check == Checks[pc]
     IN Goto(IF Holds(check.what) THEN check.next ELSE "failed")
  /\ UNCHANGED <<run, agentVars, walkVars, treeVars, strays, command, commit, mine,
                 durableVars, historyVars>>

\* Another process writes in a tree of the controller: a validation command in
\* its copy, the build in the checkout, or anybody anywhere.  (To every check
\* that reads it a link is what any other wrong content is.)
Stray(tree) ==
  IF tree = None THEN {}
  ELSE {[tree EXCEPT ![p] = c] : p \in Names, c \in Contents \ {Link}} \ {tree}

\* In the execution copy no stray write puts back what another one changed:
\* two checks around a command cannot tell.
Further(tree) == {t \in Stray(tree) : ~Matches(t, inventory) \/ Matches(tree, inventory)}

StrayWrite ==
  /\ run \in RoughRuns /\ strays < MaxStrays /\ strays' = strays + 1
  /\ \/ staging' \in Stray(staging) /\ UNCHANGED <<copy, checkout>>
     \/ copy' \in Further(copy) /\ UNCHANGED <<staging, checkout>>
     \/ checkout' \in Stray(checkout) /\ UNCHANGED <<staging, copy>>
  /\ UNCHANGED <<pc, run, agentVars, walkVars, index, command, commit, mine,
                 durableVars, historyVars>>

-----------------------------------------------------------------------------
(***************************************************************************)
(* Validation.                                                             *)
(***************************************************************************)
\* validateOutputPolicy and the validators of the inventory: they judge the
\* bytes whose digest they have compared.  A candidate has at least its route.
Judge ==
  /\ At("policy")
  /\ \/ Goto("stagedForCopy")
     \/ "verdict" \in Faults /\ Goto("failed")
  /\ Matches(staging, inventory) /\ Files(inventory) # {}
  /\ UNCHANGED <<run, agentVars, walkVars, treeVars, strays, command, commit, mine,
                 durableVars, historyVars>>

JudgeRefuses ==
  /\ At("policy") /\ Goto("failed")
  /\ ~Matches(staging, inventory) \/ Files(inventory) = {}
  /\ UNCHANGED <<run, agentVars, walkVars, treeVars, strays, command, commit, mine,
                 durableVars, historyVars>>

\* createControllerExecutionCopy and createControllerCandidateCheckout copy the
\* files with copyAcceptedFile, each under the digest that was approved.
FillCopy ==
  /\ At("fillCopy")
  /\ \/ /\ Matches(staging, inventory)
        /\ copy' = Overlay(inventory) /\ Goto("stagedAfterCopy")
     \/ ~Matches(staging, inventory) /\ Goto("failed") /\ UNCHANGED copy
  /\ UNCHANGED <<run, agentVars, walkVars, staging, checkout, index, strays, command,
                 commit, mine, durableVars, historyVars>>

\* One validation command runs in the copy, to whatever end.
RunCommand ==
  /\ At("command")
  /\ judged' = judged \cup {copy}
  /\ \/ Goto("copyAfter") /\ command' = command + 1
     \/ "verdict" \in Faults /\ Goto("failed") /\ UNCHANGED command
  /\ UNCHANGED <<run, agentVars, walkVars, treeVars, strays, commit, mine, durableVars,
                 origin>>

-----------------------------------------------------------------------------
(***************************************************************************)
(* The candidate.  The index is Git's; no stray process writes there.      *)
(***************************************************************************)
GitFails == "git" \in Faults /\ Goto("failed")

\* The execution copy is removed when the validation ends.
Clone ==
  /\ At("clone") /\ copy' = None
  /\ \/ /\ Matches(staging, inventory) /\ Goto("stagedAfterClone")
        /\ checkout' = Overlay(inventory) /\ index' = Baseline
     \/ /\ GitFails \/ (~Matches(staging, inventory) /\ Goto("failed"))
        /\ UNCHANGED <<checkout, index>>
  /\ UNCHANGED <<run, agentVars, walkVars, staging, strays, command, commit, mine,
                 durableVars, historyVars>>

\* git add of the accepted paths.
Add ==
  /\ At("add")
  /\ \/ /\ Goto("blobs")
        /\ index' = [p \in Names |->
             IF p \in Files(inventory) THEN checkout[p] ELSE index[p]]
     \/ GitFails /\ UNCHANGED index
  /\ UNCHANGED <<run, agentVars, walkVars, staging, copy, checkout, strays, command,
                 commit, mine, durableVars, historyVars>>

Commit ==
  /\ At("commit")
  /\ \/ Goto("committed") /\ commit' = CommitOf(run, index)
     \/ GitFails /\ UNCHANGED commit
  /\ UNCHANGED <<run, agentVars, walkVars, treeVars, strays, command, mine, durableVars,
                 historyVars>>

\* runControllerCandidateBuildFiles writes outside of the tracked paths.
Build ==
  /\ At("build")
  /\ \/ Goto("identityBuilt")
     \/ "verdict" \in Faults /\ Goto("failed")
  /\ UNCHANGED <<run, agentVars, walkVars, treeVars, strays, command, commit, mine,
                 durableVars, historyVars>>

\* candidateDirectories: each must be new.  Only a run that made both answers
\* for them when it fails.
MakeArtifactPath ==
  /\ At("artifactPath")
  /\ \/ bundle = None /\ bundle' = Empty /\ Goto("statePath")
     \/ bundle # None /\ Goto("failed") /\ UNCHANGED bundle
  /\ UNCHANGED <<run, agentVars, walkVars, treeVars, strays, command, commit, mine,
                 sealed, ref, historyVars>>

MakeStatePath ==
  /\ At("statePath")
  /\ \/ /\ sealed = None /\ Goto("checkoutForCapture")
        /\ sealed' = Empty /\ mine' = TRUE
     \/ sealed # None /\ Goto("failed") /\ UNCHANGED <<sealed, mine>>
  /\ UNCHANGED <<run, agentVars, walkVars, treeVars, strays, command, commit, bundle,
                 ref, historyVars>>

\* captureControllerCandidateBuildArtifacts.
Capture ==
  /\ At("capture") /\ Goto("identityCaptured")
  /\ bundle' = commit
  /\ UNCHANGED <<run, agentVars, walkVars, treeVars, strays, command, commit, mine,
                 sealed, ref, historyVars>>

\* The evidence, candidate.json and candidate-provenance.json.
Seal ==
  /\ At("seal") /\ Goto("checkoutSealed")
  /\ sealed' = commit /\ origin' = [inventory |-> inventory, judged |-> judged]
  /\ UNCHANGED <<run, agentVars, walkVars, treeVars, strays, command, commit, mine,
                 bundle, ref, judged>>

MayAnchor == ref \in {None, commit}

\* persistControllerCandidateRef.
PersistRef ==
  /\ At("ref")
  /\ \/ MayAnchor /\ ref' = commit /\ Goto("anchored")
     \/ GitFails /\ UNCHANGED ref
     \/ ~MayAnchor /\ Goto("failed") /\ UNCHANGED ref
  /\ UNCHANGED <<run, agentVars, walkVars, treeVars, strays, command, commit, mine,
                 bundle, sealed, historyVars>>

\* What was fetched is read back; then createCandidate returns the candidate.
Deliver ==
  /\ At("anchored")
  /\ \/ Goto("delivered") /\ mine' = FALSE
     \/ GitFails /\ UNCHANGED mine
  /\ UNCHANGED <<run, agentVars, walkVars, treeVars, strays, command, commit,
                 durableVars, historyVars>>

\* Mutant of MayRemove: a failed run removes the directories it found.
RemovesAll == TRUE

MayRemove == mine

\* A directory that is removed, or not: the failure of a removal is ignored.
Removed(content) ==
  IF MayRemove THEN {None} \cup (IF "cleanup" \in Faults THEN {content} ELSE {})
  ELSE {content}

Forget ==
  /\ Goto("idle")
  /\ late' = FALSE /\ writes' = 0 /\ workspace' = None /\ trusted' = TRUE /\ lived' = {}
  /\ at' = 0 /\ manifest' = NoFiles /\ inventory' = NoFiles
  /\ staging' = None /\ copy' = None /\ checkout' = None /\ index' = None
  /\ strays' = 0 /\ command' = 0 /\ commit' = None /\ mine' = FALSE
  /\ judged' = {}

CleanUp ==
  /\ pc \in {"failed", "delivered"}
  /\ Forget
  /\ IF At("failed")
     THEN bundle' \in Removed(bundle) /\ sealed' \in Removed(sealed)
     ELSE UNCHANGED <<bundle, sealed>>
  /\ UNCHANGED <<run, ref, origin>>

Crash ==
  /\ "crash" \in Faults /\ pc # "idle"
  /\ Forget
  /\ UNCHANGED <<run, durableVars, origin>>

Next ==
  \/ Create \/ AgentReturns \/ LateWrite \/ Tamper \/ CheckInputs \/ Scan
  \/ Accept \/ CopyFile \/ Mint \/ Verify \/ StrayWrite \/ Judge \/ JudgeRefuses
  \/ FillCopy \/ RunCommand \/ Clone \/ Add \/ Commit \/ Build
  \/ MakeArtifactPath \/ MakeStatePath \/ Capture \/ Seal \/ PersistRef \/ Deliver
  \/ CleanUp \/ Crash

Spec == Init /\ [][Next]_vars

-----------------------------------------------------------------------------
(***************************************************************************)
(* Properties.                                                             *)
(***************************************************************************)
\* The walk and the copies read the workspace file by file while the agent's
\* processes may still write there.  What validateAgentWorkspaceOutput accepts
\* is nevertheless a set of files the workspace had at one moment, unless four
\* writes hide each other exactly between its readings: MaxWrites is below that.
AcceptedWasReal ==
  At("mint") => \E t \in lived : Matches(t, inventory)

\* loadDurableCandidate asks for both directories and the reference.
Loadable == sealed \notin {None, Empty} /\ bundle = sealed /\ ref = sealed

\* A candidate that can be loaded is the baseline with the files accepted from
\* the agent in that same run and nothing else, all of them allowed by the plan,
\* and each of its validation commands started on these files: whatever fails,
\* crashes, is run again or writes where it should not.
LoadableIsAccepted ==
  Loadable =>
    LET inv == origin.inventory
    IN /\ Files(inv) \subseteq Allowed
       /\ sealed.tree = Overlay(inv)
       /\ origin.judged # {}
       /\ \A t \in origin.judged : Matches(t, inv)

\* A candidate that createCandidate has returned stays: no later run of its
\* attempt, which must fail, removes or changes what makes it loadable.
DeliveredStays ==
  [][Loadable /\ ~mine => Loadable' /\ sealed' = sealed]_vars
=============================================================================
