# Verification of the Comunidad Solar ingestion and release pipelines

The repository is the Astro/Cloudflare web site of Comunidad Solar together with the
program that changes it: an *ingestion pipeline* that takes a written request or a
supplied page, has an agent produce the change in an isolated workspace, asks a human
twice, seals a candidate commit with its build evidence, and publishes it by moving
`main`; and a *release pipeline* of GitHub workflows that upload previews of a pull
request, photograph them, record a person's approval and deploy to production.

This directory holds TLA+ models of the parts of these programs in which mistakes are
hard to see and hard to test, TLC configurations that check them, and theorems with
proofs that TLAPS checks. Paths below are relative to the repository root.

- [Inventory](#inventory)
- [Plan](#plan)
- [The models](#the-models)
- [What the runs check](#what-the-runs-check)
- [Bounds](#bounds) and [fairness](#fairness)
- [What is proved](#what-is-proved)
- [Where code and documents disagree](#where-code-and-documents-disagree)
- [Observations](#observations)
- [What is not modelled](#what-is-not-modelled)
- [Running it](#running-it)

## Inventory

| Component | Source | State it keeps | Operations | Modules |
|---|---|---|---|---|
| Change lock | `src/ingest/state-store.ts` 353-523, 736-977 | `lock`, `recovery-guard`, quarantine files in the change directory | `withChangeLock`: acquire, recover, give back | `ChangeLock`, `ExclusiveLock` |
| Change store | `state-store.ts`, `journal.ts`, `domain.ts` | `state.json`, `journal.ndjson` | `transition`, `retryChange`, `readChange`, `verifyJournal`, the lock-recovery record | `ChangeStore`, `ChangeDomain`, `ChangeLifecycle` |
| Controller | `src/ingest/controller.ts` | `request.json`, `plan.json`, `candidate.json`, `attempts/*.json` | `receiveRequest`, `plan`, `approve`, `generate`, `validate`, `preview`, `publishLocal`, `status`, `audit`, `dispose` | `IngestController`, `CandidateSeals`, `Intake` |
| Human approvals | `src/ingest/approvals/` | `approvals/gate-N.json`, `gate-N.provenance.json`, leases of fixture prompts in memory | `approveGate1`, `approveGate2`, `verifyApproval`, `verifyPersistedApprovalProvenance` | `IngestController`, `CandidateSeals` |
| Importers and planning | `src/ingest/importers/`, `planning/`, `scripts/prepare-cloudflare-config.ts` | supplied files beside the request, the sanitized publication profile | `importRequest`, `importPagePackage`, `createChangePlan`, `preparePublicationProfile` | `Intake`, `ChangePlanning`, `PlannedOutputs` |
| Workspaces | `src/ingest/workspaces/` | temporary workspaces, capabilities in memory | `createAgentWorkspace`, staging and validation of output, removal | `Handoff` |
| Agents and validation | `src/ingest/agents/`, `validation/` | execution copies, evidence files | run an agent, run fixed commands, the output policy | `Handoff`, `ProcessGroups`, `AgentOutput`, `OutputPolicy`, `PlannedOutputs` |
| Candidate store | `src/ingest/candidate/` | candidate directories, manifests, build evidence, candidate refs | `createCandidate`, `loadCandidate`, `verifyCandidateArtifact`, `verifyCandidateEvidence`, publication state | `Handoff`, `CandidateSeals` |
| Promotion | `candidate/manifest.ts` 2685-3370, `promotion.ts`, `dossier*.ts` | `refs/heads/main`, the controller's checkout, private worktrees, publication events | `promoteCandidateWithDossier`, `recordCandidatePublicationFailure` | `Promotion`, `ProtectedMain` |
| Publishers | `src/ingest/publishers/` | a preview process group | `LocalPublisher.publish`, the Cloudflare dry run | `ProcessGroups` |
| Preview evidence and release | `scripts/preview-evidence/`, `.github/workflows/` | the `evidence` branch, uploaded Worker versions, deployments, commit statuses, descriptors | capture, upload, deploy exact version, approve, authorize and reauthorize a release, smoke, rollback | `Release`, `SealedBundle`, `EvidenceChain`, `ProductionChain` |
| Parity and build scripts | `scripts/` | files of one run | capture and comparison of the site | `ProcessGroups` (their processes) |
| Web runtime | `src/lib`, `src/pages`, `src/components` | a D1 table of interests; consent in the browser | routing, private area, quote, interest | none |

How they interact. Every controller operation calls `withChangeLock` of the store and
runs inside its callback. The callback receives a `LockedChange` whose `transition` is
the only way to move the change; the files of the operation itself (plan, approval,
attempt, candidate) are written directly with `writeAtomic`, before the transition that
announces them. `approve` waits for a human inside the callback. `generate` runs an
agent, hands its output through four private trees, validates, builds and seals.
`publishLocal` and the promotion read all authorities again and compare them with
`main`, which belongs to git and moves whenever somebody commits. `readChange`,
`verifyJournal` and `status` read without the lock. The workflows share nothing with the
controller but `main`; they leave each other files in artifacts and in the `evidence`
branch, versions at Cloudflare and statuses at GitHub.

What is hard, and what makes each part correct:

- *Lock.* Exclusion is built from `link(2)`, `unlink` and `rename` by path. What a
  caller compared may have been replaced when it unlinks. Correct means: one writer per
  change; a live owner is never robbed; nothing is left behind that locks the change
  for a live process; a dead owner does not lock it for ever.
- *Store.* Two files are written one after the other, either write may fail or be the
  last thing a process does, and a failed write may have taken effect. Correct means:
  the journal on disk is always legal; what a caller was told is never lost; files that
  disagree are not built upon; seen through `state.json` the change follows its life
  cycle; a reader without the lock never reports something that did not happen.
- *Controller, approvals, candidates.* Each operation makes several writes and then a
  transition. Approvals, candidates and attempt records of earlier attempts, other
  processes and other environments stay on disk. `main` moves at any time. Correct
  means: the state never claims what the files do not prove; what a human approved does
  not change afterwards; a sealed candidate is never touched again; nothing is published
  that was not confirmed; a change always gets somewhere.
- *Hand-off.* An agent and its children write where the controller reads. Correct means:
  what is accepted is something that existed at one moment, and exactly that is
  validated, committed and sealed.
- *Intake, planning, output policy.* What arrives is data of somebody else. Correct
  means: everything a request stands on is kept; a page can only be the planned one,
  made of the site's own components and inert files.
- *Promotion.* A compare-and-swap on `main`, then a checkout that must follow it
  without discarding concurrent work. Correct means: `main` is never left at the
  candidate alone, published is never reported as unpublished, and concurrent work
  survives.
- *Release.* Versions are uploaded, then exactly one is deployed, then smoked, then
  recorded; authorization is checked again because `main` may have moved. Correct means:
  pictures show the commit they name, approval follows evidence, what production serves
  was merged, approved and photographed, and its record names the way back.
- *Processes.* A leader, a deadline, a group, output that a descendant may hold open.
  Correct means: what is reported as gone is gone, and everything settles.

`PROJECT.json` lists the hazards one by one with the properties that cover them.

## Plan

In order of importance; each stage is a module with its instance, its properties and
their mutants, and the theorems that an inductive invariant within reach allows.

1. `ExclusiveLock`, `ChangeLock`: the lock and its abstract promise. *Checked, proved.*
2. `ChangeDomain`, `ChangeLifecycle`, `ChangeStore`: the durable state. *Checked,
   proved.*
3. `IngestController`: the operations, composed from the two abstract promises.
   *Checked; its safety proved.*
4. `ProtectedMain`, `Promotion`: `main`, the dossier, reconciliation and recovery of the
   checkout. *Checked; its safety and the refinement proved.*
5. `Handoff`: workspace, staging, execution copy, candidate. *Checked; its safety proved,
   with the number of writes that its checks withstand.*
6. `CandidateSeals`: which document binds which. *Checked, proved.*
7. `ProcessGroups`: everything that starts and stops external processes. *Checked; its
   safety proved.*
8. `Release`, and with it `SealedBundle`, `EvidenceChain`, `ProductionChain` in
   `ReleaseDocuments`. *Checked; the safety of `Release` and the rules over its documents
   proved.*
9. `ChangePlanning`, `OutputPolicy`, `Intake`: the rules over supplied data. *Checked;
   those of `Intake`, in `SuppliedRequests`, and those of the other two, in
   `PlannedOutputs`, proved.*

What would come next: the command line and the evidence roots of the runner, which are
[not modelled](#what-is-not-modelled).

## The models

Two kinds of module. Most are state machines: `VARIABLES`, `Init`, one action per step
of the code, `Next`, `Spec`. `SealedBundle`, `EvidenceChain`, `ProductionChain`,
`ChangePlanning`, `OutputPolicy` and `Intake` are rules over data: the writers and
readers of documents as operators, with no state. Their properties quantify over every
document of an instance and hold in all states or in none; so they stand in a run of
the state machine that uses them as `Init => ...`, and TLC evaluates them once.

### ChangeLock and ExclusiveLock

`ExclusiveLock` is the promise: one owner at most, a live owner keeps the change until
it gives it back, what a dead owner held can be freed. `ChangeLock` is the protocol of
`acquireLock`, `acquireRecoveryGuard`, `reclaimStaleRecoveryGuard`,
`acquireLockUnderGuard` and `removeOwnedLock`. A *caller* is one pending
`withChangeLock`; `PidOf` says in which process it runs. Every file-system call is an
action; `pc[c]` names the next one. The variables `guard`, `lock` and `quarantine` are
the three files and hold an owner or `None`. `seen[c]` is the owner a caller has read
and not yet finished with. An owner is `<<caller, stamp>>`: the stamp stands for the
random token, so that two calls of one caller are told apart.

`Stale` is `isRecoveryEligible` and `isPidAlive` together. Time is reduced to the action
`Expire`: the files a dead process stamped may become older than 30 minutes at any
moment. `CrashPhases` says where in a call processes die, `PromptJudge` that files do not
cross the limit between being read and being judged; they name the hypotheses of the
theorems. `IoFaults` lets the calls around `link` fail; `removeOwnedLock` and the reads
do not fail. All processes are on one host (the code refuses to break the lock of
another).

### ChangeDomain, ChangeLifecycle, ChangeStore

`ChangeDomain` holds the pure part: the states, `AllowedTransition`, what
`assertTransitionShape` and `verifyJournalEvents` accept, and `RecordOf`, the record
`recordFromJournal` derives. A journal is a sequence of events; order stands for the
hash chain and the sequence numbers, and event types that are not reserved are `step`.

`ChangeStore` has both files as variables and the two writes of a transition as two
actions, with the rollback as a third. `write[p]` is what `persistTransition` or
`retryChange` has computed under the lock. `writeAtomic` may throw before its rename
(the file is unchanged) or after it (`fsyncDirectory` failed; the file is replaced). A
stale lock is broken in the steps of the code: unlinked, created anew, recorded, because
a process may die between any two. `RecordRecovery` has the three outcomes of the code:
no state yet (the record is postponed until after the callback), a record to write, or
an error that gives the lock back. Readers take two steps, `ReadState` and
`ReadJournal`. `acked` is a history variable: the journal when a caller was last told of
success.

The reads and checks at the start of a transition are one step: nobody else writes while
a process owns the lock, which is what `ChangeLock` is about. `Transition` and `Retry`
are both open to a callback, more than any single caller of the code does.

`ChangeLifecycle` is what an observer of `state.json` may rely on.

### IngestController

One change with all operations that write. The record and the lock are those of
`ChangeLifecycle` and `ExclusiveLock` (`Life!Advance`, `Lock!Take` ...), so the model
is the composition of the two promises with the controller's own files: `request`,
`plan` (the commit it was made for), `approval` and `provenance` per gate, `attempts`
(the status in each attempt record), `directories` and `sealed` (candidate directories;
the baseline of a sealed candidate) and `candidate`.

An operation enters with the checks and its first write in one step, since only `main`
moves under a running operation; each later write is a step, and any of them may be the
last of a process, or fail and take the error path of the code. A failed first write is
an operation that did not start. `approve` compares the baseline before it asks
(`AskGate1`, `AskGate2`), waits (`Confirm`: the human may refuse), and writes approval
and provenance one after the other. `generate` records its attempt as running, lets the
agent work, creates directories, seals, writes `candidate.json`, the attempt record and
the transition; every error after the first write leads to `FailAttempt`, which tries to
record the attempt as failed. `publishLocal` checks the whole publication state, runs a
preview and writes nothing. `EnvOf` says in which environment a process approves; the
signing key of a provenance is private to the process that wrote it, so `Provenance`
compares the signer with the publishing process. `Abandon` and `Retry` are calls of the
store that the controller does not make itself. `confirmed` and `disrupted` are history:
what humans confirmed, and whether anything but the agent has failed.

### ProtectedMain and Promotion

`ProtectedMain` says what everybody else may rely on: `main` only grows, and a promotion
adds a candidate together with its dossier, in one step, to the baseline it was approved
on. `Promotion` is `promoteCandidate` and `promoteCandidateWithDossier`: one git command
is one step. A commit is the sequence of labels that lead to it from the baseline. The
controller's checkout is HEAD (attached to `main` or a commit), the commit whose content
index and files have, and the edits nobody has committed; several promotions and
operators use it. Promotions take no lock: only `git update-ref` with the expected value
(`advanceProtectedMainWithLease`) decides. After it come the reconciliation of the
checkout, the removal of the private worktree and the publication event, each of which
may fail or be the last thing a promotion does; after a lost lease the same commands
bring the checkout to `main`. `outcome[p]` is what the caller is told.

### Handoff

From the agent's workspace to the candidate reference: `workspaces/service.ts`,
`workspaces/policy.ts`, `validation/runner.ts` and `createCandidate`. A tree is a function
from paths to contents. The controller copies trees from one private directory to the
next, workspace, staging, execution copy, checkout, commit, and nothing locks them: a
process the agent left behind writes in the workspace while it is walked and copied file
by file (`lived` collects what the workspace was at any moment), a validation command
writes in its execution copy, a stray process anywhere. `Checks` lists the comparisons
between two steps: where each stands, of what with what, and what comes next. An attempt
that failed or died is run again under the same identifier over what it left on disk;
`sealed`, `bundle` and `ref` are what makes a candidate loadable.

### CandidateSeals

What binds the files of a change to each other. A *lineage* is one history that wrote all
fifteen files (and perhaps a dossier and its tag); what is on disk is, for each file, the
lineage it comes from. An operation (preview, local publication, promotion, Cloudflare,
audit) reads them one after the other and compares digests; in between files are replaced
by those of another lineage, or lost. A digest is the value it was taken of.

### ProcessGroups

Eight runners of external commands, each with its own signals, timers and rules for
settling: a validation command, an agent, Wrangler, the Cloudflare dry run, the dry
build, the visual comparison, the portable timeout and the preview handle. Every
behaviour has one runner, one leader and one child that may outlive it, ignore SIGTERM,
give up the inherited output or leave the group. Timers may fire at any moment.

### Release

The jobs of `pr-preview.yml`, `shared-preview.yml` and `production.yml` with GitHub,
Cloudflare, operators and repeated attempts around them; one remote call is one step. A
commit is `<<p, n>>`: the n-th head of pull request `p`, or its merge commit when `n = 0`.
`preview` and `product` are the versions uploaded to the two workers, `live` the
deployments of production, `shared` the version the shared address serves, `evidence` the
manifests in the branch together with what the pictures really showed. Wrangler may
report a failure of what took effect, GitHub may cancel a job, the site may be down.

### SealedBundle, EvidenceChain, ProductionChain

What the jobs accept of the files that earlier jobs left. `SealedBundle`: the inventory,
the seal and the verification of a built Worker, file by file, with modes, sizes and
limits. `EvidenceChain`: request, context, descriptors, captures, the evidence branch and
the comments; the publication into the branch moves files one by one and undoes them.
`ProductionChain`: authorization against GitHub and the branch, reauthorization, the
descriptors of the upload and of the way back, the smoke record and its place in the
branch. No job has seen another one's work; the properties quantify over all mixtures of
the files of two runs. `ReleaseDocuments` brings the three together with `Release`, says
what their constants may be, and states their promises as properties of one
specification.

### ChangePlanning, OutputPolicy, Intake

`Intake`: the paths, types, sizes and links of a page package that are refused, the
entrypoint, its local imports and its metadata, the normalized request and the files kept
beside it, with the steps of a crash while keeping them. `ChangePlanning`: the operator's
publication profile as it is checked and copied clean, mode, outputs and routes of a
plan, and the profile written again for each execution copy. `OutputPolicy`: what the
output of an agent may be, on parsed pages (imports, components, attributes), content
definitions, stylesheets and assets, compared with the plan. `AgentOutput` has the
modules of the site that a page may use and what an agent leaves that follows its plan.
`SuppliedRequests` brings `Intake` together with `IngestController`, `PlannedOutputs` the
plans and the policy together with `Handoff`; both say what their constants may be.

## What the runs check

| Run | Question | Answer |
|---|---|---|
| `lock_exclusion` | Three callers in three processes, two of which may die anywhere, the guard in hand included, with faults around `link`: does the protocol implement `ExclusiveLock`, is no live owner robbed, is no lock left behind? | yes, 124,616 states |
| `lock_served` | Does somebody enter the callback again and again? | yes, 39,256 states |
| `store` | Three writers, two mortal, a lock-free reader and one failing write of each kind: is acknowledged work kept, no recovery invented, disagreement final, a single failure undone, a reading part of history, the life cycle implemented? | yes, 2,614,231 states |
| `controller` | A mortal production controller and a fixture controller, failing agents, writes and directories, a moving `main`, two attempts: does the state always have its proof, is only confirmed work published, does what was promised stay, and does an undisturbed change remain auditable, generable and get somewhere? And does every request hold what was supplied? | yes, 45,940 states |
| `handoff` | Two runs of one attempt, writers everywhere in the first, failures and a crash: is what was accepted real, what can be loaded accepted, and what was delivered kept? And is every accepted output the planned one? | yes, 3,232,189 states |
| `seals` | Five operations over six histories, two files replaced or lost while they read: is what they accept one history, and is an undisturbed one accepted? | yes, 1,902,512 states |
| `promotion` | Three promotions of one checkout, one mortal, failing commands, operators: does `main` follow `ProtectedMain`, are callers told the truth, do edits survive? | yes, 784,148 states |
| `processes` | Eight runners: is what is reported gone gone, does the group end, does everything settle? | yes, 25,487 states |
| `release` | Two pull requests, shared preview and production: are pictures true, does approval follow evidence, was production approved, is the way back recorded, does the shared preview never go back? And do the documents let no mixture through? | yes, 1,305,472 states |
| `stale_guard_race` | Three live callers over the guard of a dead one. | **no** |
| `correction_refused` | Does a corrected head get previews? | **no** |
| `dossier_refused` | Does the audit accept a dossier that was recorded properly? | **no** |

Every property of a passing run has a mutant in `PROJECT.json`: a definition of the
model with a plausible mistake in it, under which TLC finds the property violated. The
mutants are the operators commented "Mutant of" next to the definition they replace.
Type invariants are not among the runs' properties; they are part of what is proved.

The properties that say most:

- `LiveLockNeverBroken`, `ImplementsExclusiveLock`: many actors and many steps to violate;
  true only because the read-compare-unlink of a stale lock runs under the guard.
- `AckedDurable`, `FailsClosed`: rollback, retry and recovery never eat acknowledged
  events, and no later call repairs one file from the other.
- `ReadsAreDurable`, `SettledInSync`: a reader between two writes either fails or returns
  a record the journal still derives later, and a single failed write is undone. Both are
  stated for `Undone` behaviours (one failure, before the rename): beyond that they are
  false, see the observations.
- `StateIsProved`, `PublishedWasConfirmed`: no leftover of another attempt, environment
  or process ever counts. `PromisedStays`: no operation rewrites a plan Gate 1 was
  confirmed for or touches a sealed candidate, also not its own failing repetition.
- `RestIsAuditable`, `GenerateNotBlocked`, `NoLimbo`: what is left when an agent fails is
  something the next operation can go on from. They are stated for `Undisturbed`
  behaviours, in which nothing but the agent fails; what else can happen is among the
  observations.
- `AcceptedWasReal`: a walk over a tree that is being written accepts nevertheless one
  state of it, up to three writes. `LoadableIsAccepted`: whatever crashes, is repeated or writes where it
  should not, a candidate that loads is the baseline with the accepted files, and every
  validation command started on exactly these.
- `PublishedIsOne`: among fifteen files of two histories no mixture passes, and the
  history that passes is the one whose Gate 2 a person confirmed. `HonestIsAccepted` is
  its counterpart: the checks do not refuse what nobody disturbed.
- `OutcomeIsHonest`, `EditsSurvive`, `ProtectsMain`: between the lease and the answer
  other people commit, edit and promote.
- `SettledMeansGone`, `GroupEnds`: a tree is read only when nobody of the group can write.
- `PicturesAreTrue`, `ApprovalFollowsEvidence`, `ProductionWasApproved`,
  `RecordsTheWayBack`, `SharedNeverGoesBack`: each relates what one workflow wrote to what
  another one, Cloudflare or a person did in between.
- `BundlesAreWhole`, `EvidenceIsTrue`, `PublishedWhole`, `ProductionIsAccounted`,
  `OutputIsPlanned`, `RequestIsSupplied`: in both directions, that mixtures and deviations
  are refused and that what an honest writer wrote is accepted.

## Bounds

- Lock: three callers (four where three must compete over a dead one's guard), each in a
  process of its own, as many tokens per caller as one call can confuse (two).
- Store: three processes, at most two deaths, at most one fault before and one after a
  rename, `MaxRevision` events before a transition may start: with four a change is
  received, fails, is retried and recovered, and there is room for an event after it.
- Controller: two processes of two environments, two commits of `main` (approved and
  moved), two attempts (a retry meets what an earlier attempt left). Deadlock is not
  checked: with bounded attempts a change that is rejected or published for good stops.
  The same holds of every other run with `CHECK_DEADLOCK FALSE`: its operations end.
- Promotion: three promotions, two of the same candidate, one not authorized, one commit
  and two edits of other people. The fault `lateRef` (an `update-ref` that took effect
  and reported a failure) is a hypothesis the run excludes.
- Handoff: three paths (one the plan creates, one it extends, one it must leave alone),
  two contents besides the baseline's, two validation commands, two runs. Late writes of
  the agent's children and stray writes are two each, in the first run: one puts a file
  out of step between two copies, the second tries to hide the first. A stray process
  does not put back what another one changed in the execution copy, where two checks around
  a command cannot tell. Restoring a content exactly between two readings (ABA) is out of
  the controller's means of detection; the theorems say how many writes it takes. Contents
  are symmetric.
- Seals: six lineages that share as much as two histories can (second attempt, repeated
  attempt, rehearsal, other clone, candidate of before digests were recorded), at most two
  files disturbed. The theorems have neither bound.
- Processes: one leader, one child, all combinations of what the child does.
- Release: two pull requests of one issue, two heads of the first, one run of each
  workflow and a second one of the shared preview, two attempts of production, at most
  two deployments after which operators make none by hand. Two runs of one pull request are in
  `correction_refused`.
- Rules over data: the instances in the `MC` modules: bundles of two and three files of
  three profiles with every limit met and passed; captures of two runs with two sets of
  pictures; worlds of two pull requests; every output that differs from the planned one
  in one place, with pages nested three levels deep at most (`Depth`); 2,208 packages with three metadata each.

## Fairness

`lock_served` runs under `FairSpec` of `ChangeLock`: a live process goes on executing,
its callback returns, operators call again, and time passes over the files of the dead
(strongly: whether a file is about to be judged alternates). Nothing makes a process
die, and no fault must stop occurring, because faults are off in that run. It assumes
that nobody dies holding the guard; without `PromptJudge` and with a death in hand of the
guard two live callers can lock each other out for ever.

`controller` uses `FairSpec` of `IngestController`: a running operation goes on (weak
fairness, the code has no step that waits for others); the operation that the state asks
for is called again and again (strong fairness, since the lock may be taken at any
moment); an agent that is started again and again succeeds once, and a human who is asked
again and again confirms once (strong fairness on the successful outcome). Nobody is
obliged to reject, fail, retry, or commit to `main`.

`processes` uses weak fairness of the runner, of the kernel that reaps, closes pipes and
ends what was sent SIGKILL. Nothing obliges a child to end by itself or to obey SIGTERM.

All other runs check safety only.

## What is proved

For every value of the constants that their `ASSUME` allows: any numbers of callers,
paths, pull requests, attempts, faults. Every safety property of the runs about a state
machine is a theorem, and so is every rule over the documents of a release and over what
a request is made from. Each proof module starts with the strengthened invariant; the
theorems follow from `Init => IInv`, `IInv /\ [Next]_vars => IInv'` and `IInv => P`.
`PROJECT.json` lists them with the property each one states.

`ChangeLockProofs`, for any sets of callers, processes and tokens, from `LockConstants`:

- `TypeCorrect` and `NoLockLeftBehind`, without further hypotheses.
- `Exclusion`, `GuardExclusion`, `NothingLeftBehind`, `LiveLockKept`, `LockRefinement`
  under `GuardNeverStale`: no process dies while it holds the guard, and a guard or lock is
  judged before the clock can carry it over the limit between reading and judging. The
  first cannot be dropped: `stale_guard_race` is the counterexample. The invariant says
  who holds which file, that a guard of a dead process does not exist under this
  hypothesis, and that a caller about to unlink a stale lock has seen the lock that is
  still there. `MutualExclusion` alone is not inductive: it does not say that what a
  caller read is still on disk. (`lock_exclusion` checks three callers without the first
  hypothesis.)

`ChangeStoreProofs`, for any processes, deaths, faults and bounds, from
`StoreConstants`:

- `JournalAlwaysLegal`, `AckedNeverLost`, `TypeCorrect`, `DisagreementIsFinal`,
  `LifecycleRefinement`, all by the invariant (`Invariance`). Its core is `WriteInv`: a
  process that persists a transition is the only one that may (`Locks`), the journal on
  disk is either the one it read or that one with its event, both are legal, everything
  acknowledged is a prefix of the one it read, and the record it will write follows from
  the `state.json` that is still there (`Follows`). Each lemma takes one group of actions;
  the refinement needs in addition that a record at a checkpoint resumes there
  (`Resumes`), because otherwise recording a recovery would change the checkpoint an
  observer sees.
- `SyncWhenSettled` and `ReadsNeverUndone` by `Synchrony`, which follows the one failed
  write that `Undone` behaviours have. `state.json`, and every record that a reader has
  read or returned, derives from a first part of the journal; between the two writes of a
  transition it does so from the journal without the new event, so that a rollback takes
  nothing away from anybody; and when nobody is writing and no writer has died,
  `state.json` derives from the whole journal. Both theorems are false of two failed
  writes, or of one after its rename (see the observations).
- `RecoveriesAreEarned`, by counting (`CountInv`): the `lock-recovered` events in the
  journal, and one more as long as a recovery is still due, are at most as many as the
  dead processes. A recovery is due from the moment the owner of the lock is dead until
  the event is on disk, at whichever of the two points of a call it is written; at most
  one is due at a time.

`IngestControllerProofs`, for any processes, environments, deaths, faults, commits and
attempts, from `ControllerConstants`:

- `StateProved`, `PublishedConfirmed`, `PromisesKept`, by the invariant (`Invariance`).
  `StateIsProved` alone is not inductive, because an operation writes first and moves the
  state later. `Course(p)` ties every label of an operation to what it has written: at
  `mark` after the second gate the approval is that of the candidate, from `candidate` on
  the candidate is sealed at the plan, and so on. `Ladder` says what a checkpoint a change
  can return to still promises; that no approval exists before Gate 1 is reached is what
  makes the plan final. `Seals` says that a sealed candidate has directories, so that
  `MakeDirectories` can never reach it again, and `Signed` that a process signs only what
  was confirmed in it, in one form, which is why a signature is enough to publish. The
  step has one part for each action, after seven kinds of step that most of them are.
- `RestAudited` and `GenerateFree`, by a second invariant (`RestInv`), whose last part is
  about undisturbed behaviours: a change that was received has its request and one that
  was planned its plan, also when it was sent back; until the change is `generated` its
  attempt has directories only while an operation makes the candidate; and the attempt of
  a `generated` change is recorded as generated until `validated` is about to follow.
- `RequestsAreSupplied`, for any packages, metadata, requests and limits, from
  `PackageConstants` (a package is a list of entries, and to compose a segment that is
  composed changes nothing). The recursions of `Intake` are functions of a number of
  steps, and a set of numbers that has 0 and with each number the next one has them all
  (`Ascending`, from the well-foundedness of `<`). *Imports:* as long as following them goes
  on, each step has found another file of the package, so after as many steps as there
  are files every import leads back (`ReachedIsClosed`); what was reached is an asset
  unless it is the page or its metadata (`PageIsClosed`). *Paths:* two files whose paths
  differ only in case would have had entries that may collide, because each part of a path
  is a part of its entry composed once or twice (`ComponentOfEntry`). *Forms:* everything
  `importPagePackage` decides depends on the entries only (`FormsOfPage`). *Keeping:* as
  long as nothing is spoilt, what the first n steps of `receiveRequest` have done is known
  (`TakenOfWhole`), and a request is the step after all raw files; a spoilt file stays
  spoilt until it is met, and nothing follows a failure (`SpoiltRefused`).

`PromotionProofs`, for any promotions, commits, edits, failures and deaths, from
`PromotionConstants`:

- `SuccessIsTrue`, `EditsKept` and `MainRefinement`: `Promotion` implements
  `ProtectedMain`. A promotion takes no lock and knows little of `main` once its lease is
  over; what it needs is that `main` only grows. The invariant (`Invariance`) says that a
  call past `assertCandidatePromotion` has a candidate both gates approved (`Cleared`),
  that `mainPublished` is set by the lease only and says that `main` holds the dossier
  (`PublishedHolds`), and that every outcome follows it (`OutcomeFollows`). The one step
  in which `main` takes a dossier finds `main` at the baseline, which makes it a promotion
  of the abstract specification.
- `ReportsAreHonest` under the hypothesis that no `update-ref` takes effect and reports a
  failure (`lateRef`), which is false otherwise (see the observations). It needs the
  converse too: a promotion whose dossier is in `main` knows it (`HoldsPublished`).

`HandoffProofs`, for any paths, contents, commands, runs and failures, from
`HandoffConstants` and `NothingThere` (a tree, a commit, an empty directory and none are
different things):

- `AcceptedReal`: what is accepted of a workspace was there at one moment, if at most three
  writes fall into the two readings. A reading with one write has seen the tree before or
  after that write (`Near`); to see neither takes two, and both readings must be deceived.
  The bound is exact: with four writes TLC finds three files that never were there
  together (two files need six).
- `LoadableAccepted`: what can be loaded is what was accepted, if fewer than ten stray
  writes fall into a run. The checks compare the checkout with the accepted files and with
  the commit in turn; a file of which the commit has another content must be changed to and
  fro between each two of them. `Followed` counts: before each label, how many writes it
  took to get there. The bound is exact as well: with ten writes TLC finds the candidate.
  The other half of the invariant is that the reference of the attempt is never that of a
  run that has still to seal (`Anchored`), because each run makes its own commit.
- `DeliveredRemains`, without hypotheses: only a run that made the directories writes in
  them or removes them (`Answers`).

and for any requests, profiles of operators, copies of the repository and outputs of
agents, for pages nested to any depth (`Depth`; the code walks a page to its end), from
`RequestsArePlain`, `ProfilesAreWhole`, `BoundsAre` and `NoneIsNothing` of
`PlannedOutputs`:

- `OutputsArePlanned`, in three parts, none of which needs an invariant, because no
  variable is read. *What is accepted was planned* (`AcceptedIsPlanned`): every import of
  an accepted page is one the plan expects and every component it uses is bound by such an
  import; the definition carries the digest of the very page; every other path is below a
  directory with the name of the change. *What was planned is accepted*
  (`HonestIsAccepted`): the planned paths are plain (`FilesAre`), none is below a planned
  directory or has the name of a configuration file (`FileIsAllowed`), and the page passes
  import by import and, level by level, node by node (`ImportIs`, `NodesWithin`), made of
  blocks or laid out. *A profile leads where the operator's does* (`ProfileLeads`): a place
  named from the directory of the profile and resolved there again is the same place
  (`ThereAgain`, on the longest common beginning of two paths), so naming it from the root
  and resolving that in a copy leads to the same place in the copy; and the copy of the
  profile that is found is of use exactly if it is the plan's own and its writer did not
  die half-way.

`RequestsArePlain` is the pattern of `request-input.schema.json`; `ProfilesAreWhole` says
that what was prepared has the fields its preparation reads, and names places by segments.

`CandidateSealsProofs`, for any set of histories and any number of disturbances, from
`CandidateSealsConstants` and `NoneIsNoDigest`:

- `LoadingIsWhole`, `PublishingIsWhole` and `AuditingIsWhole`. What has been checked stays
  true of what was read, because later steps read other files, or the same ones and check
  them again (`Loaded`, `Checked`); from all the checks together follows, file by file,
  that the content is that of the history Gate 2 names. `AuditingIsWhole` needs no bound on
  what is replaced only because no audit that reads a dossier is accepted
  (`dossier_refused`): the dossier is read twice, and with that defect repaired TLC finds
  `AuditedIsOne` violated when eight files are replaced between the two readings.
- `HonestyIsRewarded`: every comparison of two undisturbed files of one history succeeds.

`ProcessGroupsProofs`, for every leader, child and timing, from `ProcessGroupsConstants`:

- `SettledGone`. A runner looks at the group and settles in one step; what keeps its
  answer true is that a group that is gone cannot come back (`GoneStays`), because a
  leader that has been waited for is dead and starts no child any more (`ReapedIsGone`).

`ReleaseProofs`, for any pull requests, heads, runs, attempts and uploads, whatever fails,
from `ReleaseConstants`:

- `ApprovedWithPictures` and `ServedWasApproved`, without hypotheses: what GitHub, the
  workers and the evidence branch hold only grows, so what a run has seen there stays. The
  invariant says what each label of a run has seen. That production was approved holds also
  of a deployment that took effect and reported a failure, and of one promoted by hand.
- `WayBackRecorded`, `PicturesShowTheirCommit`, `NeverBack` suppose the concurrency group of
  `production.yml` or `shared-preview.yml` (`Serial`) and name it: the deployment of
  production and the shared address may be replaced under a run, and only the group keeps
  other runs away (`SerialRuns`). That no two commits share a tag is part of the model: a
  tag is a commit.

and for any sets of trees, requests, contexts, captures, uploads, deployments, answers and
worlds, from `BundleConstants` and `EvidenceConstants`:

- `SealsAreWhole`, supposing only that trees are functions from names to files. The hash
  binds the list of files (`VerifiedIsSealed`), and a list of files binds the tree, because
  only regular files are accepted (`SameFiles`): a mixture of two artifacts that is
  accepted is one of them.
- `ReleasesAreAccounted`. What a record says is traced back job by job (`SmokedOf`,
  `RollbackOf`, `AuthorizedOf`): each one compares run and commit of every file
  it is given, so the files of a record are of one run, and the run of an authorization
  determines its approved head.
- `CommentsAreTrue`. A capture is *described*: its manifest has exactly the pictures that
  its context asks for, and says of each which commit it shows. Publishing takes the
  part of each role to a directory that names its commit (`PlanOfRole`), or finds there
  what it would have put; so every directory of a publication is true (`DirectoryIsTrue`),
  whether this run or another one wrote it, and the links of a comment are the files of
  the directories of its publication. The other half, that what a job writes the next one
  accepts, follows each document from writer to reader (`RequestIsNormalized`,
  `ExpectedIsTaken`, `OwnLoads`, `OwnIsAnnounced`).
- `EvidenceIsPublishedWhole`. Installing one or two plans and undoing any beginning of it
  gives the branch back (`AllOrNothing`); a repetition finds every directory there and
  plans nothing (`NewPlans` is empty).
- `TruthIsPublished` is what allows `EvidenceConstants` to suppose that the evidence of a
  world loads and shows its commits: `publish` adds nothing else to the branch.

The assumptions say what the code makes sure of before these documents exist: a draft has
the fields of a request, a context is what `resolve` writes of an accepted request, and a
run resolves one context. `NoneIsNoDocument`, that `null` is none of the records, is a
hypothesis of the theorems that need it and not an assumption, because TLC cannot evaluate
it: it quantifies over all values.

Left to TLC:

- Liveness (`EventuallyServed`, `NoLimbo`, `GroupEnds`, `Settles`), which TLAPS does not
  reach under fairness.

## Where code and documents disagree

1. `stale_guard_race`. `reclaimStaleRecoveryGuard` judges the guard it read and then
   renames whatever the path names by then. Its comparison afterwards puts a live guard
   back, but in between a third caller has obtained the guard too, and two callers are
   in `acquireLockUnderGuard`, where a lock is unlinked by path. The plan
   (`docs/superpowers/plans/2026-08-21-astro-04-ingestion-publication.md:210`) says a
   lock is broken only when its process does not exist. The same gap can leave a guard
   behind that names a process which no longer waits (`restoreQuarantinedGuard` after
   its owner looked for it): `NoOrphans`, proved under `GuardNeverStale`, is false
   otherwise.
2. `correction_refused`. The run for a corrected head uploads the unchanged base again
   under the tag of the first run, and `verifyListedVersion` wants exactly one version with
   it. The runbook (`docs/operations/production-release-runbook.md:389`) says that the new
   SHA must produce new previews.
3. `dossier_refused`. `generate` writes only the staged validations into the attempt, and
   the audit of a recorded dossier asks the attempt for all validations of the candidate;
   `docs/operations/ingestion.md:132` describes the pair as verifiable.

## Observations

What the models showed besides, without a run of its own. Some are deliberate choices of
the code; a maintainer should know all of them.

*Store.* When `state.json` is replaced and `fsyncDirectory` then throws, the journal is
rolled back and `state.json` is not; the change is refused for ever (the tests cover a
write that fails before its rename). A reader can have seen that record. The stale lock is
gone before its recovery is recorded: a caller that fails in between leaves none. A change
whose record is refused is opened by the next caller without a `lock-recovered` event;
its callback cannot transition, but runs.

*Controller.* A failed `generate` leaves the state at `gate1_approved` and the next one
overwrites its attempt record, although the design wants failed attempts kept
(`docs/superpowers/specs/2026-08-21-astro-parity-ingestion-design.md:330,371`).
`requiresPlan` does not except `normalized`, so the audit answers `ok: false` between
`receive` and `plan`. Three situations have no way forward but a rejection: a death
between `received` and `normalized`, a death between the validated attempt and its
transition (which the audit reports), and a `main` that moved past the plan. The
directories of an attempt that died, or that `candidateDirectories` left half made, are
refused for ever (`mkdir` without `recursive`).

*Intake and planning.* A `.md` page can never carry accepted metadata (frontmatter
always adds content, which `parseMetadata` refuses). A directory whose names are not NFC
is refused as a collision when it holds anything, an archive is not. An archive may hold
both `a.css` and `a.css/x.css`. A package is read twice and only its change id compared.
Pages are scanned for secrets, request files are not. The sanitized profile is linked
before its temporary is removed; a death in between leaves two links and a profile that
every later reading refuses (`planning/plan.ts:551`). A change plan carries no privacy; a
planned dependency can never be accepted; a stylesheet is planned but refused in blocks
mode. A change named `package`, `package-lock`, `tsconfig` or `wrangler` is valid and is
planned, but `forbiddenConfig` goes by the last segment of a path and refuses its
definition `src/content/generated/package.json`: no output of it can be accepted. A file
in place of a planned directory escapes the checks of assets and components,
and a `client:` directive on an element passes (both inert; `OutputIsPlanned` excepts
them). `/index` and `/` share a file while `routeExists("/index")` is false.

*Hand-off.* `policy.ts:1366`: after the reference exists and a later step failed, running
the attempt again is refused for ever. A death between the manifest and the reference
leaves a candidate that cannot be loaded. `assertControllerExecutionCopy` hashes only the
approved files again. The generated files an agent declares are never compared.

*Seals.* The audit does not compare the environments of the two gates. Not bound: the
times and generated files of an attempt, the fields of a request other than its id and
input. Capture, manifest and verification disagree at limits: a manifest is sealed without
a limit and read with one of 64 KiB (`bundle.ts:439,787`), so a build of more than some 430
files is never verifiable; a capture may hold 1,000 failing requests, evidence refuses more
than 100 foreign origins; only the first 100 comments are read (`github.ts:970`).

*Processes.* `GroupEnds` does not hold of an agent, Wrangler and the dry run, nor
`SettledMeansGone` of a visual comparison that succeeded: they settle when the leader
closes. A dry build whose leader a signal ended is reported as "no terminó después de
SIGKILL" although it is gone. A preview whose first `stop()` failed ignores the second. Two
concurrent `startCandidatePreview` both pass `candidatePreviewPids.has`.

*Promotion.* Two writers of the publication events can lose one (no document promises
otherwise). With a late effect of `update-ref` the outcome can be reported wrongly.

*Release.* The shared preview never checks the approval that step 2 of runbook §5.4
mentions; production does. A retry after a successful upload is refused for ever, because
two versions carry the tag. A deployment that took effect and reported a failure changes
production and leaves no rollback descriptor. The approval may change between
reauthorization and deployment; `main` may move between the second check and the
deployment (the concurrency group keeps the order). A second record of production, and the
evidence of an unchanged base for a second head or pull request (`baseline/<base-sha>`),
collide with the first and are refused. Descriptors bind neither run nor pull request, and
tags carry seven characters of the commit.

## What is not modelled

- Contents: schemas, hashes and signatures as computations, the wording of prompts and
  results, the parsing of YAML, HTML, CSS and imports (the rules take what parsing finds).
  Percentages of visual comparisons are integers; SHA-256 does not collide.
- `preview`, `status` and `dispose` change no durable state; the cache of session
  candidates only decides which equal object is used. The leases of fixture prompts live in
  the memory of a test.
- The command line, which parses arguments and calls one operation.
- What build, lint, tests and an agent compute: a verdict. Evidence roots of a validation
  and their files. Other uses of process ids: that a pid is used again is not modelled.
- The parity scripts (input and output of external tools), pages, styles and content.
- Routing, private area, quote and interest: pure functions of one request and a single
  insert, which unit tests reach.
- Loss of unsynchronized data when the machine stops: `writeAtomic` synchronizes file
  and directory, and the models let processes die, not disks forget.
- Tampering with the controller's own private files, except where a property speaks of
  it (`seals`, the strays of `handoff`).

## Running it

`tlc -config <run>.cfg <module>` with the module named in `PROJECT.json`; the longest runs
(`store`, `handoff`, `release`, `seals`) take one to two minutes on two workers, the others
less. `tlapm <module>` with `ChangeLockProofs`, `ChangeStoreProofs`,
`IngestControllerProofs`, `PromotionProofs`, `HandoffProofs`, `CandidateSealsProofs`,
`ProcessGroupsProofs` and `ReleaseProofs`; the last one takes some four minutes,
`HandoffProofs` and `IngestControllerProofs` three, the others less than two.
