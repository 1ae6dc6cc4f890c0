---------------------------- MODULE ReleaseDocuments ----------------------------
(***************************************************************************)
(* Release with the files that its jobs hand to one another: what a job of *)
(* it accepts of a bundle is SealedBundle, of a capture and of the         *)
(* evidence branch EvidenceChain, of a production release ProductionChain. *)
(*                                                                         *)
(* What those promise depends on no variable of Release: it is stated of   *)
(* the initial states, where TLC evaluates it once.                        *)
(***************************************************************************)
EXTENDS Release

CONSTANTS
  Config, Secrets, Trees, Identities,       \* of SealedBundle
  MaxFiles, MaxFileBytes, MaxTotalBytes, MaxDocument, ManifestRoom,
  Drafts, Contexts, Answers, Takes, Absent, \* of EvidenceChain
  Worlds, Asked, RunIds, Deployments,       \* of ProductionChain
  Uploading, Origins, SmokeAnswers, Times, Profiles

INSTANCE SealedBundle
Chain == INSTANCE ProductionChain

\* A tree is a function from names to files.
IsTree(t) ==
  t = [name \in DOMAIN t |-> [kind |-> t[name].kind, mode |-> t[name].mode,
                              bytes |-> t[name].bytes, what |-> t[name].what]]

ASSUME BundleConstants == \A t \in Trees : IsTree(t)

\* A request file, read as JSON.
IsDraft(draft) ==
  draft = [issue |-> draft.issue, scope |-> draft.scope, public |-> draft.public,
           route |-> draft.route, selector |-> draft.selector, expected |-> draft.expected]

\* What a resolve job writes: of a request that it read, with the commits of its kind.
IsResolved(context) ==
  /\ context.kind \in {"pull-request", "release"} /\ context.path = context.issue
  /\ \E draft \in Drafts : context.request \in Chain!RequestOf(draft, context.issue)
  /\ Chain!ActiveRoles(context.source) = Chain!RolesOf(context)

\* A directory that was published: it loads, and its pictures are of its commit.
IsTruthful(there) ==
  /\ Chain!Loads(there)
  /\ \A r \in there.manifest.captures : r.sha256.shows = r.sourceSha

ASSUME EvidenceConstants ==
  /\ \A draft \in Drafts : IsDraft(draft)
  /\ \A context \in Contexts : IsResolved(context)
  /\ \A c, d \in Contexts : c.run = d.run => c = d
  /\ None \notin {"page", "section", "hidden", "slow", "tall", "own", "huge"}
  /\ \A world \in Worlds : \A d \in DOMAIN world.evidence : IsTruthful(world.evidence[d])

\* A bundle that a job accepts is one that was sealed, whole, for what the job
\* expects, and what was sealed is accepted (bundle.ts).
BundlesAreWhole == Init => AcceptedIsSealed

\* A comment links pictures of the commits it names, taken by its own run, all
\* that the request asks for, whatever files of other runs its jobs were given;
\* and each document that a job writes is accepted by the jobs that read it
\* (request.ts, capture.ts, evidence.ts, github.ts).
EvidenceIsTrue == Init => Chain!EvidenceIsTrue

\* Publishing evidence adds both directories or none, wherever it fails, and a
\* repetition adds nothing (evidence.ts).
PublishedWhole == Init => Chain!PublishedWhole

\* A record of production names a commit that was approved and merged, with its
\* evidence, its version and the deployment that its own run replaced, and is
\* never written over (release.ts, cloudflare.ts).
ProductionIsAccounted == Init => Chain!ProductionIsAccounted
=============================================================================
