---------------------------- MODULE ProductionChain ----------------------------
(***************************************************************************)
(* The documents of a production release (scripts/preview-evidence/        *)
(* release.ts and the production half of cloudflare.ts): the context that  *)
(* an authorization leaves, the descriptors of the version and of the way  *)
(* back, the record of the smoke test and its place in the evidence        *)
(* branch.  Each job of the workflow reads the files of the earlier ones;  *)
(* the manifest that authorizes is one that EvidenceChain published.       *)
(***************************************************************************)
EXTENDS EvidenceChain, FiniteSetsExt

CONSTANTS
  Worlds,       \* what GitHub says at one time or another
  Asked,        \* commits that somebody asks to release
  RunIds,       \* runs of the production workflow
  Deployments,  \* the deployments that may be found in production
  Uploading,    \* what wrangler may say of an upload
  Origins,      \* what the address of production may be set to
  SmokeAnswers, \* what production may answer
  Times,        \* attempts of a run, and the time of each
  Profiles      \* operator profiles, decoded

(***************************************************************************)
(* A world is a record                                                     *)
(*   [main     : commits reachable from main,                              *)
(*    prs      : number -> [state, merged, merge, base, internal, head,    *)
(*                          commits, files, changed],                      *)
(*    statuses : commit -> its statuses, the newest first,                 *)
(*    evidence : the evidence branch]                                      *)
(***************************************************************************)

\* decodeProductionProfile and materializeProductionProfile: the profile of the
\* operator is prepared outside the project, and is of production or removed.
Materialized(profile) ==
  IF /\ profile.canonical /\ profile.bytes <= 64
     /\ profile.indexable /\ profile.worker = "production" /\ profile.database = "production"
  THEN [left |-> {"config"}, sha256 |-> profile] ELSE [left |-> {}, sha256 |-> None]

\* validateReleaseRoute.
PublicRoute(route) == route \notin {"/api", "/socios", "/guia-equipo"}

ManifestPath(issue, sha) == <<RoleDirectory(issue, "release", sha), ManifestFile>>

\* validateProductionReleaseContext.
ValidContext(c) ==
  /\ c.path = c.issue /\ PublicRoute(c.route) /\ c.expected \in Statuses
  /\ c.manifestPath = ManifestPath(c.issue, c.sourceSha)

\* writeProductionReleaseContext and readProductionReleaseContext.
ReadContext(file, sha256) == file = sha256 /\ ValidContext(file)

\* pullRequestFiles: all of them, or GitHub's answer is not trusted.
Complete(pull) == pull.changed \in 1 .. 300 /\ Cardinality(pull.files) = pull.changed

\* The pull request of a commit: merged from this repository into main as it.
MergedAs(pull, sha) ==
  /\ pull.state = "closed" /\ pull.merged /\ pull.merge = sha
  /\ pull.base = "main" /\ pull.internal

\* The one evidence request that it changes.
RequestsOf(pull) == {f \in pull.files : f.kind = "request"}
Releasable(pull) ==
  /\ Complete(pull) /\ \A f \in pull.files : f.kind # "drizzle"
  /\ Cardinality(RequestsOf(pull)) = 1
  /\ \A f \in RequestsOf(pull) : f.status \in {"added", "modified"}

\* decodeCanonicalManifest: what the evidence branch has at a path.
ManifestAt(world, path) ==
  IF path[1] \in DOMAIN world.evidence THEN world.evidence[path[1]].manifest ELSE None

\* It is the evidence of this commit, by the rules of the evidence branch.
ReleaseManifest(m, issue, number, sha) ==
  /\ m # None
  /\ ValidManifest(m) /\ m.kind = "release"
  /\ m.issue = issue /\ m.pr = number /\ m.path = issue
  /\ m.source = [base |-> None, candidate |-> None, release |-> sha]
  /\ PublicRoute(m.route)

\* The newest preview-approved status of the head decides.
HeadApproved(world, head) ==
  LET own == SelectSeq(world.statuses[head], LAMBDA s : s.context = "preview-approved")
  IN own # <<>> /\ own[1].state = "success"

\* authorizeProductionRelease.
Authorize(enabled, id, sha, world) ==
  LET associated == {n \in DOMAIN world.prs : sha \in world.prs[n].commits}
      number == CHOOSE n \in associated : TRUE
      pull == world.prs[number]
      issue == (CHOOSE f \in RequestsOf(pull) : TRUE).issue
      path == ManifestPath(issue, sha)
      manifest == ManifestAt(world, path)
      picture == CHOOSE r \in manifest.captures : TRUE
  IN IF /\ enabled = "true" /\ sha \in world.main
        /\ Cardinality(associated) = 1
        /\ MergedAs(pull, sha) /\ Releasable(pull)
        /\ ReleaseManifest(manifest, issue, number, sha)
        /\ HeadApproved(world, pull.head)
     THEN [run |-> id, sourceSha |-> sha, pr |-> number, issue |-> issue, path |-> issue,
           route |-> manifest.route, expected |-> picture.status, approved |-> pull.head,
           manifestPath |-> path, manifestSha256 |-> manifest, version |-> picture.versionId]
     ELSE None

\* reauthorizeProductionRelease: the same again, and nothing has changed.
Reauthorize(context, enabled, world) ==
  ValidContext(context) /\ Authorize(enabled, context.run, context.sourceSha, world) = context

-----------------------------------------------------------------------------
ProductionTag(sha) == <<"production", sha>>

\* parseProductionUploadOutput and validateVersionMetadata: what wrangler says of a
\* production version has no alias and no preview address.
UploadSaid(answer) == answer.lines = 1 /\ ~answer.alias /\ ~answer.preview

\* upload-production-version.
UploadProduction(file, sha256, answer) ==
  IF ReadContext(file, sha256) /\ UploadSaid(answer)
  THEN [sourceSha |-> file.sourceSha, versionId |-> <<file.run, file.sourceSha>>,
        tag |-> ProductionTag(file.sourceSha)]
  ELSE None

\* validateProductionVersionDescriptor.
ValidVersion(d) == d # None /\ d.tag = ProductionTag(d.sourceSha)

\* A deployment serves one or two versions, all the traffic between them.
WholeTraffic(versions) ==
  /\ Cardinality(versions) \in 1 .. 2
  /\ \A v \in versions : v.percentage \in 1 .. 100
  /\ MapThenSumSet(LAMBDA v : v.percentage, versions) = 100

\* validateProductionRollbackDescriptor.
ValidRollback(r) ==
  /\ r # None /\ r.previous.id # r.newDeployment
  /\ WholeTraffic(r.previous.versions)
  /\ \A v \in r.previous.versions : v.versionId # r.newVersion

\* deploy-production-version, with what production served before.
DeployProduction(file, sha256, descriptor, previous) ==
  LET rollback == [sourceSha |-> file.sourceSha, previous |-> previous,
                   newDeployment |-> <<file.run, descriptor.versionId>>,
                   newVersion |-> descriptor.versionId, runUrl |-> file.run]
  IN IF /\ ReadContext(file, sha256) /\ ValidVersion(descriptor)
        /\ descriptor.sourceSha = file.sourceSha
        /\ ValidRollback(rollback)
     THEN rollback ELSE None

-----------------------------------------------------------------------------
\* validateProductionUrl: a path of the configured origin and nothing else.
OnOrigin(origin, url) == origin.kind = "https" /\ url.origin = origin

\* Mutant of OfOneRun: the run that deployed is not compared.
OfOneVersion(context, descriptor, rollback) ==
  /\ descriptor.sourceSha = context.sourceSha /\ rollback.sourceSha = context.sourceSha
  /\ rollback.newVersion = descriptor.versionId

\* The three documents that the smoke test joins.
OfOneRun(context, descriptor, rollback) ==
  /\ descriptor.sourceSha = context.sourceSha /\ rollback.sourceSha = context.sourceSha
  /\ rollback.newVersion = descriptor.versionId
  /\ rollback.runUrl = context.run

\* smokeProduction, at the address of the route.
Smoke(context, descriptor, rollback, origin, answer, attempt, now) ==
  LET url == [origin |-> origin, path |-> context.route]
  IN IF /\ ValidContext(context) /\ ValidVersion(descriptor) /\ ValidRollback(rollback)
        /\ OfOneRun(context, descriptor, rollback)
        /\ OnOrigin(origin, url)
        /\ answer.status = context.expected /\ ~answer.redirected
     THEN [issue |-> context.issue, pr |-> context.pr, sourceSha |-> context.sourceSha,
           path |-> context.path, route |-> context.route, expected |-> context.expected,
           url |-> url, status |-> answer.status, checkedAt |-> now,
           run |-> context.run, attempt |-> attempt,
           version |-> [versionId |-> descriptor.versionId, tag |-> descriptor.tag],
           release |-> [path |-> context.manifestPath, sha256 |-> context.manifestSha256,
                        versionId |-> context.version],
           rollback |-> [previous |-> rollback.previous,
                         newDeployment |-> rollback.newDeployment,
                         newVersion |-> rollback.newVersion]]
     ELSE None

\* validateProductionSmokeRecord: the record is asked again what its parts were.
ValidSmoke(s) ==
  /\ s.path = s.issue /\ PublicRoute(s.route)
  /\ s.expected \in Statuses /\ s.status = s.expected
  /\ s.version.tag = ProductionTag(s.sourceSha)
  /\ s.release.path = ManifestPath(s.issue, s.sourceSha)
  /\ ValidRollback([sourceSha |-> s.sourceSha, runUrl |-> s.run, previous |-> s.rollback.previous,
                    newDeployment |-> s.rollback.newDeployment,
                    newVersion |-> s.rollback.newVersion])
  /\ s.rollback.newVersion = s.version.versionId
  /\ s.url.path = s.route /\ OnOrigin(s.url.origin, s.url)

\* smoke-production: the context announced, and two descriptors that nobody did.
SmokeProduction(file, sha256, descriptor, rollback, origin, answer, attempt, now) ==
  IF ReadContext(file, sha256)
  THEN Smoke(file, descriptor, rollback, origin, answer, attempt, now) ELSE None

RecordPath(s) == <<<<s.issue, "production", s.sourceSha>>, ManifestFile>>

\* publishProductionEvidence: append only; the same bytes are there already.
PublishRecord(s, branch) ==
  IF ~ValidSmoke(s) THEN [state |-> "refused", branch |-> branch]
  ELSE IF RecordPath(s) \notin DOMAIN branch
  THEN [state |-> "new",
        branch |-> [p \in DOMAIN branch \cup {RecordPath(s)} |->
                      IF p \in DOMAIN branch THEN branch[p] ELSE s]]
  ELSE [state |-> IF branch[RecordPath(s)] = s THEN "existing" ELSE "collision",
        branch |-> branch]

-----------------------------------------------------------------------------
(***************************************************************************)
(* Properties                                                              *)
(***************************************************************************)
Authorized ==
  {Authorize("true", id, sha, world) : id \in RunIds, sha \in Asked, world \in Worlds} \ {None}

Uploads == {UploadProduction(c, c, answer) : c \in Authorized, answer \in Uploading} \ {None}

Rollbacks ==
  {DeployProduction(c, c, d, previous) :
     c \in Authorized, d \in Uploads, previous \in Deployments} \ {None}

\* The records that smoke tests leave, whatever descriptors they were given.
Records ==
  {SmokeProduction(c, c, d, r, origin, answer, at[1], at[2]) :
     c \in Authorized, d \in Uploads, r \in Rollbacks,
     origin \in Origins, answer \in SmokeAnswers, at \in Times} \ {None}

\* The world that authorized: the commit is the merge of one pull request, its
\* head was approved, and the branch has these pictures of this commit.
Accounts(world, record) ==
  /\ record.sourceSha \in world.main
  /\ world.prs[record.pr].merge = record.sourceSha
  /\ HeadApproved(world, world.prs[record.pr].head)
  /\ record.release.path[1] \in DOMAIN world.evidence
  /\ LET there == world.evidence[record.release.path[1]]
     IN /\ there.manifest = record.release.sha256
        /\ \A name \in DOMAIN there.files : there.files[name].shows = record.sourceSha

\* Whatever files of other runs the jobs of a release are given: a record of
\* production names a merged commit whose head was approved when it was
\* authorized, the evidence of that commit in the branch, a version uploaded for
\* it, and the deployment that its own run replaced.  Its readers accept it, and
\* nothing that is recorded is ever replaced.  A release whose approval, pull
\* request or evidence is another one by then is not authorized again.
ProductionIsAccounted ==
  /\ \A record \in Records :
       /\ ValidSmoke(record)
       /\ \E world \in Worlds : Accounts(world, record)
       /\ \E c \in Authorized, d \in Uploads, previous \in Deployments :
            /\ c.run = record.run /\ c.sourceSha = record.sourceSha
            /\ d.versionId = record.version.versionId /\ d.sourceSha = record.sourceSha
            /\ LET r == DeployProduction(c, c, d, previous)
               IN r # None /\ r.newDeployment = record.rollback.newDeployment
            /\ previous = record.rollback.previous
  /\ \A first \in Records, second \in Records :
       LET once == PublishRecord(first, Nothing)
           twice == PublishRecord(second, once.branch)
       IN /\ once.state = "new"
          /\ Restrict(twice.branch, DOMAIN once.branch) = once.branch
          /\ twice.state = "existing" <=> first = second
  /\ \A context \in Authorized, world \in Worlds :
       Reauthorize(context, "true", world) =>
         /\ world.evidence[context.manifestPath[1]].manifest = context.manifestSha256
         /\ world.prs[context.pr].head = context.approved
         /\ HeadApproved(world, context.approved)
  /\ \A profile \in Profiles :
       Materialized(profile).left # {} =>
         profile.worker = "production" /\ profile.database = "production" /\ profile.indexable

=============================================================================
