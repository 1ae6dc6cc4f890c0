----------------------------- MODULE EvidenceChain -----------------------------
(***************************************************************************)
(* The documents of the evidence pipeline (scripts/preview-evidence).      *)
(* Release says when the jobs of a run act; here is what each job accepts  *)
(* of the files that earlier jobs left: the context of the run, the        *)
(* descriptors of what was uploaded, the pictures with their manifest, the *)
(* evidence branch and the publication that the comments are made from.    *)
(* No job has seen another one's work: only these rules keep the files of  *)
(* two runs apart.                                                         *)
(*                                                                         *)
(* Texts, formats and addresses are abstracted to what they identify, a    *)
(* hash to what it is the hash of.                                         *)
(***************************************************************************)
EXTENDS Naturals, Sequences, FiniteSets, Functions

CONSTANTS
  Drafts,    \* request files as people write them
  Contexts,  \* what resolve found for the runs there are
  Answers,   \* how a deployed page may answer
  Takes,     \* the pictures of two takes may differ
  Absent,    \* a field that is not there
  None       \* null, and no result

Roles == {"base", "candidate", "release"}
Viewports == {"desktop", "mobile"}
Statuses == {200, 301, 302, 307, 308, 404, 410}

-----------------------------------------------------------------------------
(***************************************************************************)
(* The request of a pull request (request.ts).                             *)
(***************************************************************************)
\* requireSelector: null or nothing for a page, a selector for a section.
SelectorOf(draft) ==
  IF draft.scope = "page"
  THEN IF draft.selector \in {None, Absent} THEN {None} ELSE {}
  ELSE {draft.selector} \ {None, Absent}

\* validateEvidenceRequestValue, for a file whose path names an issue.
RequestOf(draft, issue) ==
  IF /\ draft.issue = issue /\ draft.scope \in {"page", "section"}
     /\ draft.public
     /\ {draft.expected.base, draft.expected.candidate} \subseteq Statuses
  THEN {[draft EXCEPT !.selector = selector] : selector \in SelectorOf(draft)}
  ELSE {}

\* validateNormalizedEvidenceRequest: what was read before is read again.
Normalized(request, issue) == RequestOf(request, issue) = {request}

-----------------------------------------------------------------------------
(***************************************************************************)
(* The context of a run (github.ts, and capture.ts for a release).         *)
(***************************************************************************)
RolesOf(context) == IF context.kind = "release" THEN {"release"} ELSE {"base", "candidate"}

\* validateStoredPullRequestContext.
StoredPullRequest(context) ==
  /\ context.kind = "pull-request"
  /\ Normalized(context.request, context.path) /\ context.request.issue = context.issue

\* validateReleaseCaptureContext.
StoredRelease(context) ==
  /\ context.kind = "release"
  /\ Normalized(context.request, context.path) /\ context.request.issue = context.issue

Stored(context) == StoredPullRequest(context) \/ StoredRelease(context)

\* readPullRequestContext and readReleaseCaptureContext: the file that the
\* resolve job announced, by its hash.
Read(file, sha256) == file = sha256 /\ Stored(file)

-----------------------------------------------------------------------------
(***************************************************************************)
(* The descriptor of an uploaded version (cloudflare.ts).  It names no run *)
(* and, but for its tag, no pull request.                                  *)
(***************************************************************************)
VersionIdentity(role, sha, pr) ==
  [role |-> role, sourceSha |-> sha, pr |-> IF role = "release" THEN None ELSE pr]

\* upload-version, with the context of its run: the version is of that upload.
Uploaded(context, role) ==
  LET tag == VersionIdentity(role, context.source[role], context.pr)
  IN [role |-> role, sourceSha |-> context.source[role],
      versionId |-> <<context.run, role>>, tag |-> tag, url |-> tag]

Descriptors == UNION {{Uploaded(c, role) : role \in RolesOf(c)} : c \in Contexts}

\* validateCloudflareVersionDescriptor.
ValidDescriptor(d) ==
  d.tag = VersionIdentity(d.role, d.sourceSha, d.tag.pr) /\ d.url = d.tag

\* checkedDescriptor.
Checked(d, role, sha) == ValidDescriptor(d) /\ d.role = role /\ d.sourceSha = sha

-----------------------------------------------------------------------------
(***************************************************************************)
(* Pictures (capture.ts).                                                  *)
(***************************************************************************)
\* A pair of statuses has one for the base and one for what replaces it.
StatusOf(pair, role) == IF role = "base" THEN pair.base ELSE pair.candidate

Kinds(selector) == IF selector = None THEN {"page"} ELSE {"page", "section"}

\* PlaywrightBrowserAdapter.capture: one page in a context of its own, with thirty
\* seconds for everything.  The status is that of the first answer, before any
\* redirection; a section is photographed when it is one and it is visible.
Taken(answer, role, selector) ==
  IF answer.fault \in {"slow", "tall"} THEN None
  ELSE [status |-> StatusOf(answer.status, role), visible |-> answer.fault # "hidden",
        pngs |-> (Kinds(selector) \ {answer.fault}) \cup ({answer.fault} \cap {"huge"}),
        failed |-> answer.fault = "own", foreign |-> answer.foreign]

\* failedOrigins: what failed at the page's own address, and the third parties.
FailedOrigins(taken) == [own |-> taken.failed, foreign |-> taken.foreign]

\* validatePng: a picture within its limits, of the size of its viewport.
ValidPng(png) == png \in {"page", "section"}

\* captureRecord on what the browser took: the status, a visible document, no
\* failure of its own, its pictures.  A third party that fails is only counted.
GoodAnswer(answer, variant, selector) ==
  LET taken == Taken(answer, variant.role, selector)
  IN /\ taken # None
     /\ taken.status = variant.expected /\ taken.visible
     /\ ~FailedOrigins(taken).own
     /\ \A kind \in Kinds(selector) : kind \in taken.pngs
     /\ \A png \in taken.pngs : ValidPng(png)

\* A role's part of a capture: what it shows, where and under which names.
Variant(role, descriptor, url, expected, prefix) ==
  [role |-> role, descriptor |-> descriptor, url |-> url, expected |-> expected,
   prefix |-> prefix]

Picture(variant, viewport, kind, take) ==
  [shows |-> variant.descriptor.sourceSha, of |-> variant.role,
   viewport |-> viewport, kind |-> kind, take |-> take]

\* captureRecord, for one picture.
CaptureRecord(context, variant, answer, viewport, kind, take) ==
  [role |-> variant.role, kind |-> kind, sourceSha |-> variant.descriptor.sourceSha,
   versionId |-> variant.descriptor.versionId, url |-> variant.url,
   route |-> context.request.route, status |-> StatusOf(answer.status, variant.role), viewport |-> viewport,
   selector |-> context.request.selector, filename |-> <<variant.prefix, viewport, kind>>,
   sha256 |-> Picture(variant, viewport, kind, take),
   foreign |-> FailedOrigins(Taken(answer, variant.role, context.request.selector)).foreign]

\* captureEvidence, and the directory that writeCaptureSet leaves: all the
\* pictures of all the variants, or nothing.
CaptureEvidence(context, variants, answer, take, attempt) ==
  LET selector == context.request.selector
      records == {CaptureRecord(context, v, answer, w, k, take) :
                    v \in variants, w \in Viewports, k \in Kinds(selector)}
  IN IF \A v \in variants : GoodAnswer(answer, v, selector)
     THEN [manifest |->
             [kind |-> context.kind, issue |-> context.issue, pr |-> context.pr,
              path |-> context.path, route |-> context.request.route, selector |-> selector,
              source |-> context.source, capturedAt |-> take, run |-> context.run,
              attempt |-> attempt, captures |-> records],
           files |-> [name \in {r.filename : r \in records} |->
                        (CHOOSE r \in records : r.filename = name).sha256]]
     ELSE None

\* capturePullRequestEvidence.
CapturePullRequest(context, base, candidate, answer, take, attempt) ==
  IF /\ StoredPullRequest(context)
     /\ Checked(base, "base", context.source.base)
     /\ Checked(candidate, "candidate", context.source.candidate)
     /\ base.versionId # candidate.versionId /\ base.url # candidate.url
  THEN CaptureEvidence(context,
         {Variant("base", base, base.url, context.request.expected.base, "before"),
          Variant("candidate", candidate, candidate.url,
                  context.request.expected.candidate, "after")},
         answer, take, attempt)
  ELSE None

\* captureReleaseEvidence: the address is that of the shared preview.
CaptureRelease(context, release, answer, take, attempt) ==
  IF StoredRelease(context) /\ Checked(release, "release", context.source.release)
  THEN CaptureEvidence(context,
         {Variant("release", release, "shared", context.request.expected.candidate, "release")},
         answer, take, attempt)
  ELSE None

\* capture-pr and capture-release, with the context that resolve announced.
CapturePr(file, sha256, base, candidate, answer, take, attempt) ==
  IF Read(file, sha256)
  THEN CapturePullRequest(file, base, candidate, answer, take, attempt) ELSE None

CaptureReleasePr(file, sha256, release, answer, take, attempt) ==
  IF Read(file, sha256) THEN CaptureRelease(file, release, answer, take, attempt) ELSE None

\* What a second capture may change of a manifest.
StableProjection(manifest) == [manifest EXCEPT !.capturedAt = None, !.attempt = None]

-----------------------------------------------------------------------------
(***************************************************************************)
(* The evidence branch (evidence.ts).  It reads the directory of a capture *)
(* with rules of its own, and its own directories with the same ones.      *)
(***************************************************************************)
Prefix == [base |-> "before", candidate |-> "after", release |-> "release"]
ManifestFile == <<"manifest.json">>
CanonicalFilename(role, viewport, kind) == <<Prefix[role], viewport, kind>>

\* validateCaptureRecord.
ValidRecord(record, manifest) ==
  /\ record.route = manifest.route /\ record.selector = manifest.selector
  /\ record.kind = "section" => manifest.selector # None
  /\ record.filename = CanonicalFilename(record.role, record.viewport, record.kind)
  /\ record.status \in Statuses
  /\ record.foreign # "many"

\* Every picture of these roles.
Filenames(roles, kinds) ==
  {CanonicalFilename(role, w, k) : role \in roles, w \in Viewports, k \in kinds}

ActiveRoles(source) == {role \in Roles : source[role] # None}

\* The source of a manifest is of its kind.
SourceOfKind(kind, source) ==
  IF kind = "release" THEN ActiveRoles(source) = {"release"}
  ELSE ActiveRoles(source) # {} /\ ActiveRoles(source) \subseteq {"base", "candidate"}

\* validateCaptureManifest: exactly the pictures that the source asks for, those
\* of a role of one version, those of two roles of two.
ValidManifest(m) ==
  LET records == m.captures
      of(role) == {r \in records : r.role = role}
      identity(r) == <<r.sourceSha, r.versionId, r.url, r.status>>
  IN /\ m.path = m.issue
     /\ SourceOfKind(m.kind, m.source)
     /\ \A r \in records : ValidRecord(r, m) /\ r.role \in ActiveRoles(m.source)
     /\ {r.filename : r \in records} = Filenames(ActiveRoles(m.source), Kinds(m.selector))
     /\ \A r, s \in records : r.filename = s.filename => r = s
     /\ \A role \in ActiveRoles(m.source) :
          /\ \A r \in of(role) : r.sourceSha = m.source[role]
          /\ Cardinality({identity(r) : r \in of(role)}) = 1
     /\ {"base", "candidate"} \subseteq ActiveRoles(m.source) =>
          \A r \in of("base"), s \in of("candidate") :
            r.versionId # s.versionId /\ r.url # s.url

\* loadCapture: the manifest, every picture it lists, and no other file.
Loads(set) ==
  /\ ValidManifest(set.manifest)
  /\ DOMAIN set.files = {r.filename : r \in set.manifest.captures}
  /\ \A r \in set.manifest.captures : set.files[r.filename] = r.sha256

\* Mutant of MatchesContext: the run of the capture is not compared.
MatchesRequest(m, context) ==
  /\ m.kind = context.kind /\ m.issue = context.issue /\ m.pr = context.pr
  /\ m.source = context.source

\* assertManifestMatchesContext.
MatchesContext(m, context) ==
  /\ m.kind = context.kind /\ m.issue = context.issue /\ m.pr = context.pr
  /\ m.path = context.path /\ m.route = context.request.route
  /\ m.selector = context.request.selector
  /\ m.run = context.run /\ m.source = context.source
  /\ \A r \in m.captures :
       r.status = StatusOf(context.request.expected, r.role)

\* roleManifest: the part of a capture that one directory keeps.
RoleManifest(m, role) ==
  [m EXCEPT !.source = [r \in Roles |-> IF r = role THEN @[r] ELSE None],
            !.captures = {r \in @ : r.role = role}]

Group == [base |-> "baseline", candidate |-> "candidates", release |-> "releases"]
RoleDirectory(issue, role, sha) == <<issue, Group[role], sha>>

\* The directory that a role asks for.
PlanOf(set, context, role) ==
  LET manifest == RoleManifest(set.manifest, role)
      names == {r.filename : r \in manifest.captures}
  IN [role |-> role, sourceSha |-> set.manifest.source[role],
      directory |-> RoleDirectory(context.issue, role, set.manifest.source[role]),
      content |-> [manifest |-> manifest, files |-> Restrict(set.files, names)]]

Plans(set, context) ==
  LET plan(role) == PlanOf(set, context, role)
  IN IF context.kind = "release" THEN <<plan("release")>>
     ELSE <<plan("base"), plan("candidate")>>

\* rolePaths.
Paths(directory, names) == {<<directory, name>> : name \in names \cup {ManifestFile}}

\* verifyExistingPlan: what is there is what would be written, but for the time
\* and the attempt.
SameAsExisting(plan, branch) ==
  LET existing == branch[plan.directory]
  IN /\ Loads(existing)
     /\ StableProjection(existing.manifest) = StableProjection(plan.content.manifest)
     /\ \A name \in DOMAIN plan.content.files :
          name \in DOMAIN existing.files /\ existing.files[name] = plan.content.files[name]

\* publicationEntry.
Entry(plan) ==
  [sourceSha |-> plan.sourceSha, directory |-> plan.directory,
   previewUrl |-> (CHOOSE r \in plan.content.manifest.captures : TRUE).url,
   pngs |-> DOMAIN plan.content.files]

\* validatePublishedEntry: canonical names in the canonical directory.
ValidEntry(entry, issue, role, sha) ==
  /\ entry.sourceSha = sha /\ entry.directory = RoleDirectory(issue, role, sha)
  /\ \E kinds \in {{"page"}, {"page", "section"}} :
       entry.pngs = Filenames({role}, kinds)

\* validatePublishEvidenceResult.
ValidPublication(p) ==
  LET roles == IF p.kind = "release" THEN {"release"} ELSE {"base", "candidate"}
  IN /\ ActiveRoles(p.source) = roles /\ DOMAIN p.entries = roles
     /\ \A role \in roles : ValidEntry(p.entries[role], p.issue, role, p.source[role])
     /\ \A r, s \in roles : r # s => p.entries[r].previewUrl # p.entries[s].previewUrl
     /\ p.added \cap p.existing = {}
     /\ p.added \cup p.existing =
          UNION {Paths(p.entries[role].directory, p.entries[role].pngs) : role \in roles}

\* What publishing a set of one or two roles would add to the branch, in order,
\* and report.
NewPlans(plans, branch) ==
  LET new(i) == IF plans[i].directory \in DOMAIN branch THEN <<>> ELSE <<plans[i]>>
  IN IF Len(plans) = 1 THEN new(1) ELSE new(1) \o new(2)

Publication(plans, context, branch) ==
  LET of == [role \in {plans[i].role : i \in DOMAIN plans} |->
               CHOOSE plan \in {plans[i] : i \in DOMAIN plans} : plan.role = role]
      paths(there) ==
        UNION {Paths(of[role].directory, DOMAIN of[role].content.files) : role \in
                 {r \in DOMAIN of : (of[r].directory \in DOMAIN branch) = there}}
  IN [kind |-> context.kind, issue |-> context.issue, pr |-> context.pr,
      source |-> context.source, run |-> context.run,
      entries |-> [role \in DOMAIN of |-> Entry(of[role])],
      added |-> paths(FALSE), existing |-> paths(TRUE)]

\* Everything that is looked at before the first directory is made.
Publishable(set, context, branch) ==
  LET plans == Plans(set, context)
  IN /\ Stored(context) /\ Loads(set) /\ MatchesContext(set.manifest, context)
     /\ \A i \in DOMAIN plans :
          plans[i].directory \in DOMAIN branch => SameAsExisting(plans[i], branch)
     /\ ValidPublication(Publication(plans, context, branch))

Install(branch, plans) ==
  [d \in DOMAIN branch \cup {plans[i].directory : i \in DOMAIN plans} |->
     IF d \in DOMAIN branch THEN branch[d]
     ELSE (CHOOSE plan \in {plans[i] : i \in DOMAIN plans} : plan.directory = d).content]

\* Mutant of Undone: the staging directories are removed and nothing else.
StagingRemoved(reached, staged, installed) ==
  [reached EXCEPT !.staging = @ \ staged]

\* The handler of publishEvidenceToCheckout: what was staged and what was
\* installed is removed.
Undone(reached, staged, installed) ==
  [branch |-> Restrict(reached.branch, DOMAIN reached.branch \ installed),
   staging |-> reached.staging \ staged]

\* The steps are: stage every new plan, install every one, verify every one.
\* stagePlan and installStagedPlan clean up after themselves when they fail.
FailedAt(step, branch, plans) ==
  LET n == Len(plans)
      staged == 1 .. (IF step <= n THEN step - 1 ELSE n)
      installed == {i \in 1 .. n : n + i < step}
      failing == {i \in 1 .. n : n + i = step}
      dirs(set) == {plans[i].directory : i \in set}
      reached == [branch |-> Install(branch, SubSeq(plans, 1, Cardinality(installed))),
                  staging |-> dirs(staged \ (installed \cup failing))]
  IN Undone(reached, dirs(staged \ installed), dirs(installed))

\* publishEvidenceToCheckout; step is the one that fails, 0 when none does.
Publish(set, context, branch, step) ==
  LET plans == NewPlans(Plans(set, context), branch)
      refused == [publication |-> None, branch |-> branch, staging |-> {}]
  IN IF ~Publishable(set, context, branch) THEN refused
     ELSE IF step = 0
     THEN [refused EXCEPT !.publication = Publication(Plans(set, context), context, branch),
                          !.branch = Install(branch, plans)]
     ELSE LET left == FailedAt(step, branch, plans)
          IN [refused EXCEPT !.branch = left.branch, !.staging = left.staging]

\* publish-evidence and publish-release-evidence.
PublishEvidence(set, file, sha256, branch) ==
  IF Read(file, sha256) THEN Publish(set, file, branch, 0)
  ELSE [publication |-> None, branch |-> branch, staging |-> {}]

-----------------------------------------------------------------------------
(***************************************************************************)
(* The comments (github.ts).                                               *)
(***************************************************************************)
\* validateEvidenceCommentInput and validateReleaseEvidenceCommentInput.
Announceable(context, p) ==
  /\ Stored(context) /\ ValidPublication(p)
  /\ p.kind = context.kind /\ p.issue = context.issue /\ p.pr = context.pr
  /\ p.source = context.source /\ p.run = context.run

\* evidenceCommentBody and releaseEvidenceCommentBody: the files they link.
Links(p) ==
  UNION {Paths(p.entries[role].directory, p.entries[role].pngs) : role \in DOMAIN p.entries}

\* comment-evidence and comment-release-evidence.
CommentEvidence(file, sha256, publication) ==
  IF Read(file, sha256) /\ Announceable(file, publication) THEN Links(publication) ELSE {}

-----------------------------------------------------------------------------
(***************************************************************************)
(* Properties                                                              *)
(***************************************************************************)
\* A capture with whatever descriptors the job was given.
CapturesOf(context, answer, take, attempt) ==
  (IF context.kind = "release"
   THEN {CaptureReleasePr(context, context, d, answer, take, attempt) : d \in Descriptors}
   ELSE {CapturePr(context, context, d, e, answer, take, attempt) :
           d \in Descriptors, e \in Descriptors}) \ {None}

\* The capture of a run that was given its own descriptors.
OwnCapture(context, answer, take, attempt) ==
  IF context.kind = "release"
  THEN CaptureRelease(context, Uploaded(context, "release"), answer, take, attempt)
  ELSE CapturePullRequest(context, Uploaded(context, "base"),
                          Uploaded(context, "candidate"), answer, take, attempt)

AsExpected(answer, context) ==
  answer.fault = None /\ answer.status = context.request.expected

Captures ==
  UNION {CapturesOf(c, answer, take, 1) : c \in Contexts, answer \in Answers, take \in Takes}

Nothing == [d \in {} |-> None]

\* The branch before and after some run published.
Branches ==
  {Nothing} \cup
  {Publish(s, c, Nothing, 0).branch : s \in Captures, c \in Contexts}

\* Whatever files of other runs the jobs of a run are handed, a comment that is
\* posted links pictures that are in the branch, all that the request asks for,
\* taken by that run for that issue and pull request, of the commits it names.
\* What was in the branch stays as it was.  And the readers of a document accept
\* what its writer wrote: a request that is accepted gives a context that is, a
\* capture that is taken can be published and its publication announced.  (A
\* page that calls more than a hundred failing origins is the exception: it is
\* photographed, and cannot be published.)
EvidenceIsTrue ==
  /\ \A set \in Captures, publisher \in Contexts, branch \in Branches :
       LET result == PublishEvidence(set, publisher, publisher, branch)
       IN result.publication # None =>
            \A file \in Contexts, context \in Contexts :
              LET links == CommentEvidence(file, context, result.publication)
              IN links # {} =>
                   /\ \A link \in links :
                        /\ link[1] \in DOMAIN result.branch
                        /\ LET there == result.branch[link[1]] IN
                             /\ there.manifest.run = context.run
                             /\ there.manifest.issue = context.issue
                             /\ there.manifest.pr = context.pr
                             /\ link[2] # ManifestFile =>
                                  there.files[link[2]].shows = link[1][3]
                   /\ {<<there.shows, there.viewport, there.kind>> : there \in
                         {result.branch[link[1]].files[link[2]] : link \in
                            {l \in links : l[2] # ManifestFile}}}
                      = {context.source[role] : role \in RolesOf(context)} \X Viewports
                          \X Kinds(context.request.selector)
  /\ \A set \in Captures, publisher \in Contexts, branch \in Branches :
       Restrict(Publish(set, publisher, branch, 0).branch, DOMAIN branch) = branch
  /\ \A draft \in Drafts : \A request \in RequestOf(draft, draft.issue) :
       Normalized(request, draft.issue)
  /\ \A context \in Contexts, answer \in Answers, take \in Takes :
       LET set == OwnCapture(context, answer, take, 1)
       IN /\ AsExpected(answer, context) => set # None
          /\ set # None /\ answer.foreign # "many" =>
               LET result == PublishEvidence(set, context, context, Nothing)
               IN /\ result.publication # None
                  /\ CommentEvidence(context, context, result.publication) # {}

\* Publishing is all or nothing: wherever it fails, the checkout is as it was.
\* Doing it again in another attempt, later, with the same pictures adds nothing.
PublishedWhole ==
  /\ \A set \in Captures, context \in Contexts, branch \in Branches :
       \A step \in 1 .. 3 * Len(NewPlans(Plans(set, context), branch)) :
         LET failed == Publish(set, context, branch, step)
         IN failed.branch = branch /\ failed.staging = {}
  /\ \A set \in Captures, context \in Contexts, branch \in Branches, take \in Takes :
       LET first == Publish(set, context, branch, 0)
           again == [set EXCEPT !.manifest.attempt = 2, !.manifest.capturedAt = take]
           second == Publish(again, context, first.branch, 0)
       IN first.publication # None =>
            /\ second.branch = first.branch
            /\ second.publication # None /\ second.publication.added = {}

=============================================================================
