-------------------------------- MODULE Release --------------------------------
(***************************************************************************)
(* The evidence and release pipeline (scripts/preview-evidence and the     *)
(* workflows that call it).  A pull request gets two previews, pictures of *)
(* them and a person's approval; what is merged goes to the shared preview *)
(* and is photographed there; what was approved and photographed may go to *)
(* production.  GitHub, Cloudflare, operators and any number of workflow   *)
(* runs act in between.  One remote call is one step.                      *)
(*                                                                         *)
(* A commit is <<p, n>>: the n-th head of pull request p, or its merge     *)
(* commit when n = 0.  A version is its place in the uploads of its worker.*)
(***************************************************************************)
EXTENDS Naturals, Sequences, FiniteSets, SequencesExt, FiniteSetsExt

CONSTANTS
  Prs,         \* pull requests
  Eligible,    \* the ones that are internal, have no migration and one request
  IssueOf,     \* the issue each one's request names
  Runs,        \* workflow runs
  KindOf,      \* "pr", "shared" or "production"
  Serial,      \* the kinds whose workflow has a concurrency group
  ListSize,    \* how many versions wrangler versions list shows
  MaxHead,     \* bound: the heads of each pull request
  MaxAttempt,  \* bound: the attempts of each run
  MaxLive,     \* bound: deployments of production after which nobody makes one by hand
  Faults,      \* what may fail: "before", "after", "github", "site"
  None

Kinds == {"pr", "shared", "production"}

ASSUME ReleaseConstants ==
  /\ Eligible \subseteq Prs /\ None \notin Prs
  /\ KindOf \in [Runs -> Kinds] /\ Serial \subseteq Kinds
  /\ {ListSize, MaxLive} \subseteq Nat \ {0}
  /\ MaxAttempt \in [Runs -> Nat \ {0}]
  /\ MaxHead \in [Prs -> Nat \ {0}]
  /\ Faults \subseteq {"before", "after", "github", "site"}

Merged(p) == <<p, 0>>
Initial == Merged(None)
Shas == UNION {{p} \X (0 .. MaxHead[p]) : p \in Prs} \cup {Initial}

VARIABLES
  main,      \* the pull requests merged, in order
  pr,        \* pr[p]: state, number of the head, base commit of the last push
  approved,  \* the commits with a preview-approved status
  preview,   \* uploads to the preview worker: their tags
  shared,    \* the version the shared preview serves
  product,   \* uploads to the production worker: their commits
  live,      \* the deployments of production: their versions
  evidence,  \* the manifests in the evidence branch
  comments,  \* where evidence comments were left
  run        \* run[r]: where the run is and what it carries

githubVars == <<main, pr, approved>>
cloudVars == <<preview, shared, product, live>>
recordVars == <<evidence, comments>>
vars == <<githubVars, cloudVars, recordVars, run>>

At(r, label) == run[r].at = label
Kind(r, k) == KindOf[r] = k
Running(r) == run[r].at \notin {"idle", "failed", "refused", "done"}

Tip == IF main = <<>> THEN Initial ELSE Merged(Last(main))
HeadSha(p) == <<p, pr[p].head>>

Idle == [at |-> "idle", attempt |-> 1, sha |-> Initial, base |-> Initial,
         baseVersion |-> 0, version |-> 0,
         shown |-> [base |-> Initial, head |-> Initial], sealed |-> {},
         previous |-> 0, deployed |-> 0]

\* The run goes on to a step, with some of what it carries replaced; when it has
\* ended it carries nothing, or the commit for which it was refused.
Become(r, value) == run' = [run EXCEPT ![r] = value]
Goto(r, label) == Become(r, [run[r] EXCEPT !.at = label])
End(r, label) ==
  Become(r, [Idle EXCEPT !.at = label, !.attempt = run[r].attempt,
                         !.sha = IF label = "refused" THEN run[r].sha ELSE Initial])
Fail(r) == End(r, "failed")

Init ==
  /\ main = <<>>
  /\ pr = [p \in Prs |-> [state |-> "open", head |-> 1, base |-> Initial]]
  /\ approved = {}
  /\ preview = <<>>
  /\ shared = 0
  /\ product = <<Initial, Initial>>
  /\ live = <<1>>
  /\ evidence = {}
  /\ comments = {}
  /\ run = [r \in Runs |-> Idle]

-----------------------------------------------------------------------------
(***************************************************************************)
(* GitHub and the people who use it.                                       *)
(***************************************************************************)
Push(p) ==
  /\ pr[p].state = "open" /\ pr[p].head < MaxHead[p]
  /\ pr' = [pr EXCEPT ![p].head = @ + 1, ![p].base = Tip]
  /\ UNCHANGED <<main, approved, cloudVars, recordVars, run>>

\* Nothing here asks for the approval: the rule of the branch may or may not.
Merge(p) ==
  /\ pr[p].state = "open"
  /\ main' = Append(main, p)
  /\ pr' = [pr EXCEPT ![p].state = "merged"]
  /\ UNCHANGED <<approved, cloudVars, recordVars, run>>

ClosePr(p) ==
  /\ pr[p].state = "open"
  /\ pr' = [pr EXCEPT ![p].state = "closed"]
  /\ UNCHANGED <<main, approved, cloudVars, recordVars, run>>

\* Another attempt: all the jobs again, for the event of the one that failed or
\* for a later one.
Rerun(r) ==
  /\ run[r].at \in {"failed", "refused"} /\ run[r].attempt < MaxAttempt[r]
  /\ Become(r, [Idle EXCEPT !.attempt = run[r].attempt + 1])
  /\ UNCHANGED <<githubVars, cloudVars, recordVars>>

\* A job may be cancelled, and a call to GitHub may fail.
GithubFails(r) ==
  /\ "github" \in Faults /\ Running(r)
  /\ run[r].at \in {"recheck", "reauthorize", "capture", "publish", "comment"}
  /\ Fail(r)
  /\ UNCHANGED <<githubVars, cloudVars, recordVars>>

\* Mutant of MayStart: the concurrency group is gone.
StartsAnyway(r) == At(r, "idle")

\* A workflow with a concurrency group runs once at a time.
MayStart(r) ==
  /\ At(r, "idle")
  /\ KindOf[r] \in Serial => \A q \in Runs : KindOf[q] = KindOf[r] => ~Running(q)

\* A run begins by resolving its event; one that does not resolve fails.
Start(r, ok, value) ==
  /\ MayStart(r)
  /\ IF ok THEN Become(r, value) ELSE Fail(r)
  /\ UNCHANGED <<githubVars, cloudVars, recordVars>>

-----------------------------------------------------------------------------
(***************************************************************************)
(* Wrangler.  A command that reports a failure may have had its effect.    *)
(***************************************************************************)
Outcomes == {"ok"} \cup (Faults \cap {"before", "after"})
Effective(o) == o # "before"

Preview(role, p, s) == [role |-> role, pr |-> p, sha |-> s]
BaseTag(r) == Preview("base", run[r].sha[1], run[r].base)
HeadTag(r) == Preview("head", run[r].sha[1], run[r].sha)
ReleaseTag(r) == Preview("release", None, run[r].sha)

Tag(r) ==
  IF Kind(r, "shared") THEN ReleaseTag(r)
  ELSE IF run[r].at \in {"uploadBase", "listBase"} THEN BaseTag(r) ELSE HeadTag(r)

\* The versions with this tag among the latest uploads.
Tagged(uploads, tag) ==
  {v \in 1 .. Len(uploads) : v > Len(uploads) - ListSize /\ uploads[v] = tag}

\* verifyListedVersion: the tag names the version just uploaded and no other.
ListsOnly(uploads, tag, v) == Tagged(uploads, tag) = {v}

\* The identifier that an upload prints.
NextVersion(uploads) == Len(uploads) + 1

\* uploadPreviewVersion: the upload ...
UploadPreview(r) ==
  /\ run[r].at \in {"uploadBase", "uploadHead", "upload"} /\ ~Kind(r, "production")
  /\ \E o \in Outcomes :
       /\ preview' = IF Effective(o) THEN Append(preview, Tag(r)) ELSE preview
       /\ \/ o # "ok" /\ Fail(r)
          \/ /\ o = "ok" /\ At(r, "uploadBase")
             /\ Become(r, [run[r] EXCEPT !.at = "listBase",
                                         !.baseVersion = NextVersion(preview)])
          \/ /\ o = "ok" /\ ~At(r, "uploadBase")
             /\ Become(r, [run[r] EXCEPT !.version = NextVersion(preview),
                           !.at = IF At(r, "upload") THEN "list" ELSE "listHead"])
  /\ UNCHANGED <<githubVars, shared, product, live, recordVars>>

\* The run goes on if the version it uploaded is listed.
Listed(r, uploads, tag, version, next) ==
  IF ListsOnly(uploads, tag, version) THEN Goto(r, next) ELSE End(r, "refused")

\* ... and the list of versions.
ListPreview(r) ==
  /\ ~Kind(r, "production")
  /\ \/ At(r, "listBase") /\ Listed(r, preview, Tag(r), run[r].baseVersion, "uploadHead")
     \/ At(r, "listHead") /\ Listed(r, preview, Tag(r), run[r].version, "capture")
     \/ At(r, "list") /\ Listed(r, preview, Tag(r), run[r].version, "deploy")
  /\ UNCHANGED <<githubVars, cloudVars, recordVars>>

\* uploadProductionVersion: the same with the production worker, whose tags are
\* the commits.
UploadProduction(r) ==
  /\ At(r, "upload") /\ Kind(r, "production")
  /\ \E o \in Outcomes :
       /\ product' = IF Effective(o) THEN Append(product, run[r].sha) ELSE product
       /\ IF o # "ok" THEN Fail(r)
          ELSE Become(r, [run[r] EXCEPT !.at = "list", !.version = NextVersion(product)])
  /\ UNCHANGED <<githubVars, preview, shared, live, recordVars>>

ListProduction(r) ==
  /\ At(r, "list") /\ Kind(r, "production")
  /\ Listed(r, product, run[r].sha, run[r].version, "status")
  /\ UNCHANGED <<githubVars, cloudVars, recordVars>>

-----------------------------------------------------------------------------
(***************************************************************************)
(* Evidence.  A manifest stands at a path (issue, group, commit) and says  *)
(* which run took the pictures of which version; what they show is what    *)
(* was served while they were taken.                                       *)
(***************************************************************************)
Manifest(r, group, sha, version, shown) ==
  [issue |-> IssueOf[run[r].sha[1]], group |-> group, sha |-> sha, run |-> r,
   version |-> version, shown |-> shown,
   previous |-> run[r].previous, deployed |-> run[r].deployed]

SamePath(m, n) == m.issue = n.issue /\ m.group = n.group /\ m.sha = n.sha

\* stableCaptureProjection leaves out the time and the attempt, nothing else.
Publishable(manifests) ==
  \A m \in manifests, n \in evidence : SamePath(m, n) => m = n

Served(version) == IF version = 0 THEN Initial ELSE preview[version].sha

\* A preview alias shows the last version uploaded under it.
AliasShows(tag) == Served(Max({v \in 1 .. Len(preview) : preview[v] = tag}))

\* capturePullRequestEvidence and captureReleaseEvidence.
Capture(r) ==
  /\ At(r, "capture")
  /\ Become(r, [run[r] EXCEPT
       !.at = "publish",
       !.shown = IF Kind(r, "pr")
                 THEN [base |-> AliasShows(BaseTag(r)), head |-> AliasShows(HeadTag(r))]
                 ELSE [base |-> Initial, head |-> Served(shared)]])
  /\ UNCHANGED <<githubVars, cloudVars, recordVars>>

\* publishEvidenceToCheckout: one manifest for each role of the capture.
Captured(r) ==
  LET of(group) == Manifest(r, group, run[r].sha, run[r].version, run[r].shown.head)
  IN IF Kind(r, "pr")
     THEN {Manifest(r, "baseline", run[r].base, run[r].baseVersion, run[r].shown.base),
           of("candidates")}
     ELSE {of("releases")}

\* The jobs that write the branch have a concurrency group of their own: one
\* job checks out, compares, commits and pushes before the next begins.
Publish(r) ==
  /\ At(r, "publish") /\ ~Kind(r, "production")
  /\ IF Publishable(Captured(r))
     THEN /\ evidence' = evidence \cup Captured(r)
          /\ Goto(r, "comment")
     ELSE Fail(r) /\ UNCHANGED evidence
  /\ UNCHANGED <<githubVars, cloudVars, comments>>

\* upsertMarkedComments: first the pull request, then the issue; the second may
\* fail after the first was posted.
Comment(r) ==
  /\ At(r, "comment")
  /\ LET on(target) == [on |-> target, sha |-> run[r].sha]
     IN \/ /\ comments' = comments \cup {on("pr"), on("issue")}
           /\ IF Kind(r, "pr") THEN Goto(r, "review") ELSE End(r, "done")
        \/ /\ "github" \in Faults
           /\ comments' = comments \cup {on("pr")}
           /\ Fail(r)
  /\ UNCHANGED <<githubVars, cloudVars, evidence>>

-----------------------------------------------------------------------------
(***************************************************************************)
(* pr-preview.yml: resolve, two uploads, pictures, evidence, approval.     *)
(***************************************************************************)
\* resolvePullRequestRun, for an event about the n-th head of p.
ResolvePr(r, p, n) ==
  /\ Kind(r, "pr")
  /\ Start(r, p \in Eligible /\ pr[p].state = "open" /\ pr[p].head = n,
           [run[r] EXCEPT !.at = "uploadBase", !.sha = <<p, n>>, !.base = pr[p].base])

\* Mutant of ToApprove: the status goes to whatever the head is by now.
ApproveNow(r) ==
  LET p == run[r].sha[1] IN IF pr[p].state = "open" THEN {HeadSha(p)} ELSE {}

\* approvePreviewForCurrentPullRequest: the commit of the run, while it is the
\* head of an open pull request.
ToApprove(r) ==
  LET p == run[r].sha[1]
  IN IF pr[p].state = "open" /\ HeadSha(p) = run[r].sha THEN {run[r].sha} ELSE {}

\* The person who looked at the pictures let the job go on.
Approve(r) ==
  /\ At(r, "review")
  /\ approved' = approved \cup ToApprove(r)
  /\ End(r, IF ToApprove(r) = {} THEN "failed" ELSE "done")
  /\ UNCHANGED <<main, pr, cloudVars, recordVars>>

Reject(r) ==
  /\ At(r, "review") /\ Fail(r)
  /\ UNCHANGED <<githubVars, cloudVars, recordVars>>

-----------------------------------------------------------------------------
(***************************************************************************)
(* shared-preview.yml: the tip of main goes to the shared preview.         *)
(***************************************************************************)
\* Mutant of AtTip: main holds the commit, at its tip or not.
OnMain(s) == s[1] \in ToSet(main)

\* requireCurrentMainSha.
AtTip(s) == Tip = s

\* resolveMainRun, for the event of the merge of p.  The bootstrap exception
\* and whatever is not eligible deploy nothing.
ResolveMain(r, p) ==
  /\ Kind(r, "shared") /\ p \in ToSet(main)
  /\ Start(r, p \in Eligible /\ AtTip(Merged(p)),
           [run[r] EXCEPT !.at = "recheck", !.sha = Merged(p)])

\* assertCurrentMainHead.
Recheck(r) ==
  /\ At(r, "recheck")
  /\ IF AtTip(run[r].sha) THEN Goto(r, "upload") ELSE Fail(r)
  /\ UNCHANGED <<githubVars, cloudVars, recordVars>>

\* deployExactVersion: no confirmation follows.
DeployShared(r) ==
  /\ At(r, "deploy") /\ Kind(r, "shared")
  /\ \E o \in Outcomes :
       /\ shared' = IF Effective(o) THEN run[r].version ELSE shared
       /\ IF o = "ok" THEN Goto(r, "capture") ELSE Fail(r)
  /\ UNCHANGED <<githubVars, preview, product, live, recordVars>>

-----------------------------------------------------------------------------
(***************************************************************************)
(* production.yml: authorize, reauthorize, upload, deploy, smoke, record.  *)
(***************************************************************************)
ReleasesOf(p) ==
  {m \in evidence : m.group = "releases" /\ m.sha = Merged(p) /\ m.issue = IssueOf[p]}

\* Mutant of PreviewApproved: any head of the pull request will do.
AnyHeadApproved(p) == \E s \in approved : s[1] = p

\* The last preview-approved status of the head that was merged is a success.
PreviewApproved(p) == HeadSha(p) \in approved

\* authorizeProductionRelease.  PRODUCTION_ENABLED is what the operator has set
\* by then: it may close production at either of the two times it is read.
Authorized(p) ==
  /\ p \in Eligible /\ p \in ToSet(main)
  /\ ReleasesOf(p) # {}
  /\ PreviewApproved(p)

Authorize(r, p) ==
  /\ Kind(r, "production")
  /\ \E enabled \in BOOLEAN :
       Start(r, enabled /\ Authorized(p),
             [run[r] EXCEPT !.at = "reauthorize", !.sha = Merged(p),
                            !.sealed = ReleasesOf(p)])

\* reauthorizeProductionRelease: all of it again, and the same context.
Reauthorize(r) ==
  /\ At(r, "reauthorize")
  /\ \E enabled \in BOOLEAN : LET p == run[r].sha[1]
     IN IF enabled /\ Authorized(p) /\ ReleasesOf(p) = run[r].sealed
        THEN Goto(r, "upload") ELSE Fail(r)
  /\ UNCHANGED <<githubVars, cloudVars, recordVars>>

\* The deployment that wrangler deployments status reports.
Current == Len(live)

\* Mutant of Replaced: the other end of the list of deployments.
Oldest == 1

\* The deployment that is there before the new one.
Replaced == Current

\* deployProductionVersion asks for the deployment it is about to replace...
Status(r) ==
  /\ At(r, "status")
  /\ IF live[Current] = run[r].version
     THEN Fail(r)
     ELSE Become(r, [run[r] EXCEPT !.at = "deploy", !.previous = Replaced])
  /\ UNCHANGED <<githubVars, cloudVars, recordVars>>

\* ... deploys ...
DeployProduction(r) ==
  /\ At(r, "deploy") /\ Kind(r, "production")
  /\ \E o \in Outcomes :
       /\ live' = IF Effective(o) THEN Append(live, run[r].version) ELSE live
       /\ IF o = "ok" THEN Goto(r, "confirm") ELSE Fail(r)
  /\ UNCHANGED <<githubVars, preview, shared, product, recordVars>>

\* ... and asks again.
Confirm(r) ==
  /\ At(r, "confirm")
  /\ IF Current # run[r].previous /\ live[Current] = run[r].version
     THEN Become(r, [run[r] EXCEPT !.at = "smoke", !.deployed = Current])
     ELSE Fail(r)
  /\ UNCHANGED <<githubVars, cloudVars, recordVars>>

\* smokeProduction: the route answers with the expected status, or not.
Smoke(r) ==
  /\ At(r, "smoke")
  /\ Goto(r, "publish") \/ ("site" \in Faults /\ Fail(r))
  /\ UNCHANGED <<githubVars, cloudVars, recordVars>>

\* publishProductionEvidence.  The record holds the time of its smoke test: a
\* second one for the same commit is a collision.
Recorded(r) == Manifest(r, "production", run[r].sha, run[r].version, run[r].sha)

PublishProduction(r) ==
  /\ At(r, "publish") /\ Kind(r, "production")
  /\ IF \E m \in evidence : SamePath(m, Recorded(r))
     THEN Fail(r) /\ UNCHANGED evidence
     ELSE evidence' = evidence \cup {Recorded(r)} /\ End(r, "done")
  /\ UNCHANGED <<githubVars, cloudVars, comments>>

\* An operator promotes a version by hand, while no production run is active.
Promote ==
  /\ \A r \in Runs : Kind(r, "production") => ~Running(r)
  /\ Len(live) < MaxLive
  /\ \E v \in DOMAIN product : v # Last(live) /\ live' = Append(live, v)
  /\ UNCHANGED <<githubVars, preview, shared, product, recordVars, run>>

PrStep(r) ==
  \/ \E p \in Prs : \E n \in 1 .. pr[p].head : ResolvePr(r, p, n)
  \/ Approve(r) \/ Reject(r)

SharedStep(r) ==
  (\E p \in Prs : ResolveMain(r, p)) \/ Recheck(r) \/ DeployShared(r)

ProductionStep(r) ==
  \/ \E p \in Prs : Authorize(r, p)
  \/ Reauthorize(r) \/ UploadProduction(r) \/ ListProduction(r) \/ Status(r)
  \/ DeployProduction(r) \/ Confirm(r)
  \/ Smoke(r) \/ PublishProduction(r)

Next ==
  \/ \E p \in Prs : Push(p) \/ Merge(p) \/ ClosePr(p)
  \/ Promote
  \/ \E r \in Runs :
       \/ Rerun(r) \/ GithubFails(r)
       \/ UploadPreview(r) \/ ListPreview(r) \/ Capture(r) \/ Publish(r) \/ Comment(r)
       \/ PrStep(r) \/ SharedStep(r) \/ ProductionStep(r)

Spec == Init /\ [][Next]_vars

-----------------------------------------------------------------------------
(***************************************************************************)
(* Properties                                                              *)
(***************************************************************************)
CommitOf(version) == IF version = 0 THEN Initial ELSE preview[version].sha
Place(p) == IF p \in ToSet(main) THEN CHOOSE i \in DOMAIN main : main[i] = p ELSE 0

\* The shared preview follows main: whatever runs are late, repeated or cut
\* short, it never returns to a commit that main had already left behind.
SharedNeverGoesBack ==
  [][Place(CommitOf(shared)[1]) <= Place(CommitOf(shared)'[1])]_vars

\* A picture in the evidence branch shows the commit its path names, although
\* the pictures of a release are taken at an address that other runs redirect.
PicturesAreTrue == \A m \in evidence : m.shown = m.sha

\* The status that opens the way to production is on a commit whose pictures
\* are in the branch and were announced in the pull request and the issue.
ApprovalFollowsEvidence ==
  \A s \in approved :
    /\ \E m \in evidence : m.group = "candidates" /\ m.sha = s
    /\ \A target \in {"pr", "issue"} : [on |-> target, sha |-> s] \in comments

\* What production serves beyond the first deployment was merged, the head that
\* was merged was approved, and the shared preview had been photographed with it.
ProductionWasApproved ==
  \A i \in DOMAIN live :
    LET s == product[live[i]] IN
      s # Initial =>
        /\ s[1] \in ToSet(main)
        /\ HeadSha(s[1]) \in approved
        /\ ReleasesOf(s[1]) # {}

\* The record of a production release names the deployment that it replaced:
\* promoting it again is the way back that the runbook describes.
RecordsTheWayBack ==
  \A m \in evidence : m.group = "production" =>
    /\ m.deployed = m.previous + 1
    /\ live[m.deployed] = m.version /\ live[m.previous] # m.version

\* A correction is a new commit of the pull request and gets previews of its
\* own: a first attempt is not refused for the base that an earlier commit already uploaded.
CorrectionGetsPreviews ==
  \A r \in Runs :
    Kind(r, "pr") /\ At(r, "refused") /\ run[r].attempt = 1 =>
      \E v \in DOMAIN preview : preview[v].role = "head" /\ preview[v].sha = run[r].sha

=============================================================================
