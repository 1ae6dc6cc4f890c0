------------------------------- MODULE MCRelease -------------------------------
(* Instances of ReleaseDocuments for TLC: two pull requests for one issue, one *)
(* of them not eligible when the instance says so, and the files that jobs of  *)
(* several runs may be handed.                                                *)
EXTENDS ReleaseDocuments, TLC

CONSTANTS Retried, p1, p2, i1, a1, a2, s1, s2, d1, d2

Heads == [p \in Prs |-> IF p = p1 THEN 2 ELSE 1]
Attempts == [r \in Runs |-> IF r \in Retried THEN 2 ELSE 1]
Issues == [p \in Prs |-> i1]
Everything ==
  [r \in {a1, a2, s1, s2, d1, d2} |->
     IF r \in {a1, a2} THEN "pr" ELSE IF r \in {s1, s2} THEN "shared" ELSE "production"]
Alike == Permutations({s1, s2})
Workflows == [r \in Runs |-> Everything[r]]

-----------------------------------------------------------------------------
(* Bundles of two or three files out of four, of three profiles; every file   *)
(* limit is met and passed.                                                   *)
Profile(target, database) ==
  [worker |-> target, databaseName |-> target, indexable |-> target = "production",
   previewUrls |-> target = "preview", compatibility |-> 1, database |-> database]
PreviewProfile == Profile("preview", 1)
OtherProfile == Profile("preview", 2)
LiveProfile == Profile("production", 3)
WrongProfile == [PreviewProfile EXCEPT !.indexable = TRUE]

File(what, bytes, mode, kind) == [kind |-> kind, mode |-> mode, bytes |-> bytes, what |-> what]
ConfigOf(p, bindings) ==
  [worker |-> p.worker, compatibility |-> p.compatibility, database |-> p.database,
   indexable |-> p.indexable, bindings |-> bindings]
ConfigFiles ==
  {File(ConfigOf(p, "approved"), 1, 420, "file") :
     p \in {PreviewProfile, OtherProfile, LiveProfile, WrongProfile}}
  \cup {File(ConfigOf(PreviewProfile, "routes"), 1, 420, "file"),
        File(ConfigOf(PreviewProfile, "approved"), 3, 420, "file")}
Page == File("x", 1, 420, "file")
Large == File("x", 3, 420, "file")
Pages ==
  {Page, File("y", 1, 420, "file"), File("y", 1, 493, "file"), File("y", 1, 511, "file"),
   File("y", 1, 420, "link"), File("y", 4, 420, "file")}
BundleTrees ==
  {[config |-> c, page |-> p] : c \in ConfigFiles, p \in Pages}
  \cup UNION {{[config |-> c, page |-> Page, env |-> Page],
               [config |-> c, page |-> Page, more |-> Page],
               [config |-> c, page |-> Large, more |-> Large],
               [config |-> c, page |-> Page, more |-> Page, rest |-> Page]} : c \in ConfigFiles}
  \cup {[page |-> Page]}
BundleIdentities ==
  {[role |-> r, sourceSha |-> s, profile |-> p[1], profileSha256 |-> p[2], target |-> t] :
     r \in {"candidate", "release"}, s \in {1, 2}, t \in {"preview", "production"},
     p \in {<<PreviewProfile, PreviewProfile>>, <<OtherProfile, OtherProfile>>,
            <<LiveProfile, LiveProfile>>, <<PreviewProfile, OtherProfile>>,
            <<WrongProfile, WrongProfile>>}}

-----------------------------------------------------------------------------
(* Two requests, one of a page and one of a section; three runs of one pull   *)
(* request, one of another and two releases.                                  *)
Both == [base |-> 200, candidate |-> 200]
Created == [base |-> 404, candidate |-> 200]
PageRequest ==
  [issue |-> 1, scope |-> "page", public |-> TRUE, route |-> "/a", selector |-> None,
   expected |-> Both]
SectionRequest ==
  [issue |-> 2, scope |-> "section", public |-> TRUE, route |-> "/b", selector |-> "s",
   expected |-> Created]
OfPullRequest(n, id, base, head, request) ==
  [kind |-> "pull-request", issue |-> request.issue, path |-> request.issue, pr |-> n,
   run |-> id, request |-> request,
   source |-> [base |-> base, candidate |-> head, release |-> None]]
OfRelease(n, id, sha, request) ==
  [kind |-> "release", issue |-> request.issue, path |-> request.issue, pr |-> n,
   run |-> id, request |-> request,
   source |-> [base |-> None, candidate |-> None, release |-> sha]]
RunContexts ==
  {OfPullRequest(1, 1, "b", "h", PageRequest), OfPullRequest(1, 2, "b", "h", PageRequest),
   OfPullRequest(1, 3, "b", "h2", PageRequest), OfPullRequest(2, 4, "b", "k", SectionRequest),
   OfRelease(1, 5, "m", PageRequest), OfRelease(2, 6, "n", SectionRequest)}
RequestDrafts ==
  {SectionRequest} \cup
  [issue : {1}, scope : {"page", "section"}, public : BOOLEAN, route : {"/a"},
   selector : {None, Absent, "s"}, expected : {Both, [base |-> 200, candidate |-> 500]}]
PageAnswers ==
  [status : {Both, Created}, fault : {None, "section", "hidden", "slow", "own", "huge"}, foreign : {"none"}]
  \cup {[status |-> Both, fault |-> None, foreign |-> "many"]}

-----------------------------------------------------------------------------
(* The branch after both releases published, and what GitHub may say then or  *)
(* at other times: two runs release either commit.  Chain takes these worlds  *)
(* as a constant, so they are built with an instance of their own.            *)
Evidence == INSTANCE EvidenceChain
ReleaseRuns == [n \in {5, 6} |-> CHOOSE c \in RunContexts : c.run = n]
Pictured(n, take) ==
  Evidence!OwnCapture(ReleaseRuns[n], [status |-> Both, fault |-> None, foreign |-> "none"],
                      take, 1)
EvidenceBranch(take) ==
  Evidence!Publish(Pictured(6, take), ReleaseRuns[6],
    Evidence!Publish(Pictured(5, take), ReleaseRuns[5], Evidence!Nothing, 0).branch, 0).branch

Changed(kind, issue) == [kind |-> kind, issue |-> issue, status |-> "modified"]
Pull(sha, head, issue) ==
  [state |-> "closed", merged |-> TRUE, merge |-> sha, base |-> "main", internal |-> TRUE,
   head |-> head, commits |-> {sha, head}, changed |-> 2,
   files |-> {Changed("request", issue), Changed("source", 0)}]
Approval(state) == [context |-> "preview-approved", state |-> state]
World ==
  [main |-> {"m", "n"}, prs |-> <<Pull("m", "h", 1), Pull("n", "k", 2)>>,
   statuses |-> [h |-> <<Approval("success")>>,
                 k |-> <<[context |-> "ci", state |-> "failure"], Approval("success")>>],
   evidence |-> EvidenceBranch(1)]
GitHubWorlds ==
  {World,
   [World EXCEPT !.evidence = EvidenceBranch(2)],
   [World EXCEPT !.evidence = Evidence!Nothing],
   [World EXCEPT !.main = {"n"}],
   [World EXCEPT !.statuses.h = <<Approval("failure"), Approval("success")>>],
   [World EXCEPT !.statuses.h = <<>>],
   [World EXCEPT !.prs[1].head = "k"],
   [World EXCEPT !.prs[1].state = "open", !.prs[1].merged = FALSE],
   [World EXCEPT !.prs[1].base = "release"],
   [World EXCEPT !.prs[1].internal = FALSE],
   [World EXCEPT !.prs[2].commits = {"m", "n"}],
   [World EXCEPT !.prs[1].changed = 301],
   [World EXCEPT !.prs[1].changed = 3, !.prs[1].files = @ \cup {Changed("drizzle", 0)}],
   [World EXCEPT !.prs[1].changed = 3, !.prs[1].files = @ \cup {Changed("request", 2)}],
   [World EXCEPT !.prs[1].files = {Changed("request", 2), Changed("source", 0)}]}

Old == <<0, "m">>
Older == <<1, "m">>
Traffic(version, percentage) == [versionId |-> version, percentage |-> percentage]
ServedBefore ==
  {[id |-> <<1, Old>>, versions |-> {Traffic(Old, 100)}],
   [id |-> <<2, Old>>, versions |-> {Traffic(Old, 60), Traffic(Older, 40)}],
   [id |-> <<3, Old>>, versions |-> {Traffic(Old, 60)}],
   [id |-> <<4, Old>>, versions |-> {Traffic(<<10, "m">>, 100)}]}
OperatorProfiles ==
  [canonical : BOOLEAN, bytes : {64, 65}, indexable : BOOLEAN,
   worker : {"preview", "production"}, database : {"preview", "production"}]
ReleasedShas == {"m", "n", "h"}
OfWrangler == [lines : {1, 2}, alias : BOOLEAN, preview : BOOLEAN]
ConfiguredOrigins == [kind : {"https", "http"}, name : {1}]
LiveAnswers == [status : {200, 404}, redirected : BOOLEAN]
Attempted == {<<1, 1>>, <<2, 2>>}
=============================================================================
