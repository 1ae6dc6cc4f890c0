----------------------------- MODULE ReleaseProofs -----------------------------
(***************************************************************************)
(* Theorems about the evidence and release pipeline, for any number of     *)
(* pull requests, of runs, attempts and uploads, whatever fails.           *)
(*                                                                         *)
(* First the workflows.  What GitHub, the workers and the evidence branch  *)
(* hold only grows, so what a run has seen there stays seen.  Two things   *)
(* may be replaced under a run: the version that the shared preview serves *)
(* and the latest deployment of production.  What is said of those two     *)
(* supposes the concurrency group of the workflow, and names it.           *)
(*                                                                         *)
(* Then the documents that the jobs leave one another, for any set of      *)
(* them: bundles (SealsAreWhole), releases (ReleasesAreAccounted), the     *)
(* publication of evidence (EvidenceIsPublishedWhole) and what is said of  *)
(* it (CommentsAreTrue, TruthIsPublished).  These are facts about          *)
(* operators; no invariant is needed for them.                             *)
(***************************************************************************)
EXTENDS ReleaseDocuments, FiniteSetTheorems, SequenceTheorems, WellFoundedInduction, TLAPS

Commits == (Prs \cup {None}) \X Nat
Previews == [role : {"base", "head", "release"}, pr : Prs \cup {None}, sha : Commits]

Rests == {"idle", "failed", "refused", "done"}
LabelsOf ==
  [pr |-> {"uploadBase", "listBase", "uploadHead", "listHead", "capture", "publish",
           "comment", "review"},
   shared |-> {"recheck", "upload", "list", "deploy", "capture", "publish", "comment"},
   production |-> {"reauthorize", "upload", "list", "status", "deploy", "confirm", "smoke",
                   "publish"}]

\* What a run carries.
IsRun(x) ==
  /\ DOMAIN x = {"at", "attempt", "sha", "base", "baseVersion", "version", "shown", "sealed",
                 "previous", "deployed"}
  /\ x.sha \in Commits /\ x.base \in Commits
  /\ x.baseVersion \in Nat /\ x.version \in Nat /\ x.previous \in Nat /\ x.deployed \in Nat

TypeOK ==
  /\ main \in Seq(Prs)
  /\ pr \in [Prs -> [state : {"open", "merged", "closed"}, head : Nat, base : Commits]]
  /\ preview \in Seq(Previews) /\ shared \in Nat
  /\ product \in Seq(Commits) /\ live \in Seq(Nat) /\ live # <<>>
  /\ run = [r \in Runs |-> run[r]]
  /\ \A r \in Runs : IsRun(run[r])

\* A run is at a step of its own workflow, and has the commit of a pull request.
Placed(r) ==
  Running(r) =>
    /\ Kind(r, "pr") => run[r].at \in LabelsOf.pr
    /\ Kind(r, "shared") => run[r].at \in LabelsOf.shared /\ run[r].sha = Merged(run[r].sha[1])
    /\ Kind(r, "production") =>
         run[r].at \in LabelsOf.production /\ run[r].sha = Merged(run[r].sha[1])
    /\ run[r].sha[1] \in Prs

\* A pull request is merged once, and does not change any more.
MergedOnce ==
  /\ \A i \in DOMAIN main : pr[main[i]].state = "merged"
  /\ \A i, j \in DOMAIN main : main[i] = main[j] => i = j

Base == TypeOK /\ MergedOnce /\ \A r \in Runs : Placed(r)

-----------------------------------------------------------------------------
\* What a step does to the runs.
LEMMA Becomes ==
  ASSUME TypeOK, NEW r \in Runs, NEW value, Become(r, value)
  PROVE  /\ run' = [q \in Runs |-> run'[q]]
         /\ run'[r] = value /\ \A q \in Runs \ {r} : run'[q] = run[q]
<1>1. run' = [q \in Runs |-> IF q = r THEN value ELSE run[q]]
  BY DEF TypeOK, Become
<1>2. QED
  BY <1>1

LEMMA Ends ==
  ASSUME TypeOK, NEW r \in Runs, NEW label \in {"failed", "refused", "done"}, End(r, label)
  PROVE  /\ run' = [q \in Runs |-> run'[q]]
         /\ run'[r].at = label /\ IsRun(run'[r])
         /\ \A q \in Runs \ {r} : run'[q] = run[q]
<1> DEFINE value == [Idle EXCEPT !.at = label, !.attempt = run[r].attempt,
                         !.sha = IF label = "refused" THEN run[r].sha ELSE Initial]
<1>1. Initial \in Commits
  BY DEF Initial, Merged, Commits
<1>2. IsRun(value) /\ value.at = label
  BY <1>1 DEF TypeOK, IsRun, Idle
<1>3. Become(r, value)
  BY DEF End
<1> HIDE DEF value
<1>4. QED
  BY <1>2, <1>3, Becomes

LEMMA Gone ==
  ASSUME TypeOK, NEW r \in Runs, NEW label, Goto(r, label)
  PROVE  /\ run' = [q \in Runs |-> run'[q]]
         /\ run'[r] = [run[r] EXCEPT !.at = label]
         /\ run'[r].at = label /\ IsRun(run'[r])
         /\ run'[r].sha = run[r].sha /\ run'[r].base = run[r].base
         /\ run'[r].baseVersion = run[r].baseVersion /\ run'[r].version = run[r].version
         /\ run'[r].shown = run[r].shown /\ run'[r].sealed = run[r].sealed
         /\ run'[r].previous = run[r].previous /\ run'[r].deployed = run[r].deployed
         /\ \A q \in Runs \ {r} : run'[q] = run[q]
<1>1. IsRun(run[r])
  BY DEF TypeOK
<1>2. run'[r] = [run[r] EXCEPT !.at = label]
  BY Becomes DEF Goto
<1>3. /\ run' = [q \in Runs |-> run'[q]] /\ \A q \in Runs \ {r} : run'[q] = run[q]
  BY Becomes DEF Goto
<1>4. IsRun(run'[r])
  BY <1>1, <1>2 DEF IsRun
<1>5. QED
  BY <1>1, <1>2, <1>3, <1>4 DEF IsRun

-----------------------------------------------------------------------------
(***************************************************************************)
(* How a run comes to each of its steps: s is what it carried, t what it   *)
(* carries now.                                                            *)
(***************************************************************************)
Starts == {"uploadBase", "recheck", "reauthorize"}

Begun(r, s, t) ==
  /\ t.at = "uploadBase" => Kind(r, "pr") /\ t.sha[1] \in Prs
  /\ t.at = "recheck" =>
       Kind(r, "shared") /\ t.sha = Merged(t.sha[1]) /\ t.sha[1] \in ToSet(main) /\ AtTip(t.sha)
  /\ t.at = "reauthorize" => Kind(r, "production") /\ t.sha = Merged(t.sha[1]) /\ t.sha[1] \in Prs
  /\ t.at \in Starts => s.at = "idle" /\ MayStart(r)
  /\ t.at \notin Starts => Running(r) /\ t.sha = s.sha /\ t.base = s.base

Previewed(r, s, t) ==
  /\ t.at = "listBase" =>
       /\ s.at = "uploadBase"
       /\ t.baseVersion = NextVersion(preview) /\ preview' = Append(preview, BaseTag(r))
  /\ t.at = "uploadHead" => s.at = "listBase" /\ t.baseVersion = s.baseVersion
  /\ t.at = "listHead" =>
       /\ s.at = "uploadHead" /\ t.baseVersion = s.baseVersion
       /\ t.version = NextVersion(preview) /\ preview' = Append(preview, HeadTag(r))
  /\ Kind(r, "shared") =>
       /\ t.at = "upload" => s.at = "recheck"
       /\ t.at = "list" =>
            /\ s.at = "upload"
            /\ t.version = NextVersion(preview) /\ preview' = Append(preview, ReleaseTag(r))
       /\ t.at = "deploy" => s.at = "list" /\ t.version = s.version

Evidenced(r, s, t) ==
  /\ t.at = "capture" =>
       /\ t.version = s.version /\ t.baseVersion = s.baseVersion
       /\ Kind(r, "pr") => s.at = "listHead"
       /\ Kind(r, "shared") => s.at = "deploy" /\ shared' = s.version
  /\ t.at = "publish" /\ Kind(r, "pr") =>
       /\ s.at = "capture"
       /\ t.shown = [base |-> AliasShows(BaseTag(r)), head |-> AliasShows(HeadTag(r))]
  /\ t.at = "publish" /\ Kind(r, "shared") =>
       s.at = "capture" /\ t.shown = [base |-> Initial, head |-> Served(shared)]
  /\ t.at = "comment" =>
       s.at = "publish" /\ ~Kind(r, "production") /\ evidence' = evidence \cup Captured(r)
  /\ t.at = "review" =>
       /\ s.at = "comment" /\ Kind(r, "pr")
       /\ \A target \in {"pr", "issue"} : [on |-> target, sha |-> s.sha] \in comments'

Released(r, s, t) ==
  Kind(r, "production") =>
    /\ t.at = "upload" => s.at = "reauthorize" /\ Authorized(s.sha[1])
    /\ t.at = "list" =>
         /\ s.at = "upload"
         /\ t.version = NextVersion(product) /\ product' = Append(product, s.sha)
    /\ t.at \notin {"upload", "list", "reauthorize"} => t.version = s.version
    /\ t.at = "status" => s.at = "list"
    /\ t.at = "deploy" =>
         s.at = "status" /\ live[Current] # s.version /\ t.previous = Current
    /\ t.at = "confirm" =>
         s.at = "deploy" /\ t.previous = s.previous /\ live' = Append(live, s.version)
    /\ t.at = "smoke" =>
         /\ s.at = "confirm" /\ t.previous = s.previous /\ t.deployed = Current
         /\ live[Current] = s.version
    /\ t.at = "publish" => s.at = "smoke" /\ t.previous = s.previous /\ t.deployed = s.deployed

Follows(r, s, t) ==
  Begun(r, s, t) /\ Previewed(r, s, t) /\ Evidenced(r, s, t) /\ Released(r, s, t)

\* The actions of a run.
Act(r) ==
  \/ Rerun(r) \/ GithubFails(r)
  \/ UploadPreview(r) \/ ListPreview(r) \/ Capture(r) \/ Publish(r) \/ Comment(r)
  \/ PrStep(r) \/ SharedStep(r) \/ ProductionStep(r)

\* What they leave of the run and of the others.
RunsKept(r) ==
  /\ run' = [q \in Runs |-> run'[q]] /\ IsRun(run'[r])
  /\ \A q \in Runs \ {r} : run'[q] = run[q]

Proceeds(r) ==
  RunsKept(r) /\ (Running(r)' => Placed(r)' /\ Follows(r, run[r], run'[r]))

\* A run that ends.
LEMMA Ending ==
  ASSUME TypeOK, NEW r \in Runs, NEW label \in {"failed", "refused", "done"}, End(r, label)
  PROVE  Proceeds(r)
BY Ends DEF Proceeds, RunsKept, Running

\* A tag, at the step that uses it.
LEMMA TagIs ==
  ASSUME Base, NEW r \in Runs
  PROVE  /\ run[r].at \in {"uploadBase", "listBase"} => Tag(r) = BaseTag(r)
         /\ run[r].at \in {"uploadHead", "listHead"} => Tag(r) = HeadTag(r)
         /\ run[r].at \in {"upload", "list"} /\ Kind(r, "shared") => Tag(r) = ReleaseTag(r)
BY ReleaseConstants DEF Tag, Base, Placed, Running, Kind, Kinds, LabelsOf

\* A run that goes on to another step, with the commit it has.
LEMMA Going ==
  ASSUME Base, NEW r \in Runs, Running(r), RunsKept(r),
         run'[r].sha = run[r].sha, run'[r].base = run[r].base, run'[r].at \notin Starts,
         Kind(r, "pr") => run'[r].at \in LabelsOf.pr,
         Kind(r, "shared") => run'[r].at \in LabelsOf.shared,
         Kind(r, "production") => run'[r].at \in LabelsOf.production
  PROVE  Placed(r)' /\ Begun(r, run[r], run'[r])
<1>1. Placed(r)'
  BY DEF Base, Placed, Kind, Running
<1>2. Begun(r, run[r], run'[r])
  BY <1>1 DEF Begun, Starts
<1>3. QED
  BY <1>1, <1>2

\* The kinds of workflow exclude each other.
LEMMA KindIs ==
  ASSUME Base, NEW r \in Runs
  PROVE  /\ \/ Kind(r, "pr") /\ ~Kind(r, "shared") /\ ~Kind(r, "production")
            \/ Kind(r, "shared") /\ ~Kind(r, "pr") /\ ~Kind(r, "production")
            \/ Kind(r, "production") /\ ~Kind(r, "pr") /\ ~Kind(r, "shared")
         /\ IsRun(run[r])
         /\ Running(r) =>
              \/ Kind(r, "pr") /\ run[r].at \in LabelsOf.pr
              \/ Kind(r, "shared") /\ run[r].at \in LabelsOf.shared
              \/ Kind(r, "production") /\ run[r].at \in LabelsOf.production
BY ReleaseConstants DEF Base, TypeOK, Placed, Kind, Kinds

LEMMA UploadSteps ==
  ASSUME Base, NEW r \in Runs, UploadPreview(r)
  PROVE  Proceeds(r)
<1>1. PICK o \in Outcomes :
        /\ preview' = IF Effective(o) THEN Append(preview, Tag(r)) ELSE preview
        /\ \/ o # "ok" /\ Fail(r)
           \/ /\ o = "ok" /\ At(r, "uploadBase")
              /\ Become(r, [run[r] EXCEPT !.at = "listBase",
                                          !.baseVersion = NextVersion(preview)])
           \/ /\ o = "ok" /\ ~At(r, "uploadBase")
              /\ Become(r, [run[r] EXCEPT !.version = NextVersion(preview),
                            !.at = IF At(r, "upload") THEN "list" ELSE "listHead"])
  BY DEF UploadPreview
<1>2. /\ Running(r) /\ ~Kind(r, "production") /\ TypeOK
      /\ run[r].at \in {"uploadBase", "uploadHead", "upload"} /\ IsRun(run[r])
      /\ NextVersion(preview) \in Nat
  BY KindIs DEF UploadPreview, Running, Base, TypeOK, NextVersion
<1>3. CASE o # "ok" /\ Fail(r)
  BY <1>2, <1>3, Ending DEF Fail
<1>4. CASE o = "ok" /\ At(r, "uploadBase")
  <2>1. /\ run' = [q \in Runs |-> run'[q]] /\ \A q \in Runs \ {r} : run'[q] = run[q]
        /\ run'[r] = [run[r] EXCEPT !.at = "listBase", !.baseVersion = NextVersion(preview)]
    BY <1>1, <1>2, <1>4, Becomes
  <2>2. /\ run'[r].at = "listBase" /\ run'[r].baseVersion = NextVersion(preview)
        /\ run'[r].sha = run[r].sha /\ run'[r].base = run[r].base /\ IsRun(run'[r])
    BY <1>2, <2>1 DEF IsRun
  <2>3. Kind(r, "pr") /\ ~Kind(r, "shared") /\ preview' = Append(preview, BaseTag(r))
    BY <1>1, <1>2, <1>4, KindIs, TagIs DEF At, LabelsOf, Effective
  <2>4. RunsKept(r)
    BY <2>1, <2>2 DEF RunsKept
  <2>5. Placed(r)' /\ Begun(r, run[r], run'[r])
    BY <1>2, <2>2, <2>3, <2>4, Going DEF LabelsOf, Starts
  <2>6. /\ Previewed(r, run[r], run'[r]) /\ Evidenced(r, run[r], run'[r])
        /\ Released(r, run[r], run'[r])
    BY <1>2, <1>4, <2>2, <2>3 DEF Previewed, Evidenced, Released, At
  <2>7. QED
    BY <2>4, <2>5, <2>6 DEF Proceeds, Follows
<1>5. CASE o = "ok" /\ ~At(r, "uploadBase")
  <2> DEFINE label == IF At(r, "upload") THEN "list" ELSE "listHead"
  <2>1. /\ run' = [q \in Runs |-> run'[q]] /\ \A q \in Runs \ {r} : run'[q] = run[q]
        /\ run'[r] = [run[r] EXCEPT !.version = NextVersion(preview), !.at = label]
    BY <1>1, <1>2, <1>5, Becomes
  <2>2. /\ run'[r].at = label /\ run'[r].version = NextVersion(preview)
        /\ run'[r].baseVersion = run[r].baseVersion
        /\ run'[r].sha = run[r].sha /\ run'[r].base = run[r].base /\ IsRun(run'[r])
    BY <1>2, <2>1 DEF IsRun
  <2>3. \/ /\ Kind(r, "pr") /\ ~Kind(r, "shared") /\ run[r].at = "uploadHead"
           /\ label = "listHead" /\ preview' = Append(preview, HeadTag(r))
        \/ /\ Kind(r, "shared") /\ ~Kind(r, "pr") /\ run[r].at = "upload"
           /\ label = "list" /\ preview' = Append(preview, ReleaseTag(r))
    BY <1>1, <1>2, <1>5, KindIs, TagIs DEF At, LabelsOf, Effective
  <2>4. RunsKept(r)
    BY <2>1, <2>2 DEF RunsKept
  <2> HIDE DEF label
  <2>5. Placed(r)' /\ Begun(r, run[r], run'[r])
    BY <1>2, <2>2, <2>3, <2>4, Going DEF LabelsOf, Starts
  <2>6. Previewed(r, run[r], run'[r])
    BY <2>2, <2>3 DEF Previewed
  <2>7. Evidenced(r, run[r], run'[r]) /\ Released(r, run[r], run'[r])
    BY <1>2, <2>2, <2>3 DEF Evidenced, Released
  <2>8. QED
    BY <2>4, <2>5, <2>6, <2>7 DEF Proceeds, Follows
<1>6. QED
  BY <1>1, <1>3, <1>4, <1>5

\* A run that only moves on.
LEMMA Moving ==
  ASSUME Base, NEW r \in Runs, NEW label, Running(r), Goto(r, label), label \notin Starts,
         Kind(r, "pr") => label \in LabelsOf.pr,
         Kind(r, "shared") => label \in LabelsOf.shared,
         Kind(r, "production") => label \in LabelsOf.production
  PROVE  RunsKept(r) /\ Placed(r)' /\ Begun(r, run[r], run'[r])
<1>1. RunsKept(r) /\ run'[r].at = label /\ run'[r].sha = run[r].sha /\ run'[r].base = run[r].base
  BY Gone DEF Base, RunsKept
<1>2. QED
  BY <1>1, Going

LEMMA ListSteps ==
  ASSUME Base, NEW r \in Runs, ListPreview(r) \/ ListProduction(r)
  PROVE  Proceeds(r)
<1>1. TypeOK
  BY DEF Base
<1>2. CASE End(r, "refused")
  BY <1>1, <1>2, Ending
<1>3. ASSUME NEW label, Goto(r, label),
             \/ Kind(r, "pr") /\ At(r, "listBase") /\ label = "uploadHead"
             \/ Kind(r, "pr") /\ At(r, "listHead") /\ label = "capture"
             \/ Kind(r, "shared") /\ At(r, "list") /\ label = "deploy"
             \/ Kind(r, "production") /\ At(r, "list") /\ label = "status"
      PROVE  Proceeds(r)
  <2>1. Running(r) /\ run[r].at \in {"listBase", "listHead", "list"}
    BY <1>3 DEF At, Running
  <2>2. RunsKept(r) /\ Placed(r)' /\ Begun(r, run[r], run'[r])
    BY <1>3, <2>1, KindIs, Moving DEF LabelsOf, Starts
  <2>3. /\ run'[r].at = label /\ run'[r].sha = run[r].sha
        /\ run'[r].baseVersion = run[r].baseVersion /\ run'[r].version = run[r].version
    BY <1>1, <1>3, Gone
  <2>4. Previewed(r, run[r], run'[r]) /\ Evidenced(r, run[r], run'[r])
    BY <1>3, <2>1, <2>3, KindIs DEF Previewed, Evidenced, At
  <2>5. Released(r, run[r], run'[r])
    BY <1>3, <2>1, <2>3, KindIs DEF Released, At
  <2>6. QED
    BY <2>2, <2>4, <2>5 DEF Proceeds, Follows
<1>4. CASE ListPreview(r)
  <2>1. ~Kind(r, "production")
    BY <1>4 DEF ListPreview
  <2>2. CASE At(r, "listBase") /\ Listed(r, preview, Tag(r), run[r].baseVersion, "uploadHead")
    <3>1. Kind(r, "pr")
      BY <2>1, <2>2, KindIs DEF At, Running, LabelsOf
    <3>2. QED
      BY <1>2, <1>3, <2>2, <3>1 DEF Listed
  <2>3. CASE At(r, "listHead") /\ Listed(r, preview, Tag(r), run[r].version, "capture")
    <3>1. Kind(r, "pr")
      BY <2>1, <2>3, KindIs DEF At, Running, LabelsOf
    <3>2. QED
      BY <1>2, <1>3, <2>3, <3>1 DEF Listed
  <2>4. CASE At(r, "list") /\ Listed(r, preview, Tag(r), run[r].version, "deploy")
    <3>1. Kind(r, "shared")
      BY <2>1, <2>4, KindIs DEF At, Running, LabelsOf
    <3>2. QED
      BY <1>2, <1>3, <2>4, <3>1 DEF Listed
  <2>5. QED
    BY <1>4, <2>2, <2>3, <2>4 DEF ListPreview
<1>5. CASE ListProduction(r)
  BY <1>2, <1>3, <1>5 DEF ListProduction, Listed
<1>6. QED
  BY <1>4, <1>5

LEMMA EvidenceSteps ==
  ASSUME Base, NEW r \in Runs, Capture(r) \/ Publish(r) \/ Comment(r) \/ Rerun(r) \/ GithubFails(r)
  PROVE  Proceeds(r)
<1>1. TypeOK /\ IsRun(run[r])
  BY KindIs DEF Base
<1>2. CASE Capture(r)
  <2> DEFINE shown == IF Kind(r, "pr")
                      THEN [base |-> AliasShows(BaseTag(r)), head |-> AliasShows(HeadTag(r))]
                      ELSE [base |-> Initial, head |-> Served(shared)]
  <2>1. /\ run' = [q \in Runs |-> run'[q]] /\ \A q \in Runs \ {r} : run'[q] = run[q]
        /\ run'[r] = [run[r] EXCEPT !.at = "publish", !.shown = shown]
    BY <1>1, <1>2, Becomes DEF Capture
  <2>2. /\ run'[r].at = "publish" /\ run'[r].shown = shown
        /\ run'[r].sha = run[r].sha /\ run'[r].base = run[r].base
        /\ run'[r].version = run[r].version /\ IsRun(run'[r])
    BY <1>1, <2>1 DEF IsRun
  <2>3. Running(r) /\ run[r].at = "capture" /\ ~Kind(r, "production")
    BY <1>2, KindIs DEF Capture, At, Running, LabelsOf
  <2>4. RunsKept(r)
    BY <2>1, <2>2 DEF RunsKept
  <2>5. Placed(r)' /\ Begun(r, run[r], run'[r])
    BY <2>2, <2>3, <2>4, Going DEF LabelsOf, Starts
  <2>6. Previewed(r, run[r], run'[r]) /\ Released(r, run[r], run'[r])
    BY <2>2, <2>3 DEF Previewed, Released
  <2>7. Evidenced(r, run[r], run'[r])
    BY <2>2, <2>3, KindIs DEF Evidenced
  <2>8. QED
    BY <2>4, <2>5, <2>6, <2>7 DEF Proceeds, Follows
<1>3. CASE Publish(r)
  <2>1. CASE Fail(r)
    BY <1>1, <2>1, Ending DEF Fail
  <2>2. CASE evidence' = evidence \cup Captured(r) /\ Goto(r, "comment")
    <3>1. Running(r) /\ run[r].at = "publish" /\ ~Kind(r, "production")
      BY <1>3 DEF Publish, At, Running
    <3>2. RunsKept(r) /\ Placed(r)' /\ Begun(r, run[r], run'[r]) /\ run'[r].at = "comment"
      BY <1>1, <2>2, <3>1, KindIs, Moving, Gone DEF LabelsOf, Starts
    <3>3. QED
      BY <2>2, <3>1, <3>2 DEF Proceeds, Follows, Previewed, Evidenced, Released
  <2>3. QED
    BY <1>3, <2>1, <2>2 DEF Publish
<1>4. CASE Comment(r)
  <2>1. CASE Fail(r) \/ End(r, "done")
    BY <1>1, <2>1, Ending DEF Fail
  <2> DEFINE on(target) == [on |-> target, sha |-> run[r].sha]
  <2>2. CASE /\ comments' = comments \cup {on("pr"), on("issue")}
             /\ Kind(r, "pr") /\ Goto(r, "review")
    <3>1. Running(r) /\ run[r].at = "comment"
      BY <1>4 DEF Comment, At, Running
    <3>2. RunsKept(r) /\ Placed(r)' /\ Begun(r, run[r], run'[r]) /\ run'[r].at = "review"
      BY <1>1, <2>2, <3>1, KindIs, Moving, Gone DEF LabelsOf, Starts
    <3>3. \A target \in {"pr", "issue"} : [on |-> target, sha |-> run[r].sha] \in comments'
      BY <2>2
    <3>4. /\ Previewed(r, run[r], run'[r]) /\ Released(r, run[r], run'[r])
          /\ Evidenced(r, run[r], run'[r])
      BY <2>2, <3>1, <3>2, <3>3, KindIs DEF Previewed, Evidenced, Released
    <3>5. QED
      BY <3>2, <3>4 DEF Proceeds, Follows
  <2>3. QED
    BY <1>4, <2>1, <2>2 DEF Comment
<1>5. CASE Rerun(r)
  <2> DEFINE value == [Idle EXCEPT !.attempt = run[r].attempt + 1]
  <2>1. Initial \in Commits
    BY DEF Initial, Merged, Commits
  <2>2. IsRun(value) /\ value.at = "idle"
    BY <2>1 DEF Idle, IsRun
  <2>3. Become(r, value)
    BY <1>5 DEF Rerun
  <2> HIDE DEF value
  <2>4. QED
    BY <1>1, <2>2, <2>3, Becomes DEF Proceeds, RunsKept, Running
<1>6. CASE GithubFails(r)
  BY <1>1, <1>6, Ending DEF GithubFails, Fail
<1>7. QED
  BY <1>2, <1>3, <1>4, <1>5, <1>6

LEMMA PrSteps ==
  ASSUME Base, NEW r \in Runs, PrStep(r)
  PROVE  Proceeds(r)
<1>1. TypeOK /\ IsRun(run[r])
  BY KindIs DEF Base
<1>2. CASE Approve(r) \/ Reject(r)
  BY <1>1, <1>2, Ending DEF Approve, Reject, Fail
<1>3. ASSUME NEW p \in Prs, NEW n \in 1 .. pr[p].head, ResolvePr(r, p, n)
      PROVE  Proceeds(r)
  <2> DEFINE value == [run[r] EXCEPT !.at = "uploadBase", !.sha = <<p, n>>, !.base = pr[p].base]
  <2>1. Kind(r, "pr") /\ MayStart(r)
    BY <1>3 DEF ResolvePr, Start
  <2>2. CASE Fail(r)
    BY <1>1, <2>2, Ending DEF Fail
  <2>3. CASE Become(r, value)
    <3>1. pr[p].base \in Commits /\ <<p, n>> \in Commits
      BY <1>1 DEF TypeOK, Commits
    <3>2. IsRun(value) /\ value.at = "uploadBase" /\ value.sha = <<p, n>>
      BY <1>1, <3>1 DEF IsRun
    <3> HIDE DEF value
    <3>3. RunsKept(r) /\ run'[r].at = "uploadBase" /\ run'[r].sha = <<p, n>>
      BY <1>1, <2>3, <3>2, Becomes DEF RunsKept
    <3>4. Placed(r)'
      BY <2>1, <3>3, KindIs DEF Placed, LabelsOf, Kind
    <3>5. Begun(r, run[r], run'[r])
      BY <2>1, <3>3 DEF Begun, Starts, MayStart, At
    <3>6. /\ Previewed(r, run[r], run'[r]) /\ Evidenced(r, run[r], run'[r])
          /\ Released(r, run[r], run'[r])
      BY <2>1, <3>3, KindIs DEF Previewed, Evidenced, Released
    <3>7. QED
      BY <3>3, <3>4, <3>5, <3>6 DEF Proceeds, Follows
  <2>4. QED
    BY <1>3, <2>2, <2>3 DEF ResolvePr, Start
<1>4. QED
  BY <1>2, <1>3 DEF PrStep

LEMMA SharedSteps ==
  ASSUME Base, NEW r \in Runs, SharedStep(r)
  PROVE  Proceeds(r)
<1>1. TypeOK /\ IsRun(run[r])
  BY KindIs DEF Base
<1>2. CASE Fail(r)
  BY <1>1, <1>2, Ending DEF Fail
<1>3. ASSUME NEW p \in Prs, ResolveMain(r, p)
      PROVE  Proceeds(r)
  <2> DEFINE value == [run[r] EXCEPT !.at = "recheck", !.sha = Merged(p)]
  <2>1. Kind(r, "shared") /\ MayStart(r) /\ p \in ToSet(main)
    BY <1>3 DEF ResolveMain, Start
  <2>2. CASE AtTip(Merged(p)) /\ Become(r, value)
    <3>1. Merged(p) \in Commits /\ Merged(p)[1] = p
      BY <1>1 DEF Merged, Commits
    <3>2. IsRun(value) /\ value.at = "recheck" /\ value.sha = Merged(p)
      BY <1>1, <3>1 DEF IsRun
    <3> HIDE DEF value
    <3>3. RunsKept(r) /\ run'[r].at = "recheck" /\ run'[r].sha = Merged(p)
      BY <1>1, <2>2, <3>2, Becomes DEF RunsKept
    <3>4. Placed(r)'
      BY <2>1, <3>1, <3>3, KindIs DEF Placed, LabelsOf, Kind
    <3>5. Begun(r, run[r], run'[r])
      BY <2>1, <2>2, <3>1, <3>3 DEF Begun, Starts, MayStart, At
    <3>6. /\ Previewed(r, run[r], run'[r]) /\ Evidenced(r, run[r], run'[r])
          /\ Released(r, run[r], run'[r])
      BY <2>1, <3>3, KindIs DEF Previewed, Evidenced, Released
    <3>7. QED
      BY <3>3, <3>4, <3>5, <3>6 DEF Proceeds, Follows
  <2>3. QED
    BY <1>2, <1>3, <2>2 DEF ResolveMain, Start
<1>4. CASE Recheck(r) /\ Goto(r, "upload")
  <2>1. Running(r) /\ run[r].at = "recheck" /\ Kind(r, "shared")
    BY <1>4, KindIs DEF Recheck, At, Running, LabelsOf
  <2>2. RunsKept(r) /\ Placed(r)' /\ Begun(r, run[r], run'[r]) /\ run'[r].at = "upload"
    BY <1>1, <1>4, <2>1, KindIs, Moving, Gone DEF LabelsOf, Starts
  <2>3. /\ Previewed(r, run[r], run'[r]) /\ Evidenced(r, run[r], run'[r])
        /\ Released(r, run[r], run'[r])
    BY <2>1, <2>2, KindIs DEF Previewed, Evidenced, Released
  <2>4. QED
    BY <2>2, <2>3 DEF Proceeds, Follows
<1>5. CASE DeployShared(r) /\ shared' = run[r].version /\ Goto(r, "capture")
  <2>1. Running(r) /\ run[r].at = "deploy" /\ Kind(r, "shared")
    BY <1>5 DEF DeployShared, At, Running
  <2>2. /\ RunsKept(r) /\ Placed(r)' /\ Begun(r, run[r], run'[r]) /\ run'[r].at = "capture"
        /\ run'[r].version = run[r].version /\ run'[r].baseVersion = run[r].baseVersion
    BY <1>1, <1>5, <2>1, KindIs, Moving, Gone DEF LabelsOf, Starts
  <2>3. /\ Previewed(r, run[r], run'[r]) /\ Evidenced(r, run[r], run'[r])
        /\ Released(r, run[r], run'[r])
    BY <1>5, <2>1, <2>2, KindIs DEF Previewed, Evidenced, Released
  <2>4. QED
    BY <2>2, <2>3 DEF Proceeds, Follows
<1>6. QED
  BY <1>2, <1>3, <1>4, <1>5 DEF SharedStep, Recheck, DeployShared, Effective

LEMMA ProductionSteps ==
  ASSUME Base, NEW r \in Runs, ProductionStep(r)
  PROVE  Proceeds(r)
<1>1. TypeOK /\ IsRun(run[r])
  BY KindIs DEF Base
<1>2. CASE Fail(r) \/ End(r, "done")
  BY <1>1, <1>2, Ending DEF Fail
<1>3. ASSUME NEW p \in Prs, Kind(r, "production"), MayStart(r),
             Become(r, [run[r] EXCEPT !.at = "reauthorize", !.sha = Merged(p),
                                      !.sealed = ReleasesOf(p)])
      PROVE  Proceeds(r)
  <2> DEFINE value == [run[r] EXCEPT !.at = "reauthorize", !.sha = Merged(p),
                                     !.sealed = ReleasesOf(p)]
  <2>1. Merged(p) \in Commits /\ Merged(p)[1] = p
    BY <1>1 DEF Merged, Commits
  <2>2. IsRun(value) /\ value.at = "reauthorize" /\ value.sha = Merged(p)
    BY <1>1, <2>1 DEF IsRun
  <2> HIDE DEF value
  <2>3. RunsKept(r) /\ run'[r].at = "reauthorize" /\ run'[r].sha = Merged(p)
    BY <1>1, <1>3, <2>2, Becomes DEF RunsKept, value
  <2>4. Placed(r)'
    BY <1>3, <2>1, <2>3, KindIs DEF Placed, LabelsOf, Kind
  <2>5. Begun(r, run[r], run'[r])
    BY <1>3, <2>1, <2>3 DEF Begun, Starts, MayStart, At
  <2>6. /\ Previewed(r, run[r], run'[r]) /\ Evidenced(r, run[r], run'[r])
        /\ Released(r, run[r], run'[r])
    BY <1>3, <2>3, KindIs DEF Previewed, Evidenced, Released
  <2>7. QED
    BY <2>3, <2>4, <2>5, <2>6 DEF Proceeds, Follows
\* A step of a production run, once what it checks and what it changes are known.
<1>4. ASSUME Kind(r, "production"), Running(r), RunsKept(r),
             run'[r].sha = run[r].sha, run'[r].base = run[r].base, run'[r].at \notin Starts,
             run'[r].at \in LabelsOf.production, Released(r, run[r], run'[r])
      PROVE  Proceeds(r)
  <2>1. Placed(r)' /\ Begun(r, run[r], run'[r])
    BY <1>4, KindIs, Going
  <2>2. Previewed(r, run[r], run'[r]) /\ Evidenced(r, run[r], run'[r])
    BY <1>4, KindIs DEF Previewed, Evidenced, LabelsOf
  <2>3. QED
    BY <1>4, <2>1, <2>2 DEF Proceeds, Follows
<1>5. ASSUME NEW label, Goto(r, label), Kind(r, "production"),
             \/ At(r, "reauthorize") /\ label = "upload" /\ Authorized(run[r].sha[1])
             \/ /\ At(r, "deploy") /\ label = "confirm"
                /\ live' = Append(live, run[r].version)
             \/ At(r, "smoke") /\ label = "publish"
      PROVE  Proceeds(r)
  <2>1. /\ RunsKept(r) /\ run'[r].sha = run[r].sha /\ run'[r].base = run[r].base
        /\ run'[r].at = label /\ run'[r].version = run[r].version
        /\ run'[r].previous = run[r].previous /\ run'[r].deployed = run[r].deployed
    BY <1>1, <1>5, Gone DEF RunsKept
  <2>2. Running(r) /\ label \in LabelsOf.production /\ label \notin Starts
    BY <1>5 DEF Running, At, LabelsOf, Starts
  <2>3. Released(r, run[r], run'[r])
    BY <1>5, <2>1 DEF Released, At
  <2>4. QED
    BY <1>4, <1>5, <2>1, <2>2, <2>3
<1>6. CASE /\ At(r, "upload") /\ Kind(r, "production")
           /\ product' = Append(product, run[r].sha)
           /\ Become(r, [run[r] EXCEPT !.at = "list", !.version = NextVersion(product)])
  <2>1. /\ run' = [q \in Runs |-> run'[q]] /\ \A q \in Runs \ {r} : run'[q] = run[q]
        /\ run'[r] = [run[r] EXCEPT !.at = "list", !.version = NextVersion(product)]
    BY <1>1, <1>6, Becomes
  <2>2. /\ RunsKept(r) /\ run'[r].sha = run[r].sha /\ run'[r].base = run[r].base
        /\ run'[r].at = "list" /\ run'[r].version = NextVersion(product)
    BY <1>1, <2>1 DEF IsRun, RunsKept, TypeOK, NextVersion
  <2>3. Released(r, run[r], run'[r])
    BY <1>6, <2>2 DEF Released, At
  <2>4. QED
    BY <1>4, <1>6, <2>2, <2>3 DEF Running, At, LabelsOf, Starts
<1>7. CASE ListProduction(r)
  BY <1>7, ListSteps
<1>8. CASE /\ At(r, "status") /\ live[Current] # run[r].version
           /\ Become(r, [run[r] EXCEPT !.at = "deploy", !.previous = Replaced])
  <2>1. /\ run' = [q \in Runs |-> run'[q]] /\ \A q \in Runs \ {r} : run'[q] = run[q]
        /\ run'[r] = [run[r] EXCEPT !.at = "deploy", !.previous = Replaced]
    BY <1>1, <1>8, Becomes
  <2>2. /\ RunsKept(r) /\ run'[r].sha = run[r].sha /\ run'[r].base = run[r].base
        /\ run'[r].at = "deploy" /\ run'[r].previous = Current
        /\ run'[r].version = run[r].version
    BY <1>1, <2>1 DEF IsRun, RunsKept, TypeOK, Replaced, Current
  <2>3. Kind(r, "production")
    BY <1>8, KindIs DEF At, Running, LabelsOf
  <2>4. Released(r, run[r], run'[r])
    BY <1>8, <2>2 DEF Released, At
  <2>5. QED
    BY <1>4, <1>8, <2>2, <2>3, <2>4 DEF Running, At, LabelsOf, Starts
<1>9. CASE /\ At(r, "confirm") /\ live[Current] = run[r].version
           /\ Become(r, [run[r] EXCEPT !.at = "smoke", !.deployed = Current])
  <2>1. /\ run' = [q \in Runs |-> run'[q]] /\ \A q \in Runs \ {r} : run'[q] = run[q]
        /\ run'[r] = [run[r] EXCEPT !.at = "smoke", !.deployed = Current]
    BY <1>1, <1>9, Becomes
  <2>2. /\ RunsKept(r) /\ run'[r].sha = run[r].sha /\ run'[r].base = run[r].base
        /\ run'[r].at = "smoke" /\ run'[r].deployed = Current
        /\ run'[r].version = run[r].version /\ run'[r].previous = run[r].previous
    BY <1>1, <2>1 DEF IsRun, RunsKept, TypeOK, Current
  <2>3. Kind(r, "production")
    BY <1>9, KindIs DEF At, Running, LabelsOf
  <2>4. Released(r, run[r], run'[r])
    BY <1>9, <2>2 DEF Released, At
  <2>5. QED
    BY <1>4, <1>9, <2>2, <2>3, <2>4 DEF Running, At, LabelsOf, Starts
<1>10. CASE \E p \in Prs : Authorize(r, p)
  BY <1>2, <1>3, <1>10 DEF Authorize, Start
<1>11. CASE Reauthorize(r)
  <2>1. Kind(r, "production")
    BY <1>11, KindIs DEF Reauthorize, At, Running, LabelsOf
  <2>2. QED
    BY <1>2, <1>5, <1>11, <2>1 DEF Reauthorize
<1>12. CASE UploadProduction(r) \/ Status(r) \/ Confirm(r) \/ PublishProduction(r)
  BY <1>2, <1>6, <1>8, <1>9, <1>12
    DEF UploadProduction, Status, Confirm, PublishProduction, Effective
<1>13. CASE DeployProduction(r)
  BY <1>2, <1>5, <1>13 DEF DeployProduction, Effective
<1>14. CASE Smoke(r)
  <2>1. Kind(r, "production")
    BY <1>14, KindIs DEF Smoke, At, Running, LabelsOf
  <2>2. QED
    BY <1>2, <1>5, <1>14, <2>1 DEF Smoke
<1>15. QED
  BY <1>7, <1>10, <1>11, <1>12, <1>13, <1>14 DEF ProductionStep

LEMMA Steps ==
  ASSUME Base, NEW r \in Runs, Act(r)
  PROVE  Proceeds(r)
BY UploadSteps, ListSteps, EvidenceSteps, PrSteps, SharedSteps, ProductionSteps DEF Act

-----------------------------------------------------------------------------
(***************************************************************************)
(* What a step does to what the runs share.                                *)
(***************************************************************************)
Grows ==
  /\ \/ main' = main
     \/ \E p \in Prs : pr[p].state = "open" /\ pr'[p].state = "merged" /\ main' = Append(main, p)
  /\ \A p \in Prs : pr[p].state = "merged" => pr'[p] = pr[p]
  /\ preview' = preview \/ \E t \in Previews : preview' = Append(preview, t)
  /\ product' = product \/ \E s \in Commits : product' = Append(product, s)
  /\ live' = live \/ \E v \in Nat : live' = Append(live, v)
  /\ approved \subseteq approved' /\ evidence \subseteq evidence' /\ comments \subseteq comments'

\* Who wrote it.
Written ==
  /\ shared' # shared =>
       \E r \in Runs : Kind(r, "shared") /\ At(r, "deploy") /\ shared' = run[r].version /\ Act(r)
  /\ product' # product =>
       \E r \in Runs :
         Kind(r, "production") /\ At(r, "upload") /\ product' = Append(product, run[r].sha)
  /\ live' # live =>
       \/ Promote
       \/ \E r \in Runs : /\ Kind(r, "production") /\ At(r, "deploy") /\ Act(r)
                          /\ live' = Append(live, run[r].version)
  /\ \A s \in approved' \ approved :
       \E r \in Runs : Kind(r, "pr") /\ At(r, "review") /\ s = run[r].sha
  /\ \A m \in evidence' \ evidence :
       \E r \in Runs :
         /\ At(r, "publish")
         /\ ~Kind(r, "production") => m \in Captured(r)
         /\ Kind(r, "production") => m = Recorded(r) /\ live' = live

Quiet == UNCHANGED <<githubVars, cloudVars, recordVars>>

\* Most steps only ask.
LEMMA QuietWrites ==
  ASSUME Quiet
  PROVE  Grows /\ Written
BY DEF Quiet, Grows, Written, githubVars, cloudVars, recordVars

LEMMA QuietSteps ==
  ASSUME NEW r \in Runs,
         \/ Rerun(r) \/ GithubFails(r) \/ ListPreview(r) \/ Capture(r) \/ Reject(r) \/ Recheck(r)
         \/ Reauthorize(r) \/ ListProduction(r) \/ Status(r) \/ Confirm(r) \/ Smoke(r)
         \/ \E p \in Prs : Authorize(r, p) \/ ResolveMain(r, p)
         \/ \E p \in Prs : \E n \in 1 .. pr[p].head : ResolvePr(r, p, n)
  PROVE  Quiet
BY DEF Quiet, Rerun, GithubFails, ListPreview, Capture, Reject, Recheck, Reauthorize,
       ListProduction, Status, Confirm, Smoke, Authorize, ResolveMain, ResolvePr, Start

\* Uploads and deployments.
LEMMA CloudWrites ==
  ASSUME Base, NEW r \in Runs,
         UploadPreview(r) \/ UploadProduction(r) \/ DeployShared(r) \/ DeployProduction(r)
  PROVE  Grows /\ Written
<1>1. IsRun(run[r]) /\ TypeOK
  BY KindIs DEF Base
<1>2. CASE UploadPreview(r)
  <2>1. Running(r) /\ ~Kind(r, "production") /\ run[r].at \in {"uploadBase", "uploadHead", "upload"}
    BY <1>2 DEF UploadPreview, Running
  <2>2. run[r].sha[1] \in Prs
    BY <2>1 DEF Base, Placed
  <2>3. BaseTag(r) \in Previews /\ HeadTag(r) \in Previews /\ ReleaseTag(r) \in Previews
    BY <1>1, <2>2 DEF BaseTag, HeadTag, ReleaseTag, Preview, Previews, IsRun
  <2>4. Tag(r) \in Previews
    BY <2>3 DEF Tag
  <2>5. /\ preview' = preview \/ preview' = Append(preview, Tag(r))
        /\ UNCHANGED <<githubVars, shared, product, live, recordVars>>
    BY <1>2 DEF UploadPreview
  <2>6. QED
    BY <2>4, <2>5 DEF Grows, Written, githubVars, recordVars
<1>3. CASE UploadProduction(r)
  <2>1. /\ product' = product \/ product' = Append(product, run[r].sha)
        /\ At(r, "upload") /\ Kind(r, "production")
        /\ UNCHANGED <<githubVars, preview, shared, live, recordVars>>
    BY <1>3 DEF UploadProduction
  <2>2. QED
    BY <1>1, <2>1 DEF Grows, Written, githubVars, recordVars, IsRun
<1>4. CASE DeployShared(r)
  <2>1. /\ shared' = shared \/ shared' = run[r].version
        /\ At(r, "deploy") /\ Kind(r, "shared") /\ Act(r)
        /\ UNCHANGED <<githubVars, preview, product, live, recordVars>>
    BY <1>4 DEF DeployShared, Act, SharedStep
  <2>2. QED
    BY <2>1 DEF Grows, Written, githubVars, recordVars
<1>5. CASE DeployProduction(r)
  <2>1. /\ live' = live \/ live' = Append(live, run[r].version)
        /\ At(r, "deploy") /\ Kind(r, "production") /\ Act(r)
        /\ UNCHANGED <<githubVars, preview, shared, product, recordVars>>
    BY <1>5 DEF DeployProduction, Act, ProductionStep
  <2>2. QED
    BY <1>1, <2>1 DEF Grows, Written, githubVars, recordVars, IsRun
<1>6. QED
  BY <1>2, <1>3, <1>4, <1>5

\* Evidence, comments and approvals.
LEMMA RecordWrites ==
  ASSUME Base, NEW r \in Runs,
         Publish(r) \/ Comment(r) \/ Approve(r) \/ PublishProduction(r)
  PROVE  Grows /\ Written
<1>1. CASE Publish(r)
  <2>1. /\ evidence' = evidence \/ evidence' = evidence \cup Captured(r)
        /\ At(r, "publish") /\ ~Kind(r, "production")
        /\ UNCHANGED <<githubVars, cloudVars, comments>>
    BY <1>1 DEF Publish
  <2>2. QED
    BY <2>1 DEF Grows, Written, githubVars, cloudVars
<1>2. CASE Comment(r)
  <2>1. /\ comments \subseteq comments'
        /\ UNCHANGED <<githubVars, cloudVars, evidence>>
    BY <1>2 DEF Comment
  <2>2. QED
    BY <2>1 DEF Grows, Written, githubVars, cloudVars
<1>3. CASE Approve(r)
  <2>1. /\ approved' = approved \/ approved' = approved \cup {run[r].sha}
        /\ UNCHANGED <<main, pr, cloudVars, recordVars>>
    BY <1>3 DEF Approve, ToApprove
  <2>2. At(r, "review") /\ Kind(r, "pr")
    BY <1>3, KindIs DEF Approve, At, Running, LabelsOf
  <2>3. QED
    BY <2>1, <2>2 DEF Grows, Written, cloudVars, recordVars
<1>4. CASE PublishProduction(r)
  <2>1. /\ evidence' = evidence \/ evidence' = evidence \cup {Recorded(r)}
        /\ At(r, "publish") /\ Kind(r, "production")
        /\ UNCHANGED <<githubVars, cloudVars, comments>>
    BY <1>4 DEF PublishProduction
  <2>2. QED
    BY <2>1 DEF Grows, Written, githubVars, cloudVars
<1>5. QED
  BY <1>1, <1>2, <1>3, <1>4

\* What people do.
People == (\E p \in Prs : Push(p) \/ Merge(p) \/ ClosePr(p)) \/ Promote

LEMMA PeopleWrite ==
  ASSUME Base, People
  PROVE  Grows /\ Written /\ run' = run
<1>1. ASSUME NEW p \in Prs, Push(p) \/ Merge(p) \/ ClosePr(p)
      PROVE  Grows /\ Written /\ run' = run
  <2>1. pr = [q \in Prs |-> pr[q]]
    BY DEF Base, TypeOK
  <2>2. /\ pr[p].state = "open"
        /\ UNCHANGED <<approved, cloudVars, recordVars, run>>
        /\ main' = main \/ Merge(p)
    BY <1>1 DEF Push, Merge, ClosePr
  <2>3. \A q \in Prs \ {p} : pr'[q] = pr[q]
    BY <1>1, <2>1 DEF Push, Merge, ClosePr
  <2>4. ASSUME Merge(p)
        PROVE  main' = Append(main, p) /\ pr'[p].state = "merged"
    <3>1. "state" \in DOMAIN pr[p]
      BY DEF Base, TypeOK
    <3>2. pr'[p] = [pr[p] EXCEPT !.state = "merged"] /\ main' = Append(main, p)
      BY <2>1, <2>4 DEF Merge
    <3>3. QED
      BY <3>1, <3>2
  <2>5. QED
    BY <2>2, <2>3, <2>4 DEF Grows, Written, cloudVars, recordVars
<1>2. CASE Promote
  <2>1. PICK v \in DOMAIN product : live' = Append(live, v)
    BY <1>2 DEF Promote
  <2>2. v \in Nat
    BY <2>1 DEF Base, TypeOK
  <2>3. UNCHANGED <<githubVars, preview, shared, product, recordVars, run>>
    BY <1>2 DEF Promote
  <2>4. QED
    BY <1>2, <2>1, <2>2, <2>3 DEF Grows, Written, githubVars, recordVars
<1>3. QED
  BY <1>1, <1>2 DEF People

LEMMA Writes ==
  ASSUME Base, Next
  PROVE  /\ Grows /\ Written
         /\ \/ run' = run /\ People
            \/ \E r \in Runs : Act(r)
<1>1. ASSUME NEW r \in Runs, Act(r)
      PROVE  Grows /\ Written
  BY <1>1, QuietSteps, QuietWrites, CloudWrites, RecordWrites
    DEF Act, PrStep, SharedStep, ProductionStep
<1>2. People \/ \E r \in Runs : Act(r)
  BY DEF Next, People, Act
<1>3. QED
  BY <1>1, <1>2, PeopleWrite

-----------------------------------------------------------------------------
(***************************************************************************)
(* Base holds in every state.                                              *)
(***************************************************************************)
LEMMA InitBase == Init => Base
<1> SUFFICES ASSUME Init PROVE Base
  OBVIOUS
<1>1. Initial \in Commits
  BY DEF Initial, Merged, Commits
<1>2. IsRun(Idle) /\ Idle.at = "idle"
  BY <1>1 DEF IsRun, Idle
<1>3. TypeOK
  BY <1>1, <1>2 DEF Init, TypeOK
<1>4. MergedOnce /\ \A r \in Runs : Placed(r)
  BY <1>2 DEF Init, MergedOnce, Placed, Running
<1>5. QED
  BY <1>3, <1>4 DEF Base

\* The heads and the bases of the pull requests.
LEMMA PrTypes ==
  ASSUME Base, Next
  PROVE  pr' \in [Prs -> [state : {"open", "merged", "closed"}, head : Nat, base : Commits]]
<1> DEFINE Type == [state : {"open", "merged", "closed"}, head : Nat, base : Commits]
<1>1. pr \in [Prs -> Type]
  BY DEF Base, TypeOK
<1>2. Tip \in Commits
  <2>1. main \in Seq(Prs)
    BY DEF Base, TypeOK
  <2>2. main # <<>> => Last(main) \in Prs
    BY <2>1 DEF Last
  <2>3. QED
    BY <2>2 DEF Tip, Initial, Merged, Commits
<1>3. ASSUME NEW p \in Prs, Push(p)
      PROVE  pr' \in [Prs -> Type]
  <2>1. pr' = [pr EXCEPT ![p] = [pr[p] EXCEPT !.head = @ + 1, !.base = Tip]]
    BY <1>1, <1>3 DEF Push
  <2>2. [pr[p] EXCEPT !.head = @ + 1, !.base = Tip] \in Type
    <3>1. \A x \in Type : \A h \in Nat : \A b \in Commits :
            [x EXCEPT !.head = h, !.base = b] \in Type
      OBVIOUS
    <3>2. pr[p] \in Type /\ pr[p].head + 1 \in Nat
      BY <1>1
    <3>3. QED
      BY <1>2, <3>1, <3>2
  <2>3. QED
    BY <1>1, <2>1, <2>2
<1>4. ASSUME NEW p \in Prs, Merge(p) \/ ClosePr(p)
      PROVE  pr' \in [Prs -> Type]
  <2>1. PICK state \in {"merged", "closed"} : pr' = [pr EXCEPT ![p].state = state]
    BY <1>4 DEF Merge, ClosePr
  <2>2. [pr[p] EXCEPT !.state = state] \in Type
    BY <1>1
  <2>3. QED
    BY <1>1, <2>1, <2>2
<1>5. CASE pr' = pr
  BY <1>1, <1>5
<1>6. ASSUME NEW r \in Runs, Act(r)
      PROVE  pr' = pr
  BY <1>6, QuietSteps DEF Act, PrStep, SharedStep, ProductionStep, Quiet, githubVars, Approve,
    UploadPreview, Publish, Comment, DeployShared, UploadProduction, DeployProduction,
    PublishProduction
<1>7. CASE Promote
  BY <1>5, <1>7 DEF Promote, githubVars
<1>8. QED
  BY <1>3, <1>4, <1>5, <1>6, <1>7, Writes DEF People

\* What is there stays where it is.
LEMMA Kept ==
  ASSUME Base, Grows
  PROVE  /\ main' \in Seq(Prs) /\ \A i \in DOMAIN main : i \in DOMAIN main' /\ main'[i] = main[i]
         /\ preview' \in Seq(Previews)
         /\ \A v \in DOMAIN preview : v \in DOMAIN preview' /\ preview'[v] = preview[v]
         /\ product' \in Seq(Commits)
         /\ \A v \in DOMAIN product : v \in DOMAIN product' /\ product'[v] = product[v]
         /\ live' \in Seq(Nat) /\ \A i \in DOMAIN live : i \in DOMAIN live' /\ live'[i] = live[i]
<1>1. main' \in Seq(Prs) /\ \A i \in DOMAIN main : i \in DOMAIN main' /\ main'[i] = main[i]
  <2>1. main \in Seq(Prs)
    BY DEF Base, TypeOK
  <2>2. CASE main' = main
    BY <2>1, <2>2
  <2>3. ASSUME NEW e \in Prs, main' = Append(main, e)
        PROVE  <1>1
    BY <2>1, <2>3
  <2>4. QED
    BY <2>2, <2>3 DEF Grows
<1>2. /\ preview' \in Seq(Previews)
      /\ \A i \in DOMAIN preview : i \in DOMAIN preview' /\ preview'[i] = preview[i]
  <2>1. preview \in Seq(Previews)
    BY DEF Base, TypeOK
  <2>2. CASE preview' = preview
    BY <2>1, <2>2
  <2>3. ASSUME NEW e \in Previews, preview' = Append(preview, e)
        PROVE  <1>2
    BY <2>1, <2>3
  <2>4. QED
    BY <2>2, <2>3 DEF Grows
<1>3. /\ product' \in Seq(Commits)
      /\ \A i \in DOMAIN product : i \in DOMAIN product' /\ product'[i] = product[i]
  <2>1. product \in Seq(Commits)
    BY DEF Base, TypeOK
  <2>2. CASE product' = product
    BY <2>1, <2>2
  <2>3. ASSUME NEW e \in Commits, product' = Append(product, e)
        PROVE  <1>3
    BY <2>1, <2>3
  <2>4. QED
    BY <2>2, <2>3 DEF Grows
<1>4. live' \in Seq(Nat) /\ \A i \in DOMAIN live : i \in DOMAIN live' /\ live'[i] = live[i]
  <2>1. live \in Seq(Nat)
    BY DEF Base, TypeOK
  <2>2. CASE live' = live
    BY <2>1, <2>2
  <2>3. ASSUME NEW e \in Nat, live' = Append(live, e)
        PROVE  <1>4
    BY <2>1, <2>3
  <2>4. QED
    BY <2>2, <2>3 DEF Grows
<1>5. QED
  BY <1>1, <1>2, <1>3, <1>4

LEMMA BaseStep ==
  ASSUME Base, [Next]_vars
  PROVE  Base'
<1>1. CASE UNCHANGED vars
  BY <1>1 DEF vars, githubVars, cloudVars, recordVars, Base, TypeOK, MergedOnce, Placed, Running,
    Kind, IsRun
<1>2. CASE Next
  <2>1. Grows /\ Written /\ ((run' = run /\ People) \/ \E r \in Runs : Act(r))
    BY <1>2, Writes
  <2>2. /\ run' = [r \in Runs |-> run'[r]]
        /\ \A r \in Runs : IsRun(run'[r]) /\ Placed(r)'
    <3>1. CASE run' = run
      BY <3>1 DEF Base, TypeOK, Placed, Running, Kind
    <3>2. ASSUME NEW r \in Runs, Act(r)
          PROVE  <2>2
      <4>1. Proceeds(r)
        BY <3>2, Steps
      <4>2. Placed(r)'
        BY <4>1 DEF Proceeds, Placed, Running
      <4>3. ASSUME NEW q \in Runs \ {r}
            PROVE  IsRun(run'[q]) /\ Placed(q)'
        BY <4>1 DEF Proceeds, RunsKept, Base, TypeOK, Placed, Running, Kind
      <4>4. QED
        BY <4>1, <4>2, <4>3 DEF Proceeds, RunsKept
    <3>3. QED
      BY <2>1, <3>1, <3>2
  <2>3. shared' \in Nat
    <3>1. CASE shared' = shared
      BY <3>1 DEF Base, TypeOK
    <3>2. ASSUME NEW r \in Runs, shared' = run[r].version
          PROVE  shared' \in Nat
      BY <3>2 DEF Base, TypeOK, IsRun
    <3>3. QED
      BY <2>1, <3>1, <3>2 DEF Written
  <2>4. /\ main' \in Seq(Prs) /\ preview' \in Seq(Previews)
        /\ product' \in Seq(Commits) /\ live' \in Seq(Nat) /\ live' # <<>>
    <3>1. live # <<>> /\ live \in Seq(Nat)
      BY DEF Base, TypeOK
    <3>2. live' # <<>>
      <4>1. 1 \in DOMAIN live
        BY <3>1
      <4>2. 1 \in DOMAIN live'
        BY <2>1, <4>1, Kept
      <4>3. QED
        BY <4>2
    <3>3. QED
      BY <2>1, <3>2, Kept
  <2>5. TypeOK'
    BY <1>2, <2>2, <2>3, <2>4, PrTypes DEF TypeOK
  <2>6. MergedOnce'
    <3>1. CASE main' = main
      BY <2>1, <3>1 DEF Grows, Base, MergedOnce, TypeOK
    <3>2. ASSUME NEW p \in Prs, pr[p].state = "open", pr'[p].state = "merged",
                  main' = Append(main, p)
          PROVE  MergedOnce'
      <4>1. /\ main \in Seq(Prs) /\ \A i \in DOMAIN main : main[i] \in Prs
            /\ DOMAIN main = 1 .. Len(main) /\ Len(main) \in Nat
        BY DEF Base, TypeOK
      <4>2. \A i \in DOMAIN main : pr[main[i]].state = "merged" /\ pr'[main[i]].state = "merged"
        BY <2>1, <4>1 DEF Grows, Base, MergedOnce
      <4>3. \A i \in DOMAIN main : main[i] # p
        BY <3>2, <4>2
      <4>4. /\ DOMAIN main' = 1 .. Len(main) + 1 /\ main'[Len(main) + 1] = p
            /\ \A i \in DOMAIN main : main'[i] = main[i]
        BY <3>2, <4>1
      <4>5. \A i, j \in DOMAIN main : main[i] = main[j] => i = j
        BY DEF Base, MergedOnce
      <4>6. \A i \in DOMAIN main' : i \in DOMAIN main \/ i = Len(main) + 1
        BY <4>1, <4>4
      <4>7. \A i \in DOMAIN main' : pr'[main'[i]].state = "merged"
        BY <3>2, <4>2, <4>4, <4>6
      <4>8. \A i, j \in DOMAIN main' : main'[i] = main'[j] => i = j
        BY <4>3, <4>4, <4>5, <4>6
      <4>9. QED
        BY <4>7, <4>8 DEF MergedOnce
    <3>3. QED
      BY <2>1, <3>1, <3>2 DEF Grows
  <2>7. QED
    BY <2>2, <2>5, <2>6 DEF Base
<1>3. QED
  BY <1>1, <1>2

\* Every reachable state satisfies Base, whatever fails and whoever runs at once.
THEOREM Invariance == Spec => []Base
<1>1. QED
  BY InitBase, BaseStep, PTL DEF Spec

-----------------------------------------------------------------------------
(***************************************************************************)
(* An approval follows its evidence: a run that asks for it has published  *)
(* the pictures of its commit, and has said so in both places.             *)
(***************************************************************************)
Pictured(s) == \E m \in evidence : m.group = "candidates" /\ m.sha = s
Told(s) == \A target \in {"pr", "issue"} : [on |-> target, sha |-> s] \in comments

Announced(r) ==
  Kind(r, "pr") =>
    /\ run[r].at \in {"comment", "review"} => Pictured(run[r].sha)
    /\ At(r, "review") => Told(run[r].sha)

ApprovalInv == (\A r \in Runs : Announced(r)) /\ ApprovalFollowsEvidence

LEMMA AnnouncedStep ==
  ASSUME Base, NEW r \in Runs, Grows, Announced(r), run'[r] = run[r] \/ (Act(r) /\ Proceeds(r))
  PROVE  Announced(r)'
<1>1. /\ \A s : Pictured(s) => Pictured(s)'
      /\ \A s : Told(s) => Told(s)'
  BY DEF Grows, Pictured, Told
<1>2. CASE run'[r] = run[r]
  BY <1>1, <1>2 DEF Announced, Kind, At
<1>3. ASSUME Proceeds(r), Kind(r, "pr"), run'[r].at \in {"comment", "review"}
      PROVE  Announced(r)'
  <2>1. Running(r)'
    BY <1>3 DEF Running
  <2>2. Begun(r, run[r], run'[r]) /\ Evidenced(r, run[r], run'[r])
    BY <1>3, <2>1 DEF Proceeds, Follows
  <2>3. run'[r].sha = run[r].sha
    BY <1>3, <2>2 DEF Begun, Starts
  <2>4. CASE run'[r].at = "comment"
    <3>1. evidence' = evidence \cup Captured(r)
      BY <2>2, <2>4 DEF Evidenced
    <3>2. Manifest(r, "candidates", run[r].sha, run[r].version, run[r].shown.head) \in evidence'
      BY <1>3, <3>1 DEF Captured
    <3>3. Pictured(run[r].sha)'
      BY <2>3, <3>2 DEF Manifest, Pictured
    <3>4. QED
      BY <2>3, <2>4, <3>3 DEF Announced, At
  <2>5. CASE run'[r].at = "review"
    <3>1. run[r].at = "comment" /\ Told(run[r].sha)'
      BY <2>2, <2>3, <2>5 DEF Evidenced, Told
    <3>2. Pictured(run[r].sha)'
      BY <1>1, <1>3, <2>3, <3>1 DEF Announced
    <3>3. QED
      BY <2>3, <3>1, <3>2 DEF Announced
  <2>6. QED
    BY <1>3, <2>4, <2>5
<1>4. QED
  BY <1>2, <1>3 DEF Announced, Kind, At

\* The runs of a step: one goes on, the others do not.
LEMMA Turns ==
  ASSUME Base, Next, NEW r \in Runs
  PROVE  Grows /\ Written /\ (run'[r] = run[r] \/ (Act(r) /\ Proceeds(r)))
<1>1. Grows /\ Written /\ ((run' = run /\ People) \/ \E q \in Runs : Act(q))
  BY Writes
<1>2. ASSUME NEW q \in Runs, Act(q)
      PROVE  run'[r] = run[r] \/ (Act(r) /\ Proceeds(r))
  BY <1>2, Steps DEF Proceeds, RunsKept
<1>3. QED
  BY <1>1, <1>2

LEMMA ApprovalStep ==
  ASSUME Base, ApprovalInv, [Next]_vars
  PROVE  ApprovalInv'
<1>1. CASE UNCHANGED vars
  BY <1>1 DEF vars, githubVars, cloudVars, recordVars, ApprovalInv, Announced, Pictured, Told,
    Kind, At, ApprovalFollowsEvidence
<1>2. CASE Next
  <2>1. Grows /\ Written
    BY <1>2, Writes
  <2>2. \A r \in Runs : Announced(r)'
    BY <1>2, Turns, AnnouncedStep DEF ApprovalInv
  <2>3. ASSUME NEW s \in approved'
        PROVE  Pictured(s)' /\ Told(s)'
    <3>1. Pictured(s) /\ Told(s)
      <4>1. CASE s \in approved
        BY <4>1 DEF ApprovalInv, ApprovalFollowsEvidence, Pictured, Told
      <4>2. CASE s \notin approved
        <5>1. PICK r \in Runs : Kind(r, "pr") /\ At(r, "review") /\ s = run[r].sha
          BY <2>1, <4>2 DEF Written
        <5>2. QED
          BY <5>1 DEF ApprovalInv, Announced, At
      <4>3. QED
        BY <4>1, <4>2
    <3>2. QED
      BY <2>1, <3>1 DEF Grows, Pictured, Told
  <2>4. ApprovalFollowsEvidence'
    BY <2>3 DEF ApprovalFollowsEvidence, Pictured, Told
  <2>5. QED
    BY <2>2, <2>4 DEF ApprovalInv
<1>3. QED
  BY <1>1, <1>2

(* The status that opens the way to production is on a commit whose pictures  *)
(* are in the evidence branch and were announced in both places, whatever     *)
(* fails in between and however the runs overlap (approve job of              *)
(* pr-preview.yml).                                                           *)
THEOREM ApprovedWithPictures == Spec => []ApprovalFollowsEvidence
<1>1. Init => ApprovalInv
  BY DEF Init, Idle, ApprovalInv, Announced, At, ApprovalFollowsEvidence
<1>2. Base /\ ApprovalInv /\ [Next]_vars => ApprovalInv'
  BY ApprovalStep
<1>3. ApprovalInv => ApprovalFollowsEvidence
  BY DEF ApprovalInv
<1>4. QED
  BY <1>1, <1>2, <1>3, Invariance, PTL DEF Spec

-----------------------------------------------------------------------------
(***************************************************************************)
(* What production serves was approved: the commit that a run authorized   *)
(* stays good, because nothing that made it so is ever taken away.         *)
(***************************************************************************)
Good(s) == s[1] \in ToSet(main) /\ HeadSha(s[1]) \in approved /\ ReleasesOf(s[1]) # {}

Releasing == {"upload", "list", "status", "deploy", "confirm", "smoke", "publish"}

Accountable(r) ==
  Kind(r, "production") =>
    /\ run[r].at \in Releasing => Good(run[r].sha)
    /\ run[r].at \in Releasing \ {"upload"} => run[r].version \in DOMAIN product

ProductionInv ==
  /\ \A r \in Runs : Accountable(r)
  /\ \A v \in DOMAIN product : product[v] = Initial \/ Good(product[v])
  /\ \A i \in DOMAIN live : live[i] \in DOMAIN product

LEMMA GoodStays ==
  ASSUME Base, Grows, NEW s, Good(s)
  PROVE  Good(s)'
<1>1. main \in Seq(Prs) /\ MergedOnce
  BY DEF Base, TypeOK
<1>2. PICK i \in DOMAIN main : main[i] = s[1]
  BY <1>1 DEF Good, ToSet
<1>3. s[1] \in Prs /\ pr[s[1]].state = "merged"
  BY <1>1, <1>2 DEF MergedOnce
<1>4. pr'[s[1]] = pr[s[1]]
  BY <1>3 DEF Grows
<1>5. s[1] \in ToSet(main)'
  BY <1>2, Kept DEF ToSet
<1>6. HeadSha(s[1])' \in approved'
  BY <1>4 DEF Grows, Good, HeadSha
<1>7. ReleasesOf(s[1]) \subseteq ReleasesOf(s[1])'
  BY DEF Grows, ReleasesOf, Merged
<1>8. QED
  BY <1>5, <1>6, <1>7 DEF Good

LEMMA AccountableStep ==
  ASSUME Base, NEW r \in Runs, Grows, Accountable(r),
         run'[r] = run[r] \/ (Act(r) /\ Proceeds(r))
  PROVE  Accountable(r)'
<1>1. \A v \in DOMAIN product : v \in DOMAIN product'
  BY Kept
<1>2. CASE run'[r] = run[r]
  <2>1. ASSUME Kind(r, "production"), run'[r].at \in Releasing
        PROVE  Good(run[r].sha)'
    <3>1. Good(run[r].sha)
      BY <1>2, <2>1 DEF Accountable
    <3> DEFINE s == run[r].sha
    <3> HIDE DEF s
    <3>2. run'[r].sha = s /\ Good(s)
      BY <1>2, <3>1 DEF s
    <3>3. \A t : Good(t) => Good(t)'
      BY GoodStays
    <3>4. QED
      BY <1>2, <3>2, <3>3 DEF Good
  <2>2. QED
    BY <1>1, <1>2, <2>1 DEF Accountable, Kind
<1>3. ASSUME Proceeds(r), Kind(r, "production"), run'[r].at \in Releasing
      PROVE  Accountable(r)'
  <2>1. Running(r)'
    BY <1>3 DEF Running, Releasing
  <2>2. Begun(r, run[r], run'[r]) /\ Released(r, run[r], run'[r])
    BY <1>3, <2>1 DEF Proceeds, Follows
  <2>3. run'[r].sha = run[r].sha
    BY <1>3, <2>2 DEF Begun, Starts, Releasing
  <2>4. Good(run[r].sha)
    <3>1. CASE run'[r].at = "upload"
      BY <1>3, <2>2, <3>1 DEF Released, Authorized, PreviewApproved, Good
    <3>2. CASE run'[r].at # "upload"
      <4>1. run[r].at \in Releasing
        BY <1>3, <2>2, <3>2 DEF Released, Releasing
      <4>2. QED
        BY <1>3, <4>1 DEF Accountable
    <3>3. QED
      BY <3>1, <3>2
  <2>5. Good(run[r].sha)'
    <3>1. \A t : Good(t) => Good(t)'
      BY GoodStays
    <3>2. QED
      BY <2>3, <2>4, <3>1 DEF Good
  <2>6. ASSUME run'[r].at # "upload"
        PROVE  run'[r].version \in DOMAIN product'
    <3>1. CASE run'[r].at = "list"
      <4>1. run'[r].version = Len(product) + 1 /\ product' = Append(product, run[r].sha)
        BY <1>3, <2>2, <3>1 DEF Released, NextVersion
      <4>2. product \in Seq(Commits) /\ run[r].sha \in Commits
        BY DEF Base, TypeOK, IsRun
      <4>3. QED
        BY <4>1, <4>2
    <3>2. CASE run'[r].at # "list"
      <4>1. run'[r].version = run[r].version /\ run[r].at \in Releasing \ {"upload"}
        BY <1>3, <2>2, <2>6, <3>2 DEF Released, Releasing
      <4>2. QED
        BY <1>1, <1>3, <4>1 DEF Accountable
    <3>3. QED
      BY <3>1, <3>2
  <2>7. QED
    BY <2>5, <2>6 DEF Accountable, Releasing
<1>4. QED
  BY <1>2, <1>3 DEF Accountable, Kind, Releasing

LEMMA ProductionInvStep ==
  ASSUME Base, ProductionInv, [Next]_vars
  PROVE  ProductionInv'
<1>1. CASE UNCHANGED vars
  BY <1>1 DEF vars, githubVars, cloudVars, recordVars, ProductionInv, Accountable, Good, HeadSha,
    ReleasesOf, Kind
<1>2. CASE Next
  <2>1. Grows /\ Written
    BY <1>2, Writes
  <2>2. \A r \in Runs : Accountable(r)'
    BY <1>2, Turns, AccountableStep DEF ProductionInv
  <2>3. /\ product \in Seq(Commits) /\ live \in Seq(Nat)
        /\ \A v \in DOMAIN product : v \in DOMAIN product' /\ product'[v] = product[v]
    <3>1. product \in Seq(Commits) /\ live \in Seq(Nat)
      BY DEF Base, TypeOK
    <3>2. QED
      BY <2>1, <3>1, Kept
  <2>4. ASSUME NEW v \in DOMAIN product'
        PROVE  product'[v] = Initial \/ Good(product[v])'
    <3>1. ASSUME NEW s, product'[v] = s, s = Initial \/ Good(s)
          PROVE  product'[v] = Initial \/ Good(product[v])'
      <4>1. \A t : Good(t) => Good(t)'
        BY <2>1, GoodStays
      <4>2. QED
        BY <3>1, <4>1 DEF Good
    <3>2. CASE v \in DOMAIN product
      <4>1. product[v] = Initial \/ Good(product[v])
        BY <3>2 DEF ProductionInv
      <4> DEFINE s == product[v]
      <4>2. product'[v] = s /\ (s = Initial \/ Good(s))
        BY <2>3, <3>2, <4>1
      <4> HIDE DEF s
      <4>3. QED
        BY <3>1, <4>2
    <3>3. CASE v \notin DOMAIN product
      <4>1. PICK r \in Runs :
              Kind(r, "production") /\ At(r, "upload") /\ product' = Append(product, run[r].sha)
        BY <2>1, <3>3 DEF Written
      <4>2. run[r].sha \in Commits /\ Good(run[r].sha)
        BY <4>1 DEF Base, TypeOK, IsRun, ProductionInv, Accountable, At, Releasing
      <4> DEFINE s == run[r].sha
      <4>3. product'[v] = s /\ Good(s)
        BY <2>3, <3>3, <4>1, <4>2
      <4> HIDE DEF s
      <4>4. QED
        BY <3>1, <4>3
    <3>4. QED
      BY <3>2, <3>3
  <2>5. \A i \in DOMAIN live' : live'[i] \in DOMAIN product'
    <3>1. CASE live' = live
      BY <2>3, <3>1 DEF ProductionInv
    <3>2. ASSUME NEW v \in DOMAIN product, live' = Append(live, v)
          PROVE  <2>5
      <4>1. v \in Nat
        BY <2>3
      <4>2. QED
        BY <2>3, <3>2, <4>1 DEF ProductionInv
    <3>3. CASE Promote
      BY <3>2, <3>3 DEF Promote
    <3>4. ASSUME NEW r \in Runs, Kind(r, "production"), At(r, "deploy"),
                 live' = Append(live, run[r].version)
          PROVE  <2>5
      BY <3>2, <3>4 DEF ProductionInv, Accountable, At, Releasing
    <3>5. QED
      BY <2>1, <3>1, <3>3, <3>4 DEF Written
  <2>6. QED
    BY <2>2, <2>4, <2>5 DEF ProductionInv
<1>3. QED
  BY <1>1, <1>2

(* Whatever production has ever served beyond the first deployment was merged,*)
(* the head that was merged was approved, and the shared preview had been     *)
(* photographed with it; not even a promotion by hand evades it               *)
(* (authorizeProductionRelease, deployProductionVersion).                     *)
THEOREM ServedWasApproved == Spec => []ProductionWasApproved
<1>1. Init => ProductionInv
  BY DEF Init, Idle, ProductionInv, Accountable, Releasing
<1>2. Base /\ ProductionInv /\ [Next]_vars => ProductionInv'
  BY ProductionInvStep
<1>3. ProductionInv => ProductionWasApproved
  BY DEF ProductionInv, ProductionWasApproved, Good
<1>4. QED
  BY <1>1, <1>2, <1>3, Invariance, PTL DEF Spec

-----------------------------------------------------------------------------
(***************************************************************************)
(* A workflow with a concurrency group has one run at a time.              *)
(***************************************************************************)
Serialized ==
  \A q, r \in Runs :
    KindOf[q] = KindOf[r] /\ KindOf[r] \in Serial /\ Running(q) /\ Running(r) => q = r

LEMMA SerializedStep ==
  ASSUME Base, Serialized, [Next]_vars
  PROVE  Serialized'
<1>1. CASE run' = run
  BY <1>1 DEF Serialized, Running
<1>2. ASSUME NEW r \in Runs, Proceeds(r)
      PROVE  Serialized'
  <2>1. \A q \in Runs \ {r} : Running(q)' <=> Running(q)
    BY <1>2 DEF Proceeds, RunsKept, Running
  <2>2. Running(r)' => Running(r) \/ MayStart(r)
    BY <1>2 DEF Proceeds, Follows, Begun
  <2>3. ASSUME NEW q \in Runs \ {r}, KindOf[q] = KindOf[r], KindOf[r] \in Serial,
               Running(q)', Running(r)'
        PROVE  FALSE
    BY <2>1, <2>2, <2>3 DEF Serialized, MayStart
  <2>4. \A p, q \in Runs \ {r} :
          KindOf[p] = KindOf[q] /\ KindOf[q] \in Serial /\ Running(p)' /\ Running(q)' => p = q
    BY <2>1 DEF Serialized
  <2>5. QED
    BY <2>3, <2>4 DEF Serialized
<1>3. CASE UNCHANGED vars
  BY <1>1, <1>3 DEF vars
<1>4. CASE Next
  BY <1>1, <1>2, <1>4, Writes, Steps
<1>5. QED
  BY <1>3, <1>4

LEMMA SerialRuns == Spec => []Serialized
<1>1. Init => Serialized
  BY DEF Init, Idle, Serialized, Running
<1>2. Base /\ Serialized /\ [Next]_vars => Serialized'
  BY SerializedStep
<1>3. QED
  BY <1>1, <1>2, Invariance, PTL DEF Spec

-----------------------------------------------------------------------------
(***************************************************************************)
(* The way back: between the deployment that a run found and its own there *)
(* is none, since no other run deploys and nobody promotes by hand.        *)
(***************************************************************************)
WayBack(previous, deployed, version) ==
  /\ previous \in DOMAIN live /\ deployed \in DOMAIN live /\ deployed = previous + 1
  /\ live[deployed] = version /\ live[previous] # version

Handed(r) ==
  Kind(r, "production") =>
    /\ At(r, "deploy") => run[r].previous = Len(live) /\ live[Len(live)] # run[r].version
    /\ At(r, "confirm") =>
         Len(live) = run[r].previous + 1 /\ WayBack(run[r].previous, Len(live), run[r].version)
    /\ run[r].at \in {"smoke", "publish"} =>
         WayBack(run[r].previous, run[r].deployed, run[r].version)

WayBackInv ==
  /\ \A r \in Runs : Handed(r)
  /\ \A m \in evidence : m.group = "production" => WayBack(m.previous, m.deployed, m.version)

LEMMA WayBackStays ==
  ASSUME Base, Grows, NEW p, NEW d, NEW v, WayBack(p, d, v)
  PROVE  WayBack(p, d, v)'
<1>1. \A i \in DOMAIN live : i \in DOMAIN live' /\ live'[i] = live[i]
  BY Kept
<1>2. QED
  BY <1>1 DEF WayBack

\* While one production run is between its question and its deployment, only it deploys.
LEMMA OnlyDeployer ==
  ASSUME "production" \in Serial, Base, Serialized, Written,
         NEW r \in Runs, Kind(r, "production"), run[r].at \in {"status", "deploy", "confirm"},
         ~(At(r, "deploy") /\ Act(r))
  PROVE  live' = live
<1>1. Running(r)
  BY DEF Running
<1>2. ~Promote
  BY <1>1 DEF Promote
<1>3. ASSUME NEW q \in Runs, Kind(q, "production"), At(q, "deploy")
      PROVE  q = r
  BY <1>1, <1>3 DEF Serialized, Running, At, Kind
<1>4. QED
  BY <1>2, <1>3 DEF Written

LEMMA HandedStep ==
  ASSUME "production" \in Serial, Base, Serialized, WayBackInv, NEW r \in Runs, Grows, Written,
         run'[r] = run[r] \/ (Act(r) /\ Proceeds(r))
  PROVE  Handed(r)'
<1>1. live \in Seq(Nat) /\ Len(live) \in Nat \ {0} /\ IsRun(run[r]) /\ Handed(r)
  BY DEF Base, TypeOK, WayBackInv
<1>2. \A p, d, v : WayBack(p, d, v) => WayBack(p, d, v)'
  BY WayBackStays
<1>3. ASSUME run'[r] = run[r], Kind(r, "production")
      PROVE  Handed(r)'
  <2>1. CASE run[r].at \in {"deploy", "confirm"}
    <3>1. CASE At(r, "deploy") /\ Act(r)
      \* Its own deployment moves it on or ends it.
      <4>1. Proceeds(r) /\ Running(r)' /\ run'[r].at = "deploy"
        BY <1>3, <2>1, <3>1, Steps DEF Running, At
      <4>2. Released(r, run[r], run'[r])
        BY <4>1 DEF Proceeds, Follows
      <4>3. QED
        BY <1>3, <3>1, <4>1, <4>2 DEF Released, At
    <3>2. CASE ~(At(r, "deploy") /\ Act(r))
      <4>1. live' = live
        BY <1>3, <2>1, <3>2, OnlyDeployer
      <4>2. QED
        BY <1>1, <1>3, <4>1 DEF Handed, At, WayBack, Kind
    <3>3. QED
      BY <3>1, <3>2
  <2>2. CASE run[r].at \in {"smoke", "publish"}
    BY <1>1, <1>2, <1>3, <2>2 DEF Handed, At, WayBack
  <2>3. CASE run[r].at \notin {"deploy", "confirm", "smoke", "publish"}
    BY <1>3, <2>3 DEF Handed, At
  <2>4. QED
    BY <2>1, <2>2, <2>3
<1>4. ASSUME Act(r), Proceeds(r), Kind(r, "production"),
             run'[r].at \in {"deploy", "confirm", "smoke", "publish"}
      PROVE  Handed(r)'
  <2>1. Running(r)'
    BY <1>4 DEF Running
  <2>2. Released(r, run[r], run'[r]) /\ run'[r].version = run[r].version
    BY <1>4, <2>1 DEF Proceeds, Follows, Released
  <2>3. CASE run'[r].at = "deploy"
    <3>1. run[r].at = "status" /\ live[Len(live)] # run[r].version /\ run'[r].previous = Len(live)
      BY <1>4, <2>2, <2>3 DEF Released, Current
    <3>2. live' = live
      BY <1>4, <3>1, OnlyDeployer DEF At
    <3>3. QED
      BY <2>2, <2>3, <3>1, <3>2 DEF Handed, At
  <2>4. CASE run'[r].at = "confirm"
    <3>1. /\ run[r].at = "deploy" /\ run'[r].previous = run[r].previous
          /\ live' = Append(live, run[r].version)
      BY <1>4, <2>2, <2>4 DEF Released
    <3>2. run[r].previous = Len(live) /\ live[Len(live)] # run[r].version
      BY <1>1, <1>4, <3>1 DEF Handed, At
    <3>3. /\ Len(live') = Len(live) + 1 /\ live'[Len(live) + 1] = run[r].version
          /\ live'[Len(live)] = live[Len(live)] /\ DOMAIN live' = 1 .. Len(live) + 1
      BY <1>1, <3>1 DEF IsRun
    <3>4. QED
      BY <1>1, <2>2, <2>4, <3>1, <3>2, <3>3 DEF Handed, At, WayBack
  <2>5. CASE run'[r].at = "smoke"
    <3>1. /\ run[r].at = "confirm" /\ run'[r].previous = run[r].previous
          /\ run'[r].deployed = Len(live)
      BY <1>4, <2>2, <2>5 DEF Released, Current
    <3>2. WayBack(run[r].previous, Len(live), run[r].version)
      BY <1>1, <1>4, <3>1 DEF Handed, At
    <3>3. live' = live
      BY <1>4, <3>1, OnlyDeployer DEF At
    <3>4. QED
      BY <2>2, <2>5, <3>1, <3>2, <3>3 DEF Handed, At, WayBack
  <2>6. CASE run'[r].at = "publish"
    <3>1. /\ run[r].at = "smoke" /\ run'[r].previous = run[r].previous
          /\ run'[r].deployed = run[r].deployed
      BY <1>4, <2>2, <2>6 DEF Released
    <3>2. WayBack(run[r].previous, run[r].deployed, run[r].version)
      BY <1>1, <1>4, <3>1 DEF Handed
    <3>3. QED
      BY <1>2, <2>2, <2>6, <3>1, <3>2 DEF Handed, At, WayBack
  <2>7. QED
    BY <1>4, <2>3, <2>4, <2>5, <2>6
<1>5. QED
  BY <1>3, <1>4 DEF Handed, Kind, At

LEMMA WayBackStep ==
  ASSUME "production" \in Serial, Base, Serialized, WayBackInv, [Next]_vars
  PROVE  WayBackInv'
<1>1. CASE UNCHANGED vars
  BY <1>1 DEF vars, githubVars, cloudVars, recordVars, WayBackInv, Handed, WayBack, Kind, At
<1>2. CASE Next
  <2>1. Grows /\ Written
    BY <1>2, Writes
  <2>2. \A r \in Runs : Handed(r)'
    BY <1>2, Turns, HandedStep
  <2>3. ASSUME NEW m \in evidence', m.group = "production"
        PROVE  WayBack(m.previous, m.deployed, m.version)
    <3>1. CASE m \in evidence
      BY <2>3, <3>1 DEF WayBackInv
    <3>2. CASE m \notin evidence
      <4>1. PICK r \in Runs :
              /\ At(r, "publish")
              /\ ~Kind(r, "production") => m \in Captured(r)
              /\ Kind(r, "production") => m = Recorded(r) /\ live' = live
        BY <2>1, <3>2 DEF Written
      <4>2. Kind(r, "production")
        BY <2>3, <4>1 DEF Captured, Manifest
      <4>3. /\ m.previous = run[r].previous /\ m.deployed = run[r].deployed
            /\ m.version = run[r].version
        BY <4>1, <4>2 DEF Recorded, Manifest
      <4>4. QED
        BY <4>1, <4>2, <4>3 DEF WayBackInv, Handed, At
    <3>3. QED
      BY <3>1, <3>2
  <2>4. \A m \in evidence' : m.group = "production" =>
          WayBack(m.previous, m.deployed, m.version)'
    BY <2>1, <2>3, WayBackStays
  <2>5. QED
    BY <2>2, <2>4 DEF WayBackInv
<1>3. QED
  BY <1>1, <1>2

(* When production.yml has its concurrency group, the record of a release     *)
(* names the deployment that its own run replaced and the one that run made,  *)
(* next to each other: promoting the former is the way back                   *)
(* (deployProductionVersion, publishProductionEvidence).                      *)
THEOREM WayBackRecorded ==
  ASSUME "production" \in Serial
  PROVE  Spec => []RecordsTheWayBack
<1>1. Init => WayBackInv
  BY DEF Init, Idle, WayBackInv, Handed, At
<1>2. Base /\ Serialized /\ WayBackInv /\ [Next]_vars => WayBackInv'
  BY WayBackStep
<1>3. WayBackInv => RecordsTheWayBack
  BY DEF WayBackInv, RecordsTheWayBack, WayBack
<1>4. QED
  BY <1>1, <1>2, <1>3, Invariance, SerialRuns, PTL DEF Spec

-----------------------------------------------------------------------------
(***************************************************************************)
(* The pictures: an alias shows the last version uploaded under its tag,   *)
(* and all of those are of one commit; the shared preview shows what was   *)
(* last deployed, which is the version of the run while no other deploys.  *)
(***************************************************************************)
Uploaded(tag) == \E v \in DOMAIN preview : preview[v] = tag

PrPictures(r) ==
  /\ run[r].at \in {"listBase", "uploadHead", "listHead", "capture"} => Uploaded(BaseTag(r))
  /\ run[r].at \in {"listHead", "capture"} => Uploaded(HeadTag(r))
  /\ At(r, "publish") => run[r].shown.base = run[r].base /\ run[r].shown.head = run[r].sha

SharedPictures(r) ==
  /\ run[r].at \in {"list", "deploy", "capture"} =>
       run[r].version \in DOMAIN preview /\ preview[run[r].version].sha = run[r].sha
  /\ At(r, "capture") => shared = run[r].version
  /\ At(r, "publish") => run[r].shown.head = run[r].sha

PicturesInv ==
  /\ \A r \in Runs :
       (Kind(r, "pr") => PrPictures(r)) /\ (Kind(r, "shared") => SharedPictures(r))
  /\ PicturesAreTrue

\* A set of places that is not empty has a last one: the least of its bounds.
LEMMA Latest ==
  ASSUME NEW n \in Nat, NEW S \in SUBSET (1 .. n), S # {}
  PROVE  Max(S) \in S
<1> DEFINE bounds == {b \in Nat : \A k \in S : k <= b}
<1>1. bounds \subseteq Nat /\ n \in bounds
  OBVIOUS
<1>2. PICK b \in bounds : \A c \in bounds : ~(<<c, b>> \in OpToRel(<, Nat))
  BY <1>1, NatLessThanWellFounded, WFMin
<1>3. b \in S
  <2> SUFFICES ASSUME b \notin S PROVE FALSE
    OBVIOUS
  <2>1. b \in Nat /\ \A k \in S : k \in Nat /\ k <= b /\ k # b
    BY <1>1
  <2>2. PICK k \in S : k \in 1 .. n
    OBVIOUS
  <2>3. b - 1 \in Nat /\ \A j \in S : j <= b - 1
    BY <2>1, <2>2
  <2>4. b - 1 \in bounds
    BY <2>3
  <2>5. <<b - 1, b>> \in OpToRel(<, Nat)
    BY <2>1, <2>3 DEF OpToRel
  <2>6. QED
    BY <1>2, <2>4, <2>5
<1>4. \A k \in S : b >= k
  BY <1>1
<1>5. \E x \in S : \A k \in S : x >= k
  BY <1>3, <1>4
<1>6. QED
  BY <1>5 DEF Max

\* What an alias shows.
LEMMA AliasIs ==
  ASSUME Base, NEW tag, Uploaded(tag)
  PROVE  AliasShows(tag) = tag.sha
<1> DEFINE S == {v \in 1 .. Len(preview) : preview[v] = tag}
<1>1. Len(preview) \in Nat /\ DOMAIN preview = 1 .. Len(preview)
  BY DEF Base, TypeOK
<1>2. S # {} /\ S \in SUBSET (1 .. Len(preview))
  BY <1>1 DEF Uploaded
<1>3. Max(S) \in S
  BY <1>1, <1>2, Latest
<1>4. Max(S) # 0 /\ preview[Max(S)] = tag
  BY <1>1, <1>3
<1>5. QED
  BY <1>4 DEF AliasShows, Served

LEMMA UploadedStays ==
  ASSUME Base, Grows
  PROVE  /\ \A v \in DOMAIN preview : v \in DOMAIN preview' /\ preview'[v] = preview[v]
         /\ \A tag : Uploaded(tag) => Uploaded(tag)'
<1>1. \A v \in DOMAIN preview : v \in DOMAIN preview' /\ preview'[v] = preview[v]
  BY Kept
<1>2. QED
  BY <1>1 DEF Uploaded

\* What has just been uploaded.
LEMMA JustUploaded ==
  ASSUME Base, NEW tag \in Previews, preview' = Append(preview, tag)
  PROVE  /\ NextVersion(preview) \in DOMAIN preview' /\ preview'[NextVersion(preview)] = tag
         /\ Uploaded(tag)'
<1>1. preview \in Seq(Previews)
  BY DEF Base, TypeOK
<1>2. /\ NextVersion(preview) \in DOMAIN preview' /\ preview'[NextVersion(preview)] = tag
  BY <1>1 DEF NextVersion
<1>3. QED
  BY <1>2 DEF Uploaded

LEMMA TagTypes ==
  ASSUME Base, NEW r \in Runs, Running(r)
  PROVE  BaseTag(r) \in Previews /\ HeadTag(r) \in Previews /\ ReleaseTag(r) \in Previews
BY DEF Base, TypeOK, Placed, IsRun, BaseTag, HeadTag, ReleaseTag, Preview, Previews

LEMMA PrPicturesStep ==
  ASSUME Base, NEW r \in Runs, Kind(r, "pr"), PrPictures(r), Grows,
         run'[r] = run[r] \/ (Act(r) /\ Proceeds(r))
  PROVE  PrPictures(r)'
<1>1. \A tag : Uploaded(tag) => Uploaded(tag)'
  BY UploadedStays
<1>2. ASSUME run'[r].sha = run[r].sha, run'[r].base = run[r].base
      PROVE  BaseTag(r)' = BaseTag(r) /\ HeadTag(r)' = HeadTag(r)
  BY <1>2 DEF BaseTag, HeadTag, Preview
<1>3. /\ Uploaded(BaseTag(r)) /\ BaseTag(r)' = BaseTag(r) => Uploaded(BaseTag(r))'
      /\ Uploaded(HeadTag(r)) /\ HeadTag(r)' = HeadTag(r) => Uploaded(HeadTag(r))'
  BY <1>1 DEF Uploaded
<1>4. CASE run'[r] = run[r]
  BY <1>2, <1>3, <1>4 DEF PrPictures, At
<1>5. ASSUME Proceeds(r), Running(r)', run'[r].at # "uploadBase"
      PROVE  PrPictures(r)'
  <2>1. /\ Begun(r, run[r], run'[r]) /\ Previewed(r, run[r], run'[r])
        /\ Evidenced(r, run[r], run'[r]) /\ Placed(r)'
    BY <1>5 DEF Proceeds, Follows
  <2>2. run'[r].at \in LabelsOf.pr
    BY <1>5, <2>1 DEF Placed, Kind, Running
  <2>3. run'[r].sha = run[r].sha /\ run'[r].base = run[r].base /\ Running(r)
    BY <1>5, <2>1, <2>2 DEF Begun, Starts, LabelsOf
  <2>4. BaseTag(r)' = BaseTag(r) /\ HeadTag(r)' = HeadTag(r)
    BY <1>2, <2>3
  <2>5. BaseTag(r) \in Previews /\ HeadTag(r) \in Previews
    BY <2>3, TagTypes
  <2>6. CASE run'[r].at = "listBase"
    <3>1. preview' = Append(preview, BaseTag(r))
      BY <2>1, <2>6 DEF Previewed
    <3>2. Uploaded(BaseTag(r))'
      BY <2>4, <2>5, <3>1, JustUploaded DEF Uploaded
    <3>3. QED
      BY <2>6, <3>2 DEF PrPictures, At
  <2>7. CASE run'[r].at = "uploadHead"
    BY <1>3, <2>1, <2>4, <2>7 DEF Previewed, PrPictures, At
  <2>8. CASE run'[r].at = "listHead"
    <3>1. run[r].at = "uploadHead" /\ preview' = Append(preview, HeadTag(r))
      BY <2>1, <2>8 DEF Previewed
    <3>2. Uploaded(HeadTag(r))'
      BY <2>4, <2>5, <3>1, JustUploaded DEF Uploaded
    <3>3. QED
      BY <1>3, <2>4, <2>8, <3>1, <3>2 DEF PrPictures, At
  <2>9. CASE run'[r].at = "capture"
    <3>1. run[r].at = "listHead"
      BY <2>1, <2>9 DEF Evidenced
    <3>2. QED
      BY <1>3, <2>4, <2>9, <3>1 DEF PrPictures, At
  <2>10. CASE run'[r].at = "publish"
    <3>1. /\ run[r].at = "capture"
          /\ run'[r].shown = [base |-> AliasShows(BaseTag(r)), head |-> AliasShows(HeadTag(r))]
      BY <2>1, <2>10 DEF Evidenced
    <3>2. Uploaded(BaseTag(r)) /\ Uploaded(HeadTag(r))
      BY <3>1 DEF PrPictures
    <3>3. AliasShows(BaseTag(r)) = run[r].base /\ AliasShows(HeadTag(r)) = run[r].sha
      BY <3>2, AliasIs DEF BaseTag, HeadTag, Preview
    <3>4. QED
      BY <2>3, <2>10, <3>1, <3>3 DEF PrPictures, At
  <2>11. CASE run'[r].at \in {"comment", "review"}
    BY <2>11 DEF PrPictures, At
  <2>12. QED
    BY <1>5, <2>2, <2>6, <2>7, <2>8, <2>9, <2>10, <2>11 DEF LabelsOf
<1>6. CASE ~(Running(r)' /\ run'[r].at # "uploadBase")
  BY <1>6 DEF PrPictures, At, Running
<1>7. QED
  BY <1>4, <1>5, <1>6

\* While one run of shared-preview.yml is active, only it moves the shared preview.
LEMMA OnlySharer ==
  ASSUME "shared" \in Serial, Base, Serialized, Written,
         NEW r \in Runs, Kind(r, "shared"), Running(r), ~(At(r, "deploy") /\ Act(r))
  PROVE  shared' = shared
<1>1. ASSUME NEW q \in Runs, Kind(q, "shared"), At(q, "deploy")
      PROVE  q = r
  BY <1>1 DEF Serialized, Running, At, Kind
<1>2. QED
  BY <1>1 DEF Written

LEMMA SharedPicturesStep ==
  ASSUME "shared" \in Serial, Base, Serialized, NEW r \in Runs, Kind(r, "shared"),
         SharedPictures(r), Grows, Written, run'[r] = run[r] \/ (Act(r) /\ Proceeds(r))
  PROVE  SharedPictures(r)'
<1>1. \A v \in DOMAIN preview : v \in DOMAIN preview' /\ preview'[v] = preview[v]
  BY UploadedStays
<1>2. CASE run'[r] = run[r]
  <2>1. At(r, "capture") => shared' = shared
    BY OnlySharer DEF At, Running
  <2>2. QED
    BY <1>1, <1>2, <2>1 DEF SharedPictures, At
<1>3. ASSUME Proceeds(r), Running(r)', run'[r].at \in {"list", "deploy", "capture", "publish"}
      PROVE  SharedPictures(r)'
  <2>1. /\ Begun(r, run[r], run'[r]) /\ Previewed(r, run[r], run'[r])
        /\ Evidenced(r, run[r], run'[r])
    BY <1>3 DEF Proceeds, Follows
  <2>2. run'[r].sha = run[r].sha /\ Running(r)
    BY <1>3, <2>1 DEF Begun, Starts
  <2>3. CASE run'[r].at = "list"
    <3>1. /\ run'[r].version = NextVersion(preview)
          /\ preview' = Append(preview, ReleaseTag(r))
      BY <2>1, <2>3 DEF Previewed
    <3>2. /\ NextVersion(preview) \in DOMAIN preview'
          /\ preview'[NextVersion(preview)] = ReleaseTag(r)
      BY <2>2, <3>1, TagTypes, JustUploaded
    <3>3. ReleaseTag(r).sha = run[r].sha
      BY DEF ReleaseTag, Preview
    <3>4. QED
      BY <2>2, <2>3, <3>1, <3>2, <3>3 DEF SharedPictures, At
  <2>4. CASE run'[r].at \in {"deploy", "capture"}
    <3>1. /\ run'[r].version = run[r].version /\ run[r].at \in {"list", "deploy"}
          /\ run'[r].at = "capture" => shared' = run[r].version
      BY <2>1, <2>4 DEF Previewed, Evidenced
    <3>2. QED
      BY <1>1, <2>2, <2>4, <3>1 DEF SharedPictures, At
  <2>5. CASE run'[r].at = "publish"
    <3>1. run[r].at = "capture" /\ run'[r].shown.head = Served(shared)
      BY <2>1, <2>5 DEF Evidenced
    <3>2. /\ shared \in DOMAIN preview /\ preview[shared].sha = run[r].sha
          /\ preview \in Seq(Previews)
      BY <3>1 DEF SharedPictures, At, Base, TypeOK
    <3>3. Served(shared) = run[r].sha
      BY <3>2 DEF Served
    <3>4. QED
      BY <2>2, <2>5, <3>1, <3>3 DEF SharedPictures, At
  <2>6. QED
    BY <1>3, <2>3, <2>4, <2>5
<1>4. CASE run'[r].at \notin {"list", "deploy", "capture", "publish"}
  BY <1>4 DEF SharedPictures, At
<1>5. QED
  BY <1>2, <1>3, <1>4 DEF Running

LEMMA PicturesStep ==
  ASSUME "shared" \in Serial, Base, Serialized, PicturesInv, [Next]_vars
  PROVE  PicturesInv'
<1>1. CASE UNCHANGED vars
  BY <1>1 DEF vars, githubVars, cloudVars, recordVars, PicturesInv, PrPictures, SharedPictures,
    Uploaded, BaseTag, HeadTag, Preview, Kind, At, PicturesAreTrue
<1>2. CASE Next
  <2>1. Grows /\ Written
    BY <1>2, Writes
  <2>2. ASSUME NEW r \in Runs
        PROVE  /\ Kind(r, "pr") => PrPictures(r)'
               /\ Kind(r, "shared") => SharedPictures(r)'
    BY <1>2, Turns, PrPicturesStep, SharedPicturesStep DEF PicturesInv
  <2>3. ASSUME NEW m \in evidence'
        PROVE  m.shown = m.sha
    <3>1. CASE m \in evidence
      BY <3>1 DEF PicturesInv, PicturesAreTrue
    <3>2. CASE m \notin evidence
      <4>1. PICK r \in Runs :
              /\ At(r, "publish")
              /\ ~Kind(r, "production") => m \in Captured(r)
              /\ Kind(r, "production") => m = Recorded(r)
        BY <2>1, <3>2 DEF Written
      <4>2. CASE Kind(r, "pr")
        <5>1. run[r].shown.base = run[r].base /\ run[r].shown.head = run[r].sha
          BY <4>1, <4>2 DEF PicturesInv, PrPictures
        <5>2. m \in Captured(r)
          BY <4>1, <4>2, KindIs
        <5>3. QED
          BY <4>2, <5>1, <5>2 DEF Captured, Manifest
      <4>3. CASE Kind(r, "shared")
        <5>1. run[r].shown.head = run[r].sha
          BY <4>1, <4>3 DEF PicturesInv, SharedPictures
        <5>2. m \in Captured(r) /\ ~Kind(r, "pr")
          BY <4>1, <4>3, KindIs
        <5>3. QED
          BY <5>1, <5>2 DEF Captured, Manifest
      <4>4. CASE Kind(r, "production")
        BY <4>1, <4>4 DEF Recorded, Manifest
      <4>5. QED
        BY <4>2, <4>3, <4>4, KindIs
    <3>3. QED
      BY <3>1, <3>2
  <2>4. QED
    BY <2>2, <2>3 DEF PicturesInv, PicturesAreTrue, Kind
<1>3. QED
  BY <1>1, <1>2

(* A picture in the evidence branch shows the commit its path names: those of *)
(* a pull request because no two commits share a tag, those of a release when *)
(* shared-preview.yml has its concurrency group, which is what keeps another  *)
(* run from redirecting the address while it is photographed                  *)
(* (capturePullRequestEvidence, captureReleaseEvidence).                      *)
THEOREM PicturesShowTheirCommit ==
  ASSUME "shared" \in Serial
  PROVE  Spec => []PicturesAreTrue
<1>1. Init => PicturesInv
  BY DEF Init, Idle, PicturesInv, PrPictures, SharedPictures, At, PicturesAreTrue
<1>2. Base /\ Serialized /\ PicturesInv /\ [Next]_vars => PicturesInv'
  BY PicturesStep
<1>3. PicturesInv => PicturesAreTrue
  BY DEF PicturesInv
<1>4. QED
  BY <1>1, <1>2, <1>3, Invariance, SerialRuns, PTL DEF Spec

-----------------------------------------------------------------------------
(***************************************************************************)
(* The shared preview never goes back: a run starts at the tip of main,    *)
(* and until it ends nothing older can be deployed and nothing newer is.   *)
(***************************************************************************)
AheadInv ==
  /\ shared # 0 => shared \in DOMAIN preview /\ CommitOf(shared)[1] \in ToSet(main)
  /\ \A r \in Runs : Kind(r, "shared") /\ Running(r) =>
       /\ run[r].sha[1] \in ToSet(main)
       /\ Place(CommitOf(shared)[1]) <= Place(run[r].sha[1])

\* The places of what is merged.
LEMMA PlaceIs ==
  ASSUME Base
  PROVE  /\ \A i \in DOMAIN main : Place(main[i]) = i
         /\ \A p : Place(p) \in Nat /\ Place(p) <= Len(main)
<1>1. main \in Seq(Prs) /\ \A i, j \in DOMAIN main : main[i] = main[j] => i = j
  BY DEF Base, TypeOK, MergedOnce
<1>2. ASSUME NEW i \in DOMAIN main
      PROVE  Place(main[i]) = i
  BY <1>1, <1>2 DEF Place, ToSet
<1>3. ASSUME NEW p
      PROVE  Place(p) \in Nat /\ Place(p) <= Len(main)
  <2>1. CASE p \in ToSet(main)
    <3>1. PICK i \in DOMAIN main : p = main[i]
      BY <2>1 DEF ToSet
    <3>2. QED
      BY <1>1, <1>2, <3>1
  <2>2. CASE p \notin ToSet(main)
    BY <1>1, <2>2 DEF Place
  <2>3. QED
    BY <2>1, <2>2
<1>4. QED
  BY <1>2, <1>3

LEMMA PlaceStays ==
  ASSUME Base, Base', Grows, NEW p, p \in ToSet(main)
  PROVE  p \in ToSet(main)' /\ Place(p)' = Place(p)
<1>1. main \in Seq(Prs)
  BY DEF Base, TypeOK
<1>2. \A i \in DOMAIN main : i \in DOMAIN main' /\ main'[i] = main[i]
  BY Kept
<1>3. PICK i \in DOMAIN main : p = main[i]
  BY DEF ToSet
<1>4. Place(p) = i
  BY <1>3, PlaceIs
<1>5. \A j, k \in DOMAIN main' : main'[j] = main'[k] => j = k
  BY DEF Base, MergedOnce
<1>6. Place(p)' = i
  BY <1>2, <1>3, <1>5 DEF Place, ToSet
<1>7. QED
  BY <1>2, <1>3, <1>4, <1>6 DEF ToSet

\* The tip is the last place.
LEMMA TipIsLast ==
  ASSUME Base, NEW p \in ToSet(main), AtTip(Merged(p))
  PROVE  Place(p) = Len(main)
<1>1. main \in Seq(Prs) /\ main # <<>>
  BY DEF Base, TypeOK, ToSet
<1>2. p = main[Len(main)]
  BY <1>1 DEF AtTip, Tip, Merged, Last
<1>3. QED
  BY <1>1, <1>2, PlaceIs

\* What a step does to the shared preview.
LEMMA SharedMoves ==
  ASSUME Base, PicturesInv, AheadInv, Next
  PROVE  /\ shared' = shared => CommitOf(shared)' = CommitOf(shared)
         /\ shared' # shared =>
              \E r \in Runs :
                /\ Kind(r, "shared") /\ At(r, "deploy") /\ Act(r)
                /\ shared' \in DOMAIN preview' /\ CommitOf(shared)' = run[r].sha
<1>1. Grows /\ Written /\ preview \in Seq(Previews)
  BY Writes DEF Base, TypeOK
<1>2. \A v \in DOMAIN preview : v \in DOMAIN preview' /\ preview'[v] = preview[v]
  BY <1>1, UploadedStays
<1>3. CASE shared' = shared
  BY <1>2, <1>3 DEF AheadInv, CommitOf
<1>4. CASE shared' # shared
  <2>1. PICK r \in Runs :
          Kind(r, "shared") /\ At(r, "deploy") /\ shared' = run[r].version /\ Act(r)
    BY <1>1, <1>4 DEF Written
  <2>2. run[r].version \in DOMAIN preview /\ preview[run[r].version].sha = run[r].sha
    BY <2>1 DEF PicturesInv, SharedPictures, At
  <2>3. run[r].version # 0
    BY <1>1, <2>2
  <2>4. CommitOf(shared)' = run[r].sha
    BY <1>2, <2>1, <2>2, <2>3 DEF CommitOf
  <2>5. QED
    BY <1>2, <1>4, <2>1, <2>2, <2>4
<1>5. QED
  BY <1>3, <1>4

LEMMA NotBack ==
  ASSUME Base, PicturesInv, AheadInv, [Next]_vars
  PROVE  [Place(CommitOf(shared)[1]) <= Place(CommitOf(shared)'[1])]_vars
<1>1. SUFFICES ASSUME Next
               PROVE  Place(CommitOf(shared)[1]) <= Place(CommitOf(shared)'[1])
  OBVIOUS
<1>2. CASE shared' = shared
  BY <1>1, <1>2, SharedMoves, PlaceIs
<1>3. CASE shared' # shared
  <2>1. PICK r \in Runs :
          Kind(r, "shared") /\ At(r, "deploy") /\ CommitOf(shared)' = run[r].sha
    BY <1>1, <1>3, SharedMoves
  <2>2. QED
    BY <2>1 DEF AheadInv, Running, At
<1>4. QED
  BY <1>2, <1>3

LEMMA AheadStep ==
  ASSUME "shared" \in Serial, Base, Base', Serialized, PicturesInv, AheadInv, [Next]_vars
  PROVE  AheadInv'
<1>1. CASE UNCHANGED vars
  BY <1>1 DEF vars, githubVars, cloudVars, recordVars, AheadInv, Kind, Running, CommitOf, Place
<1>2. CASE Next
  <2>1. Grows /\ Written
    BY <1>2, Writes
  <2>2. \A p \in ToSet(main) : p \in ToSet(main)' /\ Place(p)' = Place(p)
    BY <2>1, PlaceStays
  <2>3. /\ shared' # 0 => shared' \in DOMAIN preview' /\ CommitOf(shared)'[1] \in ToSet(main)
        /\ shared' = 0 => CommitOf(shared)' = Initial
    <3>1. CASE shared' = shared
      <4>1. CommitOf(shared)' = CommitOf(shared)
        BY <1>2, <3>1, SharedMoves
      <4>2. \A v \in DOMAIN preview : v \in DOMAIN preview'
        BY <2>1, UploadedStays
      <4>3. QED
        BY <3>1, <4>1, <4>2 DEF AheadInv, CommitOf
    <3>2. CASE shared' # shared
      <4>1. PICK r \in Runs :
              /\ Kind(r, "shared") /\ At(r, "deploy")
              /\ shared' \in DOMAIN preview' /\ CommitOf(shared)' = run[r].sha
        BY <1>2, <3>2, SharedMoves
      <4>2. run[r].sha[1] \in ToSet(main)
        BY <4>1 DEF AheadInv, Running, At
      <4>3. preview' \in Seq(Previews)'
        BY DEF Base, TypeOK
      <4>4. shared' # 0
        BY <4>1, <4>3
      <4>5. QED
        BY <4>1, <4>2, <4>4
    <3>3. QED
      BY <3>1, <3>2
  \* The commit that is served is as far as before in a longer main.
  <2>4. Place(CommitOf(shared)[1])' = Place(CommitOf(shared)'[1])
    <3> DEFINE c == CommitOf(shared)'
    <3>1. c[1] \in ToSet(main) \/ c = Initial
      BY <2>3
    <3> HIDE DEF c
    <3>2. CASE c[1] \in ToSet(main)
      BY <2>2, <3>2 DEF c, Place
    <3>3. CASE c = Initial
      <4>1. c[1] = None /\ None \notin Prs
        BY <3>3, ReleaseConstants DEF Initial, Merged
      <4>2. main \in Seq(Prs) /\ main' \in Seq(Prs)
        BY <2>1, Kept DEF Base, TypeOK
      <4>3. None \notin ToSet(main)
        BY <4>1, <4>2 DEF ToSet
      <4>4. None \notin ToSet(main)'
        BY <4>1, <4>2 DEF ToSet
      <4>5. QED
        BY <4>1, <4>3, <4>4 DEF c, Place
    <3>4. QED
      BY <3>1, <3>2, <3>3
  <2>5. ASSUME NEW r \in Runs, Kind(r, "shared"), Running(r)'
        PROVE  /\ run'[r].sha[1] \in ToSet(main)'
               /\ Place(CommitOf(shared)[1])' <= Place(run[r].sha[1])'
    <3> DEFINE p == run'[r].sha[1]
    <3>1. ASSUME p \in ToSet(main), Place(CommitOf(shared)'[1]) <= Place(p)
          PROVE  /\ run'[r].sha[1] \in ToSet(main)'
                 /\ Place(CommitOf(shared)[1])' <= Place(run[r].sha[1])'
      <4>1. Place(run[r].sha[1])' = Place(p)
        BY <2>2, <3>1 DEF Place
      <4>2. p \in ToSet(main)'
        BY <2>2, <3>1
      <4>3. QED
        BY <2>4, <3>1, <4>1, <4>2
    <3>2. CASE Running(r) /\ run'[r].sha = run[r].sha
      <4>1. run[r].sha[1] \in ToSet(main) /\ Place(CommitOf(shared)[1]) <= Place(run[r].sha[1])
        BY <2>5, <3>2 DEF AheadInv
      <4>2. Place(CommitOf(shared)'[1]) <= Place(run[r].sha[1])
        <5>1. CASE shared' = shared
          BY <1>2, <4>1, <5>1, SharedMoves
        <5>2. CASE shared' # shared
          <6>1. PICK q \in Runs :
                  Kind(q, "shared") /\ At(q, "deploy") /\ CommitOf(shared)' = run[q].sha
            BY <1>2, <5>2, SharedMoves
          <6>2. q = r
            BY <2>5, <3>2, <6>1 DEF Serialized, Running, At, Kind
          <6>3. QED
            BY <6>1, <6>2, PlaceIs
        <5>3. QED
          BY <5>1, <5>2
      <4>3. QED
        BY <3>1, <3>2, <4>1, <4>2
    <3>3. CASE ~(Running(r) /\ run'[r].sha = run[r].sha)
      <4>1. Act(r) /\ Proceeds(r)
        BY <1>2, <2>5, <3>3, Turns DEF Running
      <4>2. Begun(r, run[r], run'[r]) /\ Placed(r)'
        BY <2>5, <4>1 DEF Proceeds, Follows
      <4>3. run'[r].at \in Starts
        BY <3>3, <4>2 DEF Begun
      <4>4. run'[r].at = "recheck"
        BY <2>5, <4>2, <4>3, KindIs DEF Begun, Starts
      <4>5. run'[r].sha = Merged(p) /\ p \in ToSet(main) /\ AtTip(Merged(p))
        BY <4>2, <4>4 DEF Begun
      <4>6. Place(p) = Len(main)
        BY <4>5, TipIsLast
      <4>7. QED
        BY <3>1, <4>5, <4>6, PlaceIs
    <3>4. QED
      BY <3>2, <3>3
  <2>6. shared' # 0 => CommitOf(shared)'[1] \in ToSet(main)'
    BY <2>2, <2>3
  <2>7. QED
    BY <2>3, <2>5, <2>6 DEF AheadInv, Kind
<1>3. QED
  BY <1>1, <1>2

(* With its concurrency group, shared-preview.yml never takes the shared      *)
(* preview back to a commit that main had left behind: a run starts only for  *)
(* the tip, asks again before it deploys, and no run deploys behind its back, *)
(* whatever fails halfway (resolveMainRun, assertCurrentMainHead,             *)
(* deployExactVersion).                                                       *)
THEOREM NeverBack ==
  ASSUME "shared" \in Serial
  PROVE  Spec => SharedNeverGoesBack
<1>1. Init => AheadInv
  BY DEF Init, Idle, AheadInv, Running
<1>2. Base /\ Base' /\ Serialized /\ PicturesInv /\ AheadInv /\ [Next]_vars => AheadInv'
  BY AheadStep
<1>3. Init => PicturesInv
  BY DEF Init, Idle, PicturesInv, PrPictures, SharedPictures, At, PicturesAreTrue
<1>4. Base /\ Serialized /\ PicturesInv /\ [Next]_vars => PicturesInv'
  BY PicturesStep
<1>5. /\ Base /\ PicturesInv /\ AheadInv /\ [Next]_vars
      => [Place(CommitOf(shared)[1]) <= Place(CommitOf(shared)'[1])]_vars
  BY NotBack
<1>6. QED
  BY <1>1, <1>2, <1>3, <1>4, <1>5, Invariance, SerialRuns, PTL DEF Spec, SharedNeverGoesBack

-----------------------------------------------------------------------------
(***************************************************************************)
(* Bundles, between the job that builds and the job that uploads.  What    *)
(* verifySealedBundle accepts is determined by the hash: it is computed    *)
(* again from the files, and two files of one description are one file,    *)
(* because nothing but regular files is accepted.                          *)
(***************************************************************************)
\* A manifest has what manifestWithDigest puts there.
IsManifest(m) ==
  m = [signed |-> [role |-> m.signed.role, sourceSha |-> m.signed.sourceSha,
                   profileSha256 |-> m.signed.profileSha256,
                   topology |-> m.signed.topology, files |-> m.signed.files],
       bundleSha256 |-> m.bundleSha256]

\* Two trees of regular files with one inventory are one tree.
LEMMA SameFiles ==
  ASSUME NEW s, NEW t, IsTree(s), IsTree(t), Collectable(s), Collectable(t),
         Inventory(s) = Inventory(t)
  PROVE  s = t
<1>1. DOMAIN s = DOMAIN t
  BY DEF Inventory
<1>2. ASSUME NEW name \in DOMAIN s
      PROVE  /\ s[name].kind = t[name].kind /\ s[name].mode = t[name].mode
             /\ s[name].bytes = t[name].bytes /\ s[name].what = t[name].what
  <2>1. s[name].kind = "file" /\ t[name].kind = "file"
    BY <1>1 DEF Collectable, Regular
  <2>2. Inventory(s)[name] = Inventory(t)[name]
    OBVIOUS
  <2>3. [bytes |-> s[name].bytes, mode |-> s[name].mode, sha256 |-> s[name].what]
         = [bytes |-> t[name].bytes, mode |-> t[name].mode, sha256 |-> t[name].what]
    BY <1>1, <2>2 DEF Inventory
  <2>4. QED
    BY <2>1, <2>3
<1>3. QED
  BY <1>1, <1>2 DEF IsTree

\* What createSealedBundle returns, it made of a tree it looked at.
LEMMA SealedOf ==
  ASSUME NEW tree, NEW id, Seal(tree, id) # None
  PROVE  /\ ValidIdentity(id) /\ ApprovedProfile(id)
         /\ Configured(tree, id.profile) /\ Collectable(tree)
         /\ Seal(tree, id) = ManifestOf(tree, id)
BY DEF Seal

\* Whatever tree, and whatever else in the manifest, comes with the hash of a seal: if
\* verifySealedBundle accepts it, it is the bundle that was sealed.
LEMMA VerifiedIsSealed ==
  ASSUME NEW b, Seal(b.tree, b.id) # None, IsTree(b.tree),
         NEW root, IsTree(root.tree), IsManifest(root.manifest), NEW id, Verify(root, id),
         root.manifest.bundleSha256 = Seal(b.tree, b.id).bundleSha256
  PROVE  /\ ~root.extra /\ root.tree = b.tree /\ root.manifest = Seal(b.tree, b.id)
         /\ id.role = b.id.role /\ id.sourceSha = b.id.sourceSha
         /\ id.target = b.id.target /\ id.profile = b.id.profile
<1> DEFINE m == root.manifest.signed
           s == Seal(b.tree, b.id)
<1>1. /\ ApprovedProfile(b.id) /\ Collectable(b.tree) /\ s = ManifestOf(b.tree, b.id)
  BY SealedOf
<1>2. /\ ~root.extra /\ IsExpected(root.manifest, id) /\ ApprovedProfile(id)
      /\ Collectable(root.tree) /\ Inventory(root.tree) = m.files
      /\ Topology(id.profile) = m.topology
      /\ Sealed(m.role, m.sourceSha, m.profileSha256, Topology(id.profile),
                Inventory(root.tree)).bundleSha256 = s.bundleSha256
  BY DEF Verify, NothingElse
<1>3. /\ m.role = b.id.role /\ m.sourceSha = b.id.sourceSha
      /\ m.profileSha256 = b.id.profileSha256 /\ m.topology = Topology(b.id.profile)
      /\ m.files = Inventory(b.tree) /\ Inventory(root.tree) = Inventory(b.tree)
  BY <1>1, <1>2 DEF ManifestOf, Sealed
<1>4. root.tree = b.tree
  BY <1>1, <1>2, <1>3, SameFiles
<1>5. id.role = b.id.role /\ id.sourceSha = b.id.sourceSha /\ id.profile = b.id.profile
  BY <1>1, <1>2, <1>3 DEF IsExpected, ApprovedProfile
<1>6. id.target = b.id.target
  BY <1>1, <1>2, <1>5 DEF ApprovedProfile
<1>7. root.manifest = s
  BY <1>1, <1>3 DEF IsManifest, ManifestOf, Sealed
<1>8. QED
  BY <1>2, <1>4, <1>5, <1>6, <1>7

\* For any trees, identities and limits: verifySealedBundle accepts what was sealed and
\* nothing that was put together from the files of two artifacts; and it accepts every
\* bundle with no more files than a document describes.
THEOREM SealsAreWhole == BundlesAreWhole
<1>1. ASSUME NEW b \in Bundles, NEW tree \in Trees,
             NEW root \in {Root(tree, Seal(b.tree, b.id), FALSE),
                           Root(tree, Seal(b.tree, b.id), TRUE),
                           Root(tree, [Seal(b.tree, b.id) EXCEPT
                                            !.signed.files = Inventory(tree)], FALSE)},
             NEW id \in Identities, Verify(root, id)
      PROVE  /\ ~root.extra /\ root.tree = b.tree /\ root.manifest = Seal(b.tree, b.id)
             /\ id.role = b.id.role /\ id.sourceSha = b.id.sourceSha
             /\ id.target = b.id.target /\ id.profile = b.id.profile
  <2>1. b.tree \in Trees /\ Seal(b.tree, b.id) # None
    BY DEF Bundles
  <2>2. Seal(b.tree, b.id) = ManifestOf(b.tree, b.id)
    BY <2>1, SealedOf
  <2>3. root.tree = tree
    BY DEF Root
  <2>4. IsManifest(root.manifest)
        /\ root.manifest.bundleSha256 = Seal(b.tree, b.id).bundleSha256
    BY <2>2 DEF Root, IsManifest, ManifestOf, Sealed
  <2>5. QED
    BY <1>1, <2>1, <2>3, <2>4, VerifiedIsSealed, BundleConstants
<1>2. ASSUME NEW b \in Bundles, Cardinality(DOMAIN b.tree) <= ManifestRoom
      PROVE  Verify(Root(b.tree, Seal(b.tree, b.id), FALSE), b.id)
  <2> DEFINE m == ManifestOf(b.tree, b.id)
             root == Root(b.tree, m, FALSE)
  <2>1. Seal(b.tree, b.id) # None
    BY DEF Bundles
  <2>2. /\ ValidIdentity(b.id) /\ ApprovedProfile(b.id)
        /\ Configured(b.tree, b.id.profile) /\ Collectable(b.tree)
        /\ Seal(b.tree, b.id) = m
    BY <2>1, SealedOf
  <2>3. root.tree = b.tree /\ root.manifest = m /\ NothingElse(root)
    BY DEF Root, NothingElse
  <2>4. /\ m.signed.role = b.id.role /\ m.signed.sourceSha = b.id.sourceSha
        /\ m.signed.profileSha256 = b.id.profileSha256
        /\ m.signed.topology = Topology(b.id.profile)
        /\ m.signed.files = Inventory(b.tree)
    BY DEF ManifestOf, Sealed
  <2>5. DOMAIN m.signed.files = DOMAIN b.tree
    BY <2>4 DEF Inventory
  <2>6. Readable(m) /\ IsExpected(m, b.id)
    BY <1>2, <2>4, <2>5 DEF Readable, IsExpected
  <2>7. Sealed(m.signed.role, m.signed.sourceSha, m.signed.profileSha256,
               Topology(b.id.profile), Inventory(b.tree)).bundleSha256 = m.bundleSha256
    BY <2>4 DEF ManifestOf
  <2> HIDE DEF m
  <2>8. QED
    BY <2>2, <2>3, <2>4, <2>6, <2>7 DEF Verify
<1>3. QED
  BY <1>1, <1>2 DEF BundlesAreWhole, AcceptedIsSealed

-----------------------------------------------------------------------------
(***************************************************************************)
(* Releases.  A record of production is put together by five jobs from     *)
(* files of four runs; what holds it together is that each job compares    *)
(* the run and the commit of every file that it is given.                  *)
(***************************************************************************)
LEMMA AuthorizedOf ==
  ASSUME NEW id, NEW sha, NEW world,
         NEW c, c = Chain!Authorize("true", id, sha, world), c # None
  PROVE  /\ c.run = id /\ c.sourceSha = sha
         /\ sha \in world.main
         /\ world.prs[c.pr].merge = sha /\ world.prs[c.pr].head = c.approved
         /\ Chain!HeadApproved(world, c.approved)
         /\ c.manifestPath = Chain!ManifestPath(c.issue, sha)
         /\ c.manifestSha256 = Chain!ManifestAt(world, c.manifestPath)
         /\ Chain!ReleaseManifest(c.manifestSha256, c.issue, c.pr, sha)
<1> DEFINE associated == {n \in DOMAIN world.prs : sha \in world.prs[n].commits}
           number == CHOOSE n \in associated : TRUE
           pull == world.prs[number]
           issue == (CHOOSE f \in Chain!RequestsOf(pull) : TRUE).issue
           path == Chain!ManifestPath(issue, sha)
           manifest == Chain!ManifestAt(world, path)
           picture == CHOOSE r \in manifest.captures : TRUE
<1>1. /\ sha \in world.main /\ Chain!MergedAs(pull, sha)
      /\ Chain!ReleaseManifest(manifest, issue, number, sha)
      /\ Chain!HeadApproved(world, pull.head)
      /\ c = [run |-> id, sourceSha |-> sha, pr |-> number, issue |-> issue, path |-> issue,
              route |-> manifest.route, expected |-> picture.status, approved |-> pull.head,
              manifestPath |-> path, manifestSha256 |-> manifest, version |-> picture.versionId]
  BY DEF Chain!Authorize
<1> HIDE DEF number, issue, manifest, picture, path
<1>2. QED
  BY <1>1 DEF Chain!MergedAs, path, manifest

\* The evidence that a release was authorized with is of its commit.
LEMMA ManifestOfCommit ==
  ASSUME NEW world, \A d \in DOMAIN world.evidence : IsTruthful(world.evidence[d]),
         NEW path, NEW m, m = Chain!ManifestAt(world, path),
         NEW issue, NEW number, NEW sha, Chain!ReleaseManifest(m, issue, number, sha)
  PROVE  /\ path[1] \in DOMAIN world.evidence /\ world.evidence[path[1]].manifest = m
         /\ \A name \in DOMAIN world.evidence[path[1]].files :
              world.evidence[path[1]].files[name].shows = sha
<1> DEFINE there == world.evidence[path[1]]
<1>1. m # None /\ Chain!ValidManifest(m)
      /\ m.source = [base |-> None, candidate |-> None, release |-> sha]
  BY DEF Chain!ReleaseManifest
<1>2. path[1] \in DOMAIN world.evidence /\ there.manifest = m
  BY <1>1 DEF Chain!ManifestAt
<1>3. IsTruthful(there)
  BY <1>2
<1> HIDE DEF there
<1>4. ASSUME NEW r \in m.captures
      PROVE  r.sourceSha = sha
  <2>1. r.role \in Chain!ActiveRoles(m.source)
    BY <1>1 DEF Chain!ValidManifest
  <2>2. r.role = "release"
    BY <1>1, <2>1 DEF Chain!ActiveRoles, Chain!Roles
  <2>3. r.sourceSha = m.source[r.role]
    BY <1>1, <2>1 DEF Chain!ValidManifest
  <2>4. QED
    BY <1>1, <2>2, <2>3
<1>5. ASSUME NEW name \in DOMAIN there.files
      PROVE  there.files[name].shows = sha
  <2>1. PICK r \in m.captures : name = r.filename
    BY <1>2, <1>3 DEF IsTruthful, Chain!Loads
  <2>2. there.files[name] = r.sha256 /\ r.sha256.shows = r.sourceSha
    BY <1>2, <1>3, <2>1 DEF IsTruthful, Chain!Loads
  <2>3. QED
    BY <1>4, <2>2
<1>6. QED
  BY <1>2, <1>5 DEF there

\* What smoke-production leaves, of the files that it accepted.
LEMMA SmokedOf ==
  ASSUME NEW c, NEW d, NEW r, NEW origin, NEW answer, NEW attempt, NEW now, NEW s,
         s = Chain!SmokeProduction(c, c, d, r, origin, answer, attempt, now), s # None
  PROVE  /\ Chain!ValidContext(c) /\ Chain!ValidVersion(d) /\ Chain!ValidRollback(r)
         /\ Chain!OfOneRun(c, d, r)
         /\ Chain!OnOrigin(origin, [origin |-> origin, path |-> c.route])
         /\ answer.status = c.expected
         /\ s = [issue |-> c.issue, pr |-> c.pr, sourceSha |-> c.sourceSha,
                 path |-> c.path, route |-> c.route, expected |-> c.expected,
                 url |-> [origin |-> origin, path |-> c.route],
                 status |-> answer.status, checkedAt |-> now,
                 run |-> c.run, attempt |-> attempt,
                 version |-> [versionId |-> d.versionId, tag |-> d.tag],
                 release |-> [path |-> c.manifestPath, sha256 |-> c.manifestSha256,
                              versionId |-> c.version],
                 rollback |-> [previous |-> r.previous, newDeployment |-> r.newDeployment,
                               newVersion |-> r.newVersion]]
BY DEF Chain!SmokeProduction, Chain!Smoke, Chain!ReadContext

\* What deploy-production-version leaves.
LEMMA RollbackOf ==
  ASSUME NEW c, NEW d, NEW previous, NEW r,
         r = Chain!DeployProduction(c, c, d, previous), r # None
  PROVE  /\ r = [sourceSha |-> c.sourceSha, previous |-> previous,
                 newDeployment |-> <<c.run, d.versionId>>,
                 newVersion |-> d.versionId, runUrl |-> c.run]
         /\ Chain!ValidRollback(r)
BY DEF Chain!DeployProduction

\* A record is of one authorization, of its upload and of its deployment.
LEMMA RecordIsAccounted ==
  ASSUME NEW record \in Chain!Records
  PROVE  /\ Chain!ValidSmoke(record)
         /\ \E world \in Worlds : Chain!Accounts(world, record)
         /\ \E c \in Chain!Authorized, d \in Chain!Uploads, previous \in Deployments :
              /\ c.run = record.run /\ c.sourceSha = record.sourceSha
              /\ d.versionId = record.version.versionId /\ d.sourceSha = record.sourceSha
              /\ LET r == Chain!DeployProduction(c, c, d, previous)
                 IN r # None /\ r.newDeployment = record.rollback.newDeployment
              /\ previous = record.rollback.previous
<1>1. PICK c \in Chain!Authorized, d \in Chain!Uploads, r \in Chain!Rollbacks,
           origin \in Origins, answer \in SmokeAnswers, at \in Times :
           record = Chain!SmokeProduction(c, c, d, r, origin, answer, at[1], at[2])
  BY DEF Chain!Records
<1>2. record # None
  BY DEF Chain!Records
<1>3. /\ Chain!ValidContext(c) /\ Chain!ValidVersion(d) /\ Chain!ValidRollback(r)
      /\ Chain!OfOneRun(c, d, r)
      /\ Chain!OnOrigin(origin, [origin |-> origin, path |-> c.route])
      /\ answer.status = c.expected
      /\ record = [issue |-> c.issue, pr |-> c.pr, sourceSha |-> c.sourceSha,
                   path |-> c.path, route |-> c.route, expected |-> c.expected,
                   url |-> [origin |-> origin, path |-> c.route],
                   status |-> answer.status, checkedAt |-> at[2],
                   run |-> c.run, attempt |-> at[1],
                   version |-> [versionId |-> d.versionId, tag |-> d.tag],
                   release |-> [path |-> c.manifestPath, sha256 |-> c.manifestSha256,
                                versionId |-> c.version],
                   rollback |-> [previous |-> r.previous, newDeployment |-> r.newDeployment,
                                 newVersion |-> r.newVersion]]
  BY <1>1, <1>2, SmokedOf
<1>4. /\ d.sourceSha = c.sourceSha /\ r.sourceSha = c.sourceSha
      /\ r.newVersion = d.versionId /\ r.runUrl = c.run
  BY <1>3 DEF Chain!OfOneRun
<1>5. PICK b \in Chain!Authorized, e \in Chain!Uploads, previous \in Deployments :
           r = Chain!DeployProduction(b, b, e, previous) /\ r # None
  BY DEF Chain!Rollbacks
<1>6. r = [sourceSha |-> b.sourceSha, previous |-> previous,
           newDeployment |-> <<b.run, e.versionId>>, newVersion |-> e.versionId,
           runUrl |-> b.run]
  BY <1>5, RollbackOf
<1>7. r = [sourceSha |-> c.sourceSha, previous |-> previous,
           newDeployment |-> <<c.run, d.versionId>>, newVersion |-> d.versionId,
           runUrl |-> c.run]
  BY <1>4, <1>6
<1>8. Chain!ValidSmoke(record)
  <2>1. r = [sourceSha |-> record.sourceSha, runUrl |-> record.run,
             previous |-> record.rollback.previous,
             newDeployment |-> record.rollback.newDeployment,
             newVersion |-> record.rollback.newVersion]
    BY <1>3, <1>7
  <2>2. Chain!ValidRollback([sourceSha |-> record.sourceSha, runUrl |-> record.run,
                             previous |-> record.rollback.previous,
                             newDeployment |-> record.rollback.newDeployment,
                             newVersion |-> record.rollback.newVersion])
    BY <1>3, <2>1
  <2>3. /\ record.path = record.issue /\ Chain!PublicRoute(record.route)
        /\ record.expected \in Chain!Statuses /\ record.status = record.expected
        /\ record.release.path = Chain!ManifestPath(record.issue, record.sourceSha)
    BY <1>3 DEF Chain!ValidContext
  <2>4. record.version.tag = Chain!ProductionTag(record.sourceSha)
    BY <1>3, <1>4 DEF Chain!ValidVersion
  <2>5. /\ record.rollback.newVersion = record.version.versionId
        /\ record.url.path = record.route
        /\ Chain!OnOrigin(record.url.origin, record.url)
    BY <1>3, <1>4
  <2>6. QED
    BY <2>2, <2>3, <2>4, <2>5 DEF Chain!ValidSmoke
<1>9. \E world \in Worlds : Chain!Accounts(world, record)
  <2>1. PICK id \in RunIds, sha \in Asked, world \in Worlds :
             c = Chain!Authorize("true", id, sha, world) /\ c # None
    BY DEF Chain!Authorized
  <2>2. /\ c.sourceSha = sha /\ sha \in world.main
        /\ world.prs[c.pr].merge = sha /\ world.prs[c.pr].head = c.approved
        /\ Chain!HeadApproved(world, c.approved)
        /\ c.manifestSha256 = Chain!ManifestAt(world, c.manifestPath)
        /\ Chain!ReleaseManifest(c.manifestSha256, c.issue, c.pr, sha)
    BY <2>1, AuthorizedOf
  <2>3. /\ c.manifestPath[1] \in DOMAIN world.evidence
        /\ world.evidence[c.manifestPath[1]].manifest = c.manifestSha256
        /\ \A name \in DOMAIN world.evidence[c.manifestPath[1]].files :
             world.evidence[c.manifestPath[1]].files[name].shows = sha
    BY <2>1, <2>2, ManifestOfCommit, EvidenceConstants
  <2>4. /\ record.sourceSha = sha /\ record.pr = c.pr
        /\ record.release.path = c.manifestPath /\ record.release.sha256 = c.manifestSha256
    BY <1>3, <2>2
  <2>5. Chain!Accounts(world, record)
    BY <2>2, <2>3, <2>4 DEF Chain!Accounts
  <2>6. QED
    BY <2>5
<1>10. LET x == Chain!DeployProduction(c, c, d, previous)
       IN x # None /\ x.newDeployment = record.rollback.newDeployment
  <2>1. Chain!DeployProduction(c, c, d, previous) = r
    BY <1>3, <1>4, <1>7 DEF Chain!DeployProduction, Chain!ReadContext
  <2>2. QED
    BY <1>3, <1>5, <2>1
<1>11. /\ c.run = record.run /\ c.sourceSha = record.sourceSha
       /\ d.versionId = record.version.versionId /\ d.sourceSha = record.sourceSha
       /\ previous = record.rollback.previous
  BY <1>3, <1>4, <1>7
<1>12. QED
  BY <1>8, <1>9, <1>10, <1>11

\* A second record is a file of its own, or the same, or refused.
LEMMA RecordedOnce ==
  ASSUME NEW first, NEW second, Chain!ValidSmoke(first), Chain!ValidSmoke(second)
  PROVE  LET once == Chain!PublishRecord(first, Chain!Nothing)
             twice == Chain!PublishRecord(second, once.branch)
         IN /\ once.state = "new"
            /\ Chain!Restrict(twice.branch, DOMAIN once.branch) = once.branch
            /\ twice.state = "existing" <=> first = second
<1> DEFINE once == Chain!PublishRecord(first, Chain!Nothing)
           twice == Chain!PublishRecord(second, once.branch)
           p == Chain!RecordPath(first)
           q == Chain!RecordPath(second)
<1>1. DOMAIN Chain!Nothing = {}
  BY DEF Chain!Nothing
<1>2. once.state = "new" /\ once.branch = [x \in {p} |-> first]
  BY <1>1 DEF Chain!PublishRecord
<1>3. CASE q = p
  <2>1. twice = [state |-> IF first = second THEN "existing" ELSE "collision",
                 branch |-> once.branch]
    BY <1>2, <1>3 DEF Chain!PublishRecord
  <2> HIDE DEF once, twice
  <2>2. QED
    BY <1>2, <2>1 DEF Chain!Restrict, once, twice
<1>4. CASE q # p
  <2>1. first # second
    BY <1>4
  <2>2. /\ twice.state = "new" /\ DOMAIN once.branch = {p}
        /\ twice.branch = [x \in {p} \cup {q} |-> IF x \in {p} THEN once.branch[x] ELSE second]
    BY <1>2, <1>4 DEF Chain!PublishRecord
  <2> HIDE DEF once, twice
  <2>3. Chain!Restrict(twice.branch, DOMAIN once.branch) = once.branch
    BY <1>2, <2>2 DEF Chain!Restrict
  <2>4. QED
    BY <1>2, <2>1, <2>2, <2>3 DEF once, twice
<1>5. QED
  BY <1>3, <1>4

\* What is authorized again is approved and has its evidence still.
LEMMA AuthorizedAgain ==
  ASSUME NEW context \in Chain!Authorized, NEW world \in Worlds,
         Chain!Reauthorize(context, "true", world)
  PROVE  /\ world.evidence[context.manifestPath[1]].manifest = context.manifestSha256
         /\ world.prs[context.pr].head = context.approved
         /\ Chain!HeadApproved(world, context.approved)
<1>1. context # None
  BY DEF Chain!Authorized
<1>2. context = Chain!Authorize("true", context.run, context.sourceSha, world)
  BY DEF Chain!Reauthorize
<1>3. /\ world.prs[context.pr].head = context.approved
      /\ Chain!HeadApproved(world, context.approved)
      /\ context.manifestSha256 = Chain!ManifestAt(world, context.manifestPath)
      /\ Chain!ReleaseManifest(context.manifestSha256, context.issue, context.pr,
                               context.sourceSha)
  BY <1>1, <1>2, AuthorizedOf
<1>4. QED
  BY <1>3 DEF Chain!ManifestAt, Chain!ReleaseManifest

\* For any state of GitHub and of the evidence branch, any uploads, deployments and
\* answers: a record that a release publishes names a commit of the main branch that was
\* merged from an approved head, pictures of that commit, and the deployment that its own
\* run replaced; a record is written once; and an authorization that is looked at again
\* still has its approval and its evidence.
THEOREM ReleasesAreAccounted == ProductionIsAccounted
<1>1. \A profile \in Profiles :
        Chain!Materialized(profile).left # {} =>
          profile.worker = "production" /\ profile.database = "production" /\ profile.indexable
  BY DEF Chain!Materialized
<1>2. QED
  BY <1>1, RecordIsAccounted, RecordedOnce, AuthorizedAgain
  DEF ProductionIsAccounted, Chain!ProductionIsAccounted

-----------------------------------------------------------------------------
(***************************************************************************)
(* Evidence, between the job that photographs, the one that publishes and  *)
(* the one that comments.  A capture is described: its manifest has every  *)
(* picture that its context asks for and says what each shows.  Publishing *)
(* puts the part of each role in a directory that is named by its commit,  *)
(* or finds there what it would have put, so that a directory is of the    *)
(* run that the publication names; and a comment links the directories of  *)
(* its publication.                                                        *)
(***************************************************************************)
\* Cardinality is one operator, in whatever module it is written.
LEMMA SameCardinality ==
  ASSUME NEW S
  PROVE  Chain!Cardinality(S) = Cardinality(S)
BY DEF Chain!Cardinality, Cardinality

\* A capture: a manifest with its pictures, as captureEvidence puts them together.
IsDescribed(m) ==
  m = [kind |-> m.kind, issue |-> m.issue, pr |-> m.pr, path |-> m.path, route |-> m.route,
       selector |-> m.selector, source |-> m.source, capturedAt |-> m.capturedAt,
       run |-> m.run, attempt |-> m.attempt, captures |-> m.captures]
IsFiled(set) == set = [manifest |-> set.manifest, files |-> set.files]
IsSet(set) == IsFiled(set) /\ IsDescribed(set.manifest)

\* A record says of its picture what the picture shows.
IsPictured(set) ==
  \A r \in set.manifest.captures :
    r.sha256.shows = r.sourceSha /\ r.sha256.viewport = r.viewport /\ r.sha256.kind = r.kind

\* What captureEvidence leaves is a capture.
LEMMA TakenSet ==
  ASSUME NEW context, NEW variants, NEW answer, NEW take, NEW attempt,
         NEW set, set = Chain!CaptureEvidence(context, variants, answer, take, attempt),
         set # None
  PROVE  IsSet(set) /\ IsPictured(set)
<1> DEFINE selector == context.request.selector
           records == {Chain!CaptureRecord(context, v, answer, w, k, take) :
                         v \in variants, w \in Chain!Viewports, k \in Chain!Kinds(selector)}
           manifest == [kind |-> context.kind, issue |-> context.issue, pr |-> context.pr,
              path |-> context.path, route |-> context.request.route, selector |-> selector,
              source |-> context.source, capturedAt |-> take, run |-> context.run,
              attempt |-> attempt, captures |-> records]
           files == [name \in {r.filename : r \in records} |->
                        (CHOOSE r \in records : r.filename = name).sha256]
<1>1. set = [manifest |-> manifest, files |-> files]
  BY DEF Chain!CaptureEvidence
<1>2. ASSUME NEW r \in records
      PROVE  r.sha256.shows = r.sourceSha /\ r.sha256.viewport = r.viewport /\ r.sha256.kind = r.kind
  <2>1. PICK v \in variants, w \in Chain!Viewports, k \in Chain!Kinds(selector) :
             r = Chain!CaptureRecord(context, v, answer, w, k, take)
    OBVIOUS
  <2>2. QED
    BY <2>1 DEF Chain!CaptureRecord, Chain!Picture
<1> HIDE DEF records, files
<1>3. IsSet(set)
  BY <1>1 DEF IsSet, IsFiled, IsDescribed
<1>4. QED
  BY <1>1, <1>2, <1>3 DEF IsPictured

\* Whatever descriptors a job was given.
LEMMA CapturedSet ==
  ASSUME NEW set \in Chain!Captures
  PROVE  IsSet(set) /\ IsPictured(set)
<1>1. PICK c \in Contexts, answer \in Answers, take \in Takes :
           set \in Chain!CapturesOf(c, answer, take, 1)
  BY DEF Chain!Captures
<1>2. set # None
  BY <1>1 DEF Chain!CapturesOf
<1>3. CASE c.kind = "release"
  <2>1. PICK d \in Chain!Descriptors : set = Chain!CaptureReleasePr(c, c, d, answer, take, 1)
    BY <1>1, <1>3 DEF Chain!CapturesOf
  <2>2. set = Chain!CaptureRelease(c, d, answer, take, 1)
    BY <1>2, <2>1 DEF Chain!CaptureReleasePr
  <2>3. PICK variants : set = Chain!CaptureEvidence(c, variants, answer, take, 1)
    BY <1>2, <2>2 DEF Chain!CaptureRelease
  <2>4. QED
    BY <1>2, <2>3, TakenSet
<1>4. CASE c.kind # "release"
  <2>1. PICK d \in Chain!Descriptors, e \in Chain!Descriptors :
             set = Chain!CapturePr(c, c, d, e, answer, take, 1)
    BY <1>1, <1>4 DEF Chain!CapturesOf
  <2>2. set = Chain!CapturePullRequest(c, d, e, answer, take, 1)
    BY <1>2, <2>1 DEF Chain!CapturePr
  <2>3. PICK variants : set = Chain!CaptureEvidence(c, variants, answer, take, 1)
    BY <1>2, <2>2 DEF Chain!CapturePullRequest
  <2>4. QED
    BY <1>2, <2>3, TakenSet
<1>5. QED
  BY <1>3, <1>4

-----------------------------------------------------------------------------
\* The plan of each role of a context, in the order in which they are published.
LEMMA PlansOfRoles ==
  ASSUME NEW set, NEW context, NEW plans, plans = Chain!Plans(set, context)
  PROVE  /\ \A i \in DOMAIN plans : \E role \in Chain!RolesOf(context) :
              plans[i] = Chain!PlanOf(set, context, role)
         /\ \A role \in Chain!RolesOf(context) : \E i \in DOMAIN plans :
              plans[i] = Chain!PlanOf(set, context, role)
         /\ \E T : plans \in Seq(T)
         /\ Len(plans) \in 1 .. 2
<1> DEFINE plan(role) == Chain!PlanOf(set, context, role)
<1>1. CASE context.kind = "release"
  <2>1. plans = <<plan("release")>> /\ Chain!RolesOf(context) = {"release"}
    BY <1>1 DEF Chain!Plans, Chain!RolesOf
  <2> HIDE DEF plan
  <2>2. DOMAIN plans = {1} /\ plans[1] = plan("release") /\ Len(plans) = 1
        /\ plans \in Seq({plan("release")})
    BY <2>1
  <2>3. \E T : plans \in Seq(T)
    BY <2>2, Zenon
  <2>4. QED
    BY <2>1, <2>2, <2>3 DEF plan
<1>2. CASE context.kind # "release"
  <2>1. plans = <<plan("base"), plan("candidate")>>
        /\ Chain!RolesOf(context) = {"base", "candidate"}
    BY <1>2 DEF Chain!Plans, Chain!RolesOf
  <2> HIDE DEF plan
  <2>2. DOMAIN plans = {1, 2} /\ plans[1] = plan("base") /\ plans[2] = plan("candidate")
        /\ Len(plans) = 2 /\ plans \in Seq({plan("base"), plan("candidate")})
    BY <2>1
  <2>3. \E T : plans \in Seq(T)
    BY <2>2, Zenon
  <2>4. QED
    BY <2>1, <2>2, <2>3 DEF plan
<1>3. QED
  BY <1>1, <1>2

\* NewPlans keeps the plans whose directory is not there.
LEMMA NewPlansAreNew ==
  ASSUME NEW T, NEW plans \in Seq(T), Len(plans) \in 1 .. 2, NEW branch,
         NEW new, new = Chain!NewPlans(plans, branch)
  PROVE  /\ new \in Seq(T)
         /\ \A i \in DOMAIN new :
              new[i].directory \notin DOMAIN branch /\ \E j \in DOMAIN plans : new[i] = plans[j]
         /\ \A j \in DOMAIN plans :
              plans[j].directory \notin DOMAIN branch => \E i \in DOMAIN new : new[i] = plans[j]
<1> DEFINE kept(i) == IF plans[i].directory \in DOMAIN branch THEN <<>> ELSE <<plans[i]>>
<1>1. CASE Len(plans) = 1
  <2>1. DOMAIN plans = {1} /\ plans[1] \in T /\ new = kept(1)
    BY <1>1 DEF Chain!NewPlans
  <2>2. CASE plans[1].directory \in DOMAIN branch
    <3>1. new = <<>>
      BY <2>1, <2>2
    <3>2. QED
      BY <2>1, <2>2, <3>1
  <2>3. CASE plans[1].directory \notin DOMAIN branch
    <3>1. new = <<plans[1]>>
      BY <2>1, <2>3
    <3>2. DOMAIN new = {1} /\ new[1] = plans[1]
      BY <3>1
    <3>3. QED
      BY <2>1, <2>3, <3>1, <3>2
  <2>4. QED
    BY <2>2, <2>3
<1>2. CASE Len(plans) = 2
  <2>1. new = kept(1) \o kept(2)
    BY <1>2 DEF Chain!NewPlans
  <2>2. DOMAIN plans = {1, 2} /\ plans[1] \in T /\ plans[2] \in T
    BY <1>2
  <2>3. CASE plans[1].directory \in DOMAIN branch /\ plans[2].directory \in DOMAIN branch
    <3>1. new = <<>> \o <<>>
      BY <2>1, <2>3
    <3>2. new = <<>>
      BY <3>1
    <3>3. QED
      BY <2>2, <2>3, <3>2
  <2>4. CASE plans[1].directory \in DOMAIN branch /\ plans[2].directory \notin DOMAIN branch
    <3>1. new = <<>> \o <<plans[2]>>
      BY <2>1, <2>4
    <3>2. new = <<plans[2]>>
      BY <2>2, <3>1
    <3>3. DOMAIN new = {1} /\ new[1] = plans[2]
      BY <3>2
    <3>4. QED
      BY <2>2, <2>4, <3>2, <3>3
  <2>5. CASE plans[1].directory \notin DOMAIN branch /\ plans[2].directory \in DOMAIN branch
    <3>1. new = <<plans[1]>> \o <<>>
      BY <2>1, <2>5
    <3>2. new = <<plans[1]>>
      BY <2>2, <3>1
    <3>3. DOMAIN new = {1} /\ new[1] = plans[1]
      BY <3>2
    <3>4. QED
      BY <2>2, <2>5, <3>2, <3>3
  <2>6. CASE plans[1].directory \notin DOMAIN branch /\ plans[2].directory \notin DOMAIN branch
    <3>1. new = <<plans[1]>> \o <<plans[2]>>
      BY <2>1, <2>6
    <3>2. <<plans[1]>> \in Seq(T) /\ <<plans[2]>> \in Seq(T)
      BY <2>2
    <3>3. new \in Seq(T) /\ Len(new) = 2
      BY <3>1, <3>2, ConcatProperties
    <3>4. new[1] = plans[1] /\ new[2] = plans[2]
      BY <3>1, <3>2
    <3>5. DOMAIN new = {1, 2}
      BY <3>3
    <3>6. QED
      BY <2>2, <2>6, <3>3, <3>4, <3>5
  <2>7. QED
    BY <2>3, <2>4, <2>5, <2>6
<1>3. QED
  BY <1>1, <1>2

\* The plans of two roles of one context ask for two directories.
LEMMA OwnDirectory ==
  ASSUME NEW set, NEW context, NEW role \in Chain!RolesOf(context),
         NEW other \in Chain!RolesOf(context),
         Chain!PlanOf(set, context, role).directory = Chain!PlanOf(set, context, other).directory
  PROVE  role = other
<1>1. Chain!Group[role] = Chain!Group[other]
  BY DEF Chain!PlanOf, Chain!RoleDirectory
<1>2. QED
  BY <1>1 DEF Chain!Group, Chain!RolesOf

IsBranch(branch) == branch = [d \in DOMAIN branch |-> branch[d]]

\* The directories that a set asks for.
DirectoriesOf(set, context) ==
  {Chain!PlanOf(set, context, role).directory : role \in Chain!RolesOf(context)}

\* What was in a branch is still there, and what was not is what a set brings.
Keeps(branch, after) == \A d \in DOMAIN branch : after[d] = branch[d]
Brings(set, context, branch, after) ==
  \A role \in Chain!RolesOf(context) :
    LET plan == Chain!PlanOf(set, context, role)
    IN plan.directory \notin DOMAIN branch => after[plan.directory] = plan.content

\* What the branch is when a set has been installed.
LEMMA InstalledPlans ==
  ASSUME NEW set, NEW context, NEW branch, NEW after,
         after = Chain!Install(branch, Chain!NewPlans(Chain!Plans(set, context), branch))
  PROVE  /\ IsBranch(after)
         /\ DOMAIN after = DOMAIN branch \cup DirectoriesOf(set, context)
         /\ Keeps(branch, after) /\ Brings(set, context, branch, after)
<1> DEFINE plans == Chain!Plans(set, context)
           new == Chain!NewPlans(plans, branch)
           all == {Chain!PlanOf(set, context, role) : role \in Chain!RolesOf(context)}
           fresh == {plan \in all : plan.directory \notin DOMAIN branch}
           listed == {new[i] : i \in DOMAIN new}
<1>1. listed = fresh
  <2>1. /\ \A i \in DOMAIN plans : plans[i] \in all
        /\ \A plan \in all : \E i \in DOMAIN plans : plans[i] = plan
    BY PlansOfRoles
  <2>2. (\E T : plans \in Seq(T)) /\ Len(plans) \in 1 .. 2
    BY PlansOfRoles
  <2> HIDE DEF plans, all
  <2>3. /\ \A i \in DOMAIN new :
             new[i].directory \notin DOMAIN branch /\ \E j \in DOMAIN plans : new[i] = plans[j]
        /\ \A j \in DOMAIN plans :
             plans[j].directory \notin DOMAIN branch => \E i \in DOMAIN new : new[i] = plans[j]
    BY <2>2, NewPlansAreNew
  <2> HIDE DEF new
  <2>4. \A plan \in listed : plan \in fresh
    BY <2>1, <2>3
  <2>5. \A plan \in fresh : plan \in listed
    BY <2>1, <2>3
  <2>6. QED
    BY <2>4, <2>5
<1>2. {new[i].directory : i \in DOMAIN new} = {plan.directory : plan \in listed}
  OBVIOUS
<1>3. after = [d \in DOMAIN branch \cup {new[i].directory : i \in DOMAIN new} |->
                 IF d \in DOMAIN branch THEN branch[d]
                 ELSE (CHOOSE plan \in listed : plan.directory = d).content]
  BY DEF Chain!Install
<1> HIDE DEF new, listed
<1>4. after = [d \in DOMAIN branch \cup {plan.directory : plan \in listed} |->
                 IF d \in DOMAIN branch THEN branch[d]
                 ELSE (CHOOSE plan \in listed : plan.directory = d).content]
  BY <1>2, <1>3
<1>5. DOMAIN after = DOMAIN branch \cup {plan.directory : plan \in all}
  <2> HIDE DEF all
  <2>1. DOMAIN after = DOMAIN branch \cup {plan.directory : plan \in fresh}
    BY <1>1, <1>4
  <2>2. QED
    BY <2>1
<1>6. {plan.directory : plan \in all} = DirectoriesOf(set, context)
  BY DEF DirectoriesOf
<1>7. ASSUME NEW role \in Chain!RolesOf(context),
             Chain!PlanOf(set, context, role).directory \notin DOMAIN branch
      PROVE  after[Chain!PlanOf(set, context, role).directory]
               = Chain!PlanOf(set, context, role).content
  <2> DEFINE plan == Chain!PlanOf(set, context, role)
  <2>1. plan \in fresh
    BY <1>7
  <2>2. \A p \in fresh : p.directory = plan.directory => p = plan
    BY OwnDirectory
  <2> HIDE DEF plan, fresh
  <2>3. (CHOOSE p \in listed : p.directory = plan.directory) = plan
    BY <1>1, <2>1, <2>2
  <2>4. QED
    BY <1>1, <1>4, <1>7, <2>1, <2>3 DEF plan
<1>8. QED
  BY <1>4, <1>5, <1>6, <1>7 DEF IsBranch, Keeps, Brings

\* The paths of the directories of some roles.
PathsOf(set, context, roles) ==
  UNION {Chain!Paths(Chain!PlanOf(set, context, role).directory,
                     DOMAIN Chain!PlanOf(set, context, role).content.files) : role \in roles}

\* The roles whose directories are there, and the others.
ThereOf(set, context, branch) ==
  {r \in Chain!RolesOf(context) :
     Chain!PlanOf(set, context, r).directory \in DOMAIN branch}
NotThereOf(set, context, branch) ==
  {r \in Chain!RolesOf(context) :
     Chain!PlanOf(set, context, r).directory \notin DOMAIN branch}

EntriesOf(set, context) ==
  [role \in Chain!RolesOf(context) |-> Chain!Entry(Chain!PlanOf(set, context, role))]

\* The publication has the entry of each role, and its paths as they were found.
LEMMA PublicationOfRoles ==
  ASSUME NEW set, NEW context, NEW branch,
         NEW p, p = Chain!Publication(Chain!Plans(set, context), context, branch)
  PROVE  /\ p = [kind |-> p.kind, issue |-> p.issue, pr |-> p.pr, source |-> p.source,
                 run |-> p.run, entries |-> p.entries, added |-> p.added,
                 existing |-> p.existing]
         /\ p.kind = context.kind /\ p.issue = context.issue /\ p.pr = context.pr
         /\ p.source = context.source /\ p.run = context.run
         /\ p.entries = EntriesOf(set, context)
         /\ p.added = PathsOf(set, context, NotThereOf(set, context, branch))
         /\ p.existing = PathsOf(set, context, ThereOf(set, context, branch))
<1> DEFINE plans == Chain!Plans(set, context)
           all == {plans[i] : i \in DOMAIN plans}
           plan(role) == Chain!PlanOf(set, context, role)
           of == [role \in {plans[i].role : i \in DOMAIN plans} |->
                    CHOOSE x \in all : x.role = role]
<1>1. /\ \A x \in all : \E role \in Chain!RolesOf(context) : x = plan(role)
      /\ \A role \in Chain!RolesOf(context) : plan(role) \in all
  BY PlansOfRoles
<1>2. \A role : plan(role).role = role
  BY DEF Chain!PlanOf
<1>3. {plans[i].role : i \in DOMAIN plans} = {x.role : x \in all}
  OBVIOUS
<1> HIDE DEF plans, all
<1>4. {x.role : x \in all} = Chain!RolesOf(context)
  BY <1>1, <1>2
<1>5. ASSUME NEW role \in Chain!RolesOf(context)
      PROVE  (CHOOSE x \in all : x.role = role) = plan(role)
  <2>1. plan(role) \in all /\ plan(role).role = role
    BY <1>1, <1>2
  <2>2. \A x \in all : x.role = role => x = plan(role)
    BY <1>1, <1>2
  <2> HIDE DEF plan
  <2>3. QED
    BY <2>1, <2>2
<1>6. of = [role \in Chain!RolesOf(context) |-> plan(role)]
  BY <1>3, <1>4, <1>5
<1>7. DOMAIN of = Chain!RolesOf(context) /\ \A role \in Chain!RolesOf(context) : of[role] = plan(role)
  BY <1>6
<1> DEFINE paths(there) ==
             UNION {Chain!Paths(of[role].directory, DOMAIN of[role].content.files) :
                      role \in {r \in DOMAIN of :
                                  (of[r].directory \in DOMAIN branch) = there}}
           entries == [role \in DOMAIN of |-> Chain!Entry(of[role])]
<1>8. /\ p.kind = context.kind /\ p.issue = context.issue /\ p.pr = context.pr
      /\ p.source = context.source /\ p.run = context.run /\ p.entries = entries
      /\ p.added = paths(FALSE) /\ p.existing = paths(TRUE)
      /\ p = [kind |-> p.kind, issue |-> p.issue, pr |-> p.pr, source |-> p.source,
              run |-> p.run, entries |-> p.entries, added |-> p.added,
              existing |-> p.existing]
  <2>1. p = [kind |-> context.kind, issue |-> context.issue, pr |-> context.pr,
             source |-> context.source, run |-> context.run, entries |-> entries,
             added |-> paths(FALSE), existing |-> paths(TRUE)]
    BY DEF Chain!Publication, all, plans
  <2> HIDE DEF paths, entries
  <2>2. QED
    BY <2>1
<1> HIDE DEF of, plan
<1>9. entries = EntriesOf(set, context)
  BY <1>7 DEF EntriesOf, plan
<1>10. /\ paths(FALSE) = PathsOf(set, context, NotThereOf(set, context, branch))
       /\ paths(TRUE) = PathsOf(set, context, ThereOf(set, context, branch))
  BY <1>7 DEF PathsOf, ThereOf, NotThereOf, plan
<1> HIDE DEF paths, entries
<1>11. QED
  BY <1>8, <1>9, <1>10

-----------------------------------------------------------------------------
\* Publishing installs what may be published and nothing else.
LEMMA PublishedOf ==
  ASSUME NEW set, NEW context, NEW branch, NEW result,
         result = Chain!Publish(set, context, branch, 0)
  PROVE  /\ Chain!Publishable(set, context, branch) =>
              /\ result.publication
                   = Chain!Publication(Chain!Plans(set, context), context, branch)
              /\ result.branch
                   = Chain!Install(branch, Chain!NewPlans(Chain!Plans(set, context), branch))
         /\ ~Chain!Publishable(set, context, branch) =>
              result.publication = None /\ result.branch = branch
BY DEF Chain!Publish

\* A branch is a function from directories to what they hold.
LEMMA BranchIsFunction ==
  ASSUME NEW branch \in Chain!Branches
  PROVE  IsBranch(branch)
<1>1. IsBranch(Chain!Nothing)
  BY DEF Chain!Nothing, IsBranch
<1>2. ASSUME NEW set \in Chain!Captures, NEW context \in Contexts,
             branch = Chain!Publish(set, context, Chain!Nothing, 0).branch
      PROVE  IsBranch(branch)
  <2>1. \/ branch = Chain!Nothing
        \/ branch = Chain!Install(Chain!Nothing,
                                  Chain!NewPlans(Chain!Plans(set, context), Chain!Nothing))
    BY <1>2, PublishedOf
  <2>2. CASE branch = Chain!Nothing
    BY <1>1, <2>2
  <2>3. CASE branch = Chain!Install(Chain!Nothing,
                        Chain!NewPlans(Chain!Plans(set, context), Chain!Nothing))
    BY <2>3, InstalledPlans
  <2>4. QED
    BY <2>1, <2>2, <2>3
<1>3. QED
  BY <1>1, <1>2 DEF Chain!Branches

\* Wherever publishing fails, what it made is removed.
LEMMA FailureLeavesNothing ==
  ASSUME NEW branch, IsBranch(branch),
         NEW T, NEW plans \in Seq(T),
         \A i \in DOMAIN plans : plans[i].directory \notin DOMAIN branch,
         NEW step \in 1 .. 3 * Len(plans),
         NEW left, left = Chain!FailedAt(step, branch, plans)
  PROVE  left.branch = branch /\ left.staging = {}
<1> DEFINE n == Len(plans)
           staged == 1 .. (IF step <= n THEN step - 1 ELSE n)
           installed == {i \in 1 .. n : n + i < step}
           failing == {i \in 1 .. n : n + i = step}
           dirs(places) == {plans[i].directory : i \in places}
           part == SubSeq(plans, 1, Chain!Cardinality(installed))
           reached == [branch |-> Chain!Install(branch, part),
                       staging |-> dirs(staged \ (installed \cup failing))]
<1>1. n \in Nat /\ DOMAIN plans = 1 .. n /\ step \in Nat
  OBVIOUS
<1>2. left = Chain!Undone(reached, dirs(staged \ installed), dirs(installed))
  BY DEF Chain!FailedAt
<1>3. left.staging = {}
  <2>1. left.staging = dirs(staged \ (installed \cup failing)) \ dirs(staged \ installed)
    BY <1>2 DEF Chain!Undone
  <2>2. QED
    BY <2>1
<1>4. PICK k \in 0 .. n : installed = 1 .. k
  <2>1. CASE step <= n + 1
    <3>1. installed = 1 .. 0 /\ 0 \in 0 .. n
      BY <1>1, <2>1
    <3>2. QED
      BY <3>1
  <2>2. CASE step > n + 1 /\ step <= 2 * n
    <3>1. installed = 1 .. (step - n - 1) /\ step - n - 1 \in 0 .. n
      BY <1>1, <2>2
    <3>2. QED
      BY <3>1
  <2>3. CASE step > n + 1 /\ step > 2 * n
    <3>1. installed = 1 .. n /\ n \in 0 .. n
      BY <1>1, <2>3
    <3>2. QED
      BY <3>1
  <2> HIDE DEF installed
  <2>4. QED
    BY <1>1, <2>1, <2>2, <2>3
<1>5. Chain!Cardinality(installed) = k
  <2>1. Cardinality(1 .. k) = k
    BY <1>1, FS_Interval
  <2>2. QED
    BY <1>4, <2>1, SameCardinality
<1>6. part \in Seq(T) /\ Len(part) = k /\ \A i \in 1 .. k : part[i] = plans[i]
  <2>1. part = SubSeq(plans, 1, k)
    BY <1>5
  <2>2. 1 \in Int /\ k \in Int /\ \A i \in 1 .. k : plans[i] \in T
    BY <1>1
  <2> HIDE DEF part
  <2>3. QED
    BY <1>1, <2>1, <2>2, SubSeqProperties
<1> HIDE DEF part, installed
<1>7. DOMAIN part = installed /\ \A i \in installed : part[i].directory = plans[i].directory
  BY <1>4, <1>6
<1>8. {part[i].directory : i \in DOMAIN part} = dirs(installed)
  BY <1>7
<1>9. DOMAIN reached.branch = DOMAIN branch \cup dirs(installed)
      /\ \A d \in DOMAIN branch : reached.branch[d] = branch[d]
  BY <1>8 DEF Chain!Install
<1>10. \A d \in dirs(installed) : d \notin DOMAIN branch
  BY <1>1, <1>4
<1> HIDE DEF dirs, reached
<1>11. left.branch = [d \in DOMAIN reached.branch \ dirs(installed) |-> reached.branch[d]]
  BY <1>2 DEF Chain!Undone, Chain!Restrict
<1>12. DOMAIN reached.branch \ dirs(installed) = DOMAIN branch
  BY <1>9, <1>10
<1>13. left.branch = branch
  BY <1>9, <1>11, <1>12 DEF IsBranch
<1>14. QED
  BY <1>3, <1>13

\* So it is for what publishing installs.
LEMMA AllOrNothing ==
  ASSUME NEW set, NEW context, NEW branch, IsBranch(branch),
         NEW step \in 1 .. 3 * Len(Chain!NewPlans(Chain!Plans(set, context), branch)),
         NEW failed, failed = Chain!Publish(set, context, branch, step)
  PROVE  failed.branch = branch /\ failed.staging = {}
<1> DEFINE plans == Chain!NewPlans(Chain!Plans(set, context), branch)
           left == Chain!FailedAt(step, branch, plans)
<1>1. PICK T : Chain!Plans(set, context) \in Seq(T)
  BY PlansOfRoles
<1>2. Len(Chain!Plans(set, context)) \in 1 .. 2
  BY PlansOfRoles
<1>3. plans \in Seq(T) /\ \A i \in DOMAIN plans : plans[i].directory \notin DOMAIN branch
  BY <1>1, <1>2, NewPlansAreNew
<1> HIDE DEF plans
<1>4. left.branch = branch /\ left.staging = {}
  BY <1>3, FailureLeavesNothing DEF plans
<1>5. step # 0
  BY <1>3 DEF plans
<1> HIDE DEF left
<1>6. QED
  BY <1>4, <1>5 DEF Chain!Publish, plans, left

-----------------------------------------------------------------------------
\* No two roles have one prefix.
LEMMA PrefixOfRole ==
  ASSUME NEW role \in Chain!Roles, NEW other \in Chain!Roles,
         Chain!Prefix[role] = Chain!Prefix[other]
  PROVE  role = other
BY DEF Chain!Prefix, Chain!Roles

\* A record of a valid manifest is of a picture that its source asks for.
LEMMA RecordIsAskedFor ==
  ASSUME NEW m, Chain!ValidManifest(m), NEW r \in m.captures
  PROVE  /\ r.role \in Chain!ActiveRoles(m.source) /\ r.sourceSha = m.source[r.role]
         /\ r.viewport \in Chain!Viewports /\ r.kind \in Chain!Kinds(m.selector)
         /\ r.filename = Chain!CanonicalFilename(r.role, r.viewport, r.kind)
<1>1. r.role \in Chain!ActiveRoles(m.source) /\ Chain!ValidRecord(r, m)
  BY DEF Chain!ValidManifest
<1>2. r.filename = Chain!CanonicalFilename(r.role, r.viewport, r.kind)
  BY <1>1 DEF Chain!ValidRecord
<1>3. r.sourceSha = m.source[r.role]
  BY <1>1 DEF Chain!ValidManifest
<1>4. PICK role \in Chain!ActiveRoles(m.source), w \in Chain!Viewports,
           k \in Chain!Kinds(m.selector) : r.filename = Chain!CanonicalFilename(role, w, k)
  <2>1. r.filename \in Chain!Filenames(Chain!ActiveRoles(m.source), Chain!Kinds(m.selector))
    BY DEF Chain!ValidManifest
  <2>2. QED
    BY <2>1 DEF Chain!Filenames
<1>5. r.viewport = w /\ r.kind = k
  BY <1>2, <1>4 DEF Chain!CanonicalFilename
<1>6. QED
  BY <1>1, <1>2, <1>3, <1>4, <1>5

\* And each picture that it asks for has one record.
LEMMA PictureIsThere ==
  ASSUME NEW m, Chain!ValidManifest(m), NEW role \in Chain!ActiveRoles(m.source),
         NEW w \in Chain!Viewports, NEW k \in Chain!Kinds(m.selector)
  PROVE  \E r \in m.captures :
           /\ r.role = role /\ r.viewport = w /\ r.kind = k
           /\ r.filename = Chain!CanonicalFilename(role, w, k)
<1>1. PICK r \in m.captures : r.filename = Chain!CanonicalFilename(role, w, k)
  <2>1. Chain!CanonicalFilename(role, w, k)
          \in Chain!Filenames(Chain!ActiveRoles(m.source), Chain!Kinds(m.selector))
    BY DEF Chain!Filenames
  <2>2. QED
    BY <2>1 DEF Chain!ValidManifest
<1>2. /\ r.role \in Chain!ActiveRoles(m.source)
      /\ r.filename = Chain!CanonicalFilename(r.role, r.viewport, r.kind)
  BY RecordIsAskedFor
<1>3. Chain!Prefix[role] = Chain!Prefix[r.role] /\ r.viewport = w /\ r.kind = k
  BY <1>1, <1>2 DEF Chain!CanonicalFilename
<1>4. r.role = role
  BY <1>2, <1>3, PrefixOfRole DEF Chain!ActiveRoles
<1>5. QED
  BY <1>1, <1>3, <1>4

SourceOfRole(m, role) == [r \in Chain!Roles |-> IF r = role THEN m.source[r] ELSE None]
RecordsOfRole(m, role) == {r \in m.captures : r.role = role}
FilesOfRole(set, role) ==
  [name \in {r.filename : r \in RecordsOfRole(set.manifest, role)} |-> set.files[name]]

\* The manifest of a role is the same but for its source and its captures.
LEMMA ManifestOfRole ==
  ASSUME NEW m, IsDescribed(m), NEW role, NEW part, part = Chain!RoleManifest(m, role)
  PROVE  /\ IsDescribed(part)
         /\ part.kind = m.kind /\ part.issue = m.issue /\ part.pr = m.pr
         /\ part.path = m.path /\ part.route = m.route /\ part.selector = m.selector
         /\ part.capturedAt = m.capturedAt /\ part.run = m.run /\ part.attempt = m.attempt
         /\ part.source = SourceOfRole(m, role) /\ part.captures = RecordsOfRole(m, role)
<1> DEFINE source == [r \in Chain!Roles |-> IF r = role THEN m.source[r] ELSE None]
           captures == {r \in m.captures : r.role = role}
<1>1. part = [m EXCEPT !.source = source, !.captures = captures]
  BY DEF Chain!RoleManifest
<1> HIDE DEF source, captures
<1>2. part = [kind |-> m.kind, issue |-> m.issue, pr |-> m.pr, path |-> m.path,
              route |-> m.route, selector |-> m.selector, source |-> source,
              capturedAt |-> m.capturedAt, run |-> m.run, attempt |-> m.attempt,
              captures |-> captures]
  BY <1>1 DEF IsDescribed
<1>3. IsDescribed(part)
  BY <1>2 DEF IsDescribed
<1>4. QED
  BY <1>2, <1>3 DEF source, captures, SourceOfRole, RecordsOfRole

\* What one directory keeps of a set.
LEMMA PlanOfRole ==
  ASSUME NEW set, IsDescribed(set.manifest), NEW context, NEW role,
         NEW plan, plan = Chain!PlanOf(set, context, role)
  PROVE  /\ plan.role = role /\ plan.sourceSha = set.manifest.source[role]
         /\ plan.directory
              = Chain!RoleDirectory(context.issue, role, set.manifest.source[role])
         /\ plan.content.manifest = Chain!RoleManifest(set.manifest, role)
         /\ plan.content.files = FilesOfRole(set, role)
         /\ IsFiled(plan.content)
<1> DEFINE part == Chain!RoleManifest(set.manifest, role)
           content == [manifest |-> part,
                       files |-> Chain!Restrict(set.files, {r.filename : r \in part.captures})]
<1>1. plan = [role |-> role, sourceSha |-> set.manifest.source[role],
              directory |-> Chain!RoleDirectory(context.issue, role, set.manifest.source[role]),
              content |-> content]
  BY DEF Chain!PlanOf
<1>2. content.files = [name \in {r.filename : r \in part.captures} |-> set.files[name]]
  BY DEF Chain!Restrict
<1>3. part.captures = RecordsOfRole(set.manifest, role)
  BY ManifestOfRole
<1>4. content.files = FilesOfRole(set, role)
  BY <1>2, <1>3 DEF FilesOfRole
<1>5. content = [manifest |-> part, files |-> content.files]
  OBVIOUS
<1> HIDE DEF content
<1>6. content.manifest = part
  BY <1>5
<1> HIDE DEF part
<1>7. QED
  BY <1>1, <1>4, <1>5, <1>6 DEF part, IsFiled

\* The part of a valid set that one directory keeps is one that can be read again.
LEMMA PartLoads ==
  ASSUME NEW set, IsSet(set), Chain!Loads(set), NEW context,
         NEW role \in Chain!ActiveRoles(set.manifest.source)
  PROVE  Chain!Loads(Chain!PlanOf(set, context, role).content)
<1> DEFINE m == set.manifest
           plan == Chain!PlanOf(set, context, role)
           part == Chain!RoleManifest(m, role)
<1>1. /\ part.kind = m.kind /\ part.path = m.path /\ part.issue = m.issue
      /\ part.route = m.route /\ part.selector = m.selector
      /\ part.source = SourceOfRole(m, role) /\ part.captures = RecordsOfRole(m, role)
  BY ManifestOfRole DEF IsSet
<1>2. /\ Chain!ValidManifest(m)
      /\ \A r \in m.captures : set.files[r.filename] = r.sha256
  BY DEF Chain!Loads
<1>3. role \in Chain!Roles /\ m.source[role] # None
  BY DEF Chain!ActiveRoles
<1> HIDE DEF part, plan, m
<1>4. Chain!ActiveRoles(part.source) = {role} /\ part.source[role] = m.source[role]
  BY <1>1, <1>3 DEF Chain!ActiveRoles, SourceOfRole
<1>5. Chain!SourceOfKind(part.kind, part.source)
  <2>1. Chain!SourceOfKind(m.kind, m.source)
    BY <1>2 DEF Chain!ValidManifest
  <2>2. QED
    BY <1>1, <1>4, <2>1 DEF Chain!SourceOfKind, m
<1>6. ASSUME NEW r \in part.captures
      PROVE  /\ r \in m.captures /\ r.role = role
             /\ Chain!ValidRecord(r, part) /\ r.role \in Chain!ActiveRoles(part.source)
             /\ r.sourceSha = part.source[role]
             /\ r.filename = Chain!CanonicalFilename(role, r.viewport, r.kind)
             /\ r.viewport \in Chain!Viewports /\ r.kind \in Chain!Kinds(part.selector)
  <2>1. r \in m.captures /\ r.role = role
    BY <1>1 DEF RecordsOfRole
  <2>2. Chain!ValidRecord(r, m)
    BY <1>2, <2>1 DEF Chain!ValidManifest
  <2>3. Chain!ValidRecord(r, part)
    BY <1>1, <2>2 DEF Chain!ValidRecord
  <2>4. /\ r.sourceSha = m.source[role]
        /\ r.filename = Chain!CanonicalFilename(role, r.viewport, r.kind)
        /\ r.viewport \in Chain!Viewports /\ r.kind \in Chain!Kinds(m.selector)
    BY <1>2, <2>1, RecordIsAskedFor
  <2>5. QED
    BY <1>1, <1>4, <2>1, <2>3, <2>4
<1>7. {r.filename : r \in part.captures}
        = Chain!Filenames(Chain!ActiveRoles(part.source), Chain!Kinds(part.selector))
  <2>1. ASSUME NEW w \in Chain!Viewports, NEW k \in Chain!Kinds(part.selector)
        PROVE  \E r \in part.captures : r.filename = Chain!CanonicalFilename(role, w, k)
    BY <1>1, <1>2, PictureIsThere DEF m, RecordsOfRole
  <2>2. QED
    BY <1>4, <1>6, <2>1 DEF Chain!Filenames
<1>8. \A r, s \in part.captures : r.filename = s.filename => r = s
  BY <1>2, <1>6 DEF Chain!ValidManifest
<1>9. Chain!Cardinality({<<r.sourceSha, r.versionId, r.url, r.status>> :
                           r \in {x \in part.captures : x.role = role}}) = 1
  <2>1. {x \in part.captures : x.role = role} = {x \in m.captures : x.role = role}
    BY <1>1 DEF RecordsOfRole
  <2>2. Chain!Cardinality({<<r.sourceSha, r.versionId, r.url, r.status>> :
                             r \in {x \in m.captures : x.role = role}}) = 1
    BY <1>2 DEF Chain!ValidManifest, m
  <2>3. QED
    BY <2>1, <2>2
<1>10. part.path = part.issue
  BY <1>1, <1>2 DEF Chain!ValidManifest
<1>11. Chain!ValidManifest(part)
  BY <1>4, <1>5, <1>6, <1>7, <1>8, <1>9, <1>10 DEF Chain!ValidManifest
<1>12. plan.content.manifest = part /\ plan.content.files = FilesOfRole(set, role)
  BY PlanOfRole DEF plan, part, m, IsSet
<1>13. /\ DOMAIN plan.content.files = {r.filename : r \in part.captures}
       /\ \A r \in part.captures : plan.content.files[r.filename] = r.sha256
  BY <1>1, <1>2, <1>6, <1>12 DEF FilesOfRole, m
<1>14. QED
  BY <1>11, <1>12, <1>13 DEF Chain!Loads, plan

-----------------------------------------------------------------------------
\* The set of another attempt, later, with the same pictures.
Repeated(set, take) == [set EXCEPT !.manifest.attempt = 2, !.manifest.capturedAt = take]

\* A manifest of another time and attempt.
LEMMA LaterManifest ==
  ASSUME NEW m, IsDescribed(m), NEW time, NEW attempt
  PROVE  [m EXCEPT !.capturedAt = time, !.attempt = attempt]
           = [kind |-> m.kind, issue |-> m.issue, pr |-> m.pr, path |-> m.path,
              route |-> m.route, selector |-> m.selector, source |-> m.source,
              capturedAt |-> time, run |-> m.run, attempt |-> attempt,
              captures |-> m.captures]
<1> DEFINE timed == [m EXCEPT !.capturedAt = time]
<1>1. timed = [kind |-> m.kind, issue |-> m.issue, pr |-> m.pr, path |-> m.path,
               route |-> m.route, selector |-> m.selector, source |-> m.source,
               capturedAt |-> time, run |-> m.run, attempt |-> m.attempt,
               captures |-> m.captures]
  BY DEF IsDescribed
<1>2. [m EXCEPT !.capturedAt = time, !.attempt = attempt] = [timed EXCEPT !.attempt = attempt]
  OBVIOUS
<1> HIDE DEF timed
<1>3. QED
  BY <1>1, <1>2

\* What is left of a manifest without them.
LEMMA StableManifest ==
  ASSUME NEW m, IsDescribed(m)
  PROVE  Chain!StableProjection(m)
           = [kind |-> m.kind, issue |-> m.issue, pr |-> m.pr, path |-> m.path,
              route |-> m.route, selector |-> m.selector, source |-> m.source,
              capturedAt |-> None, run |-> m.run, attempt |-> None,
              captures |-> m.captures]
BY LaterManifest, Zenon DEF Chain!StableProjection

\* Two manifests that are equal without them are of one run and pull request.
LEMMA StableFields ==
  ASSUME NEW m, IsDescribed(m), NEW n, IsDescribed(n),
         Chain!StableProjection(m) = Chain!StableProjection(n)
  PROVE  m.run = n.run /\ m.issue = n.issue /\ m.pr = n.pr
BY StableManifest

\* A repetition is a capture, of the same run and with the same records.
LEMMA RepeatedSet ==
  ASSUME NEW set, IsSet(set), NEW take, NEW again, again = Repeated(set, take)
  PROVE  /\ IsSet(again) /\ again.files = set.files
         /\ again.manifest.kind = set.manifest.kind /\ again.manifest.issue = set.manifest.issue
         /\ again.manifest.pr = set.manifest.pr /\ again.manifest.path = set.manifest.path
         /\ again.manifest.route = set.manifest.route
         /\ again.manifest.selector = set.manifest.selector
         /\ again.manifest.source = set.manifest.source
         /\ again.manifest.run = set.manifest.run
         /\ again.manifest.captures = set.manifest.captures
<1> DEFINE m == set.manifest
           n == [kind |-> m.kind, issue |-> m.issue, pr |-> m.pr, path |-> m.path,
                 route |-> m.route, selector |-> m.selector, source |-> m.source,
                 capturedAt |-> take, run |-> m.run, attempt |-> 2, captures |-> m.captures]
<1>1. set = [manifest |-> m, files |-> set.files] /\ IsDescribed(m)
  BY DEF IsSet, IsFiled
<1>2. again = [manifest |-> [m EXCEPT !.capturedAt = take, !.attempt = 2], files |-> set.files]
  BY <1>1 DEF Repeated
<1> HIDE DEF m
<1>3. [m EXCEPT !.capturedAt = take, !.attempt = 2] = n
  BY <1>1, LaterManifest
<1>4. again.manifest = n /\ again.files = set.files
      /\ again = [manifest |-> again.manifest, files |-> again.files]
  BY <1>2, <1>3
<1>5. IsDescribed(n)
  BY DEF IsDescribed
<1>6. QED
  BY <1>4, <1>5 DEF IsSet, IsFiled, m

\* What a manifest says of its time and attempt is not looked at.
LEMMA SameManifest ==
  ASSUME NEW m, NEW n, Chain!ValidManifest(m),
         n.kind = m.kind, n.issue = m.issue, n.path = m.path, n.route = m.route,
         n.selector = m.selector, n.source = m.source, n.captures = m.captures
  PROVE  Chain!ValidManifest(n)
<1>1. \A r : Chain!ValidRecord(r, m) => Chain!ValidRecord(r, n)
  BY DEF Chain!ValidRecord
<1>2. /\ n.path = n.issue /\ Chain!SourceOfKind(n.kind, n.source)
      /\ \A r \in n.captures :
           Chain!ValidRecord(r, n) /\ r.role \in Chain!ActiveRoles(n.source)
  BY <1>1 DEF Chain!ValidManifest
<1>3. {r.filename : r \in n.captures}
        = Chain!Filenames(Chain!ActiveRoles(n.source), Chain!Kinds(n.selector))
  BY DEF Chain!ValidManifest
<1>4. \A r, s \in n.captures : r.filename = s.filename => r = s
  BY DEF Chain!ValidManifest
<1>5. ASSUME NEW role \in Chain!ActiveRoles(n.source)
      PROVE  /\ \A r \in {x \in n.captures : x.role = role} : r.sourceSha = n.source[role]
             /\ Chain!Cardinality({<<r.sourceSha, r.versionId, r.url, r.status>> :
                                     r \in {x \in n.captures : x.role = role}}) = 1
  <2>1. \A r \in {x \in m.captures : x.role = role} : r.sourceSha = m.source[role]
    BY DEF Chain!ValidManifest
  <2>2. Chain!Cardinality({<<r.sourceSha, r.versionId, r.url, r.status>> :
                             r \in {x \in m.captures : x.role = role}}) = 1
    BY DEF Chain!ValidManifest
  <2>3. QED
    BY <2>1, <2>2
<1>6. {"base", "candidate"} \subseteq Chain!ActiveRoles(n.source) =>
        \A r \in {x \in n.captures : x.role = "base"},
           s \in {x \in n.captures : x.role = "candidate"} :
          r.versionId # s.versionId /\ r.url # s.url
  BY DEF Chain!ValidManifest
<1>7. QED
  BY <1>2, <1>3, <1>4, <1>5, <1>6 DEF Chain!ValidManifest

\* And a role of it asks for the same directory with the same pictures.
LEMMA SamePlan ==
  ASSUME NEW set, IsSet(set), NEW take, NEW again, again = Repeated(set, take),
         NEW context, NEW role,
         NEW plan, plan = Chain!PlanOf(set, context, role),
         NEW later, later = Chain!PlanOf(again, context, role)
  PROVE  /\ later.directory = plan.directory /\ later.content.files = plan.content.files
         /\ Chain!StableProjection(later.content.manifest)
              = Chain!StableProjection(plan.content.manifest)
         /\ Chain!Entry(later) = Chain!Entry(plan)
<1> DEFINE part == Chain!RoleManifest(set.manifest, role)
           next == Chain!RoleManifest(again.manifest, role)
<1>1. /\ IsSet(again) /\ again.files = set.files
      /\ again.manifest.kind = set.manifest.kind /\ again.manifest.issue = set.manifest.issue
      /\ again.manifest.pr = set.manifest.pr /\ again.manifest.path = set.manifest.path
      /\ again.manifest.route = set.manifest.route
      /\ again.manifest.selector = set.manifest.selector
      /\ again.manifest.source = set.manifest.source
      /\ again.manifest.run = set.manifest.run
      /\ again.manifest.captures = set.manifest.captures
  BY RepeatedSet
<1>2. IsDescribed(set.manifest) /\ IsDescribed(again.manifest)
  BY <1>1 DEF IsSet
<1>3. /\ IsDescribed(part)
      /\ part.kind = set.manifest.kind /\ part.issue = set.manifest.issue
      /\ part.pr = set.manifest.pr /\ part.path = set.manifest.path
      /\ part.route = set.manifest.route /\ part.selector = set.manifest.selector
      /\ part.run = set.manifest.run
      /\ part.source = SourceOfRole(set.manifest, role)
      /\ part.captures = RecordsOfRole(set.manifest, role)
  BY <1>2, ManifestOfRole
<1>4. /\ IsDescribed(next)
      /\ next.kind = set.manifest.kind /\ next.issue = set.manifest.issue
      /\ next.pr = set.manifest.pr /\ next.path = set.manifest.path
      /\ next.route = set.manifest.route /\ next.selector = set.manifest.selector
      /\ next.run = set.manifest.run
      /\ next.source = SourceOfRole(again.manifest, role)
      /\ next.captures = RecordsOfRole(again.manifest, role)
  BY <1>1, <1>2, ManifestOfRole
<1>5. next.source = part.source /\ next.captures = part.captures
  BY <1>1, <1>3, <1>4 DEF SourceOfRole, RecordsOfRole
<1>6. /\ plan.content.manifest = part
      /\ plan.directory = Chain!RoleDirectory(context.issue, role, set.manifest.source[role])
      /\ plan.sourceSha = set.manifest.source[role]
      /\ plan.content.files = FilesOfRole(set, role)
  BY <1>2, PlanOfRole
<1>7. /\ later.content.manifest = next
      /\ later.directory = Chain!RoleDirectory(context.issue, role, again.manifest.source[role])
      /\ later.sourceSha = again.manifest.source[role]
      /\ later.content.files = FilesOfRole(again, role)
  BY <1>2, PlanOfRole
<1> HIDE DEF part, next
<1>8. later.directory = plan.directory /\ later.sourceSha = plan.sourceSha
      /\ later.content.files = plan.content.files
  BY <1>1, <1>6, <1>7 DEF FilesOfRole, RecordsOfRole
<1>9. Chain!StableProjection(next) = Chain!StableProjection(part)
  <2>1. Chain!StableProjection(part)
          = [kind |-> part.kind, issue |-> part.issue, pr |-> part.pr, path |-> part.path,
             route |-> part.route, selector |-> part.selector, source |-> part.source,
             capturedAt |-> None, run |-> part.run, attempt |-> None,
             captures |-> part.captures]
    BY <1>3, StableManifest
  <2>2. Chain!StableProjection(next)
          = [kind |-> next.kind, issue |-> next.issue, pr |-> next.pr, path |-> next.path,
             route |-> next.route, selector |-> next.selector, source |-> next.source,
             capturedAt |-> None, run |-> next.run, attempt |-> None,
             captures |-> next.captures]
    BY <1>4, StableManifest
  <2>3. QED
    BY <1>3, <1>4, <1>5, <2>1, <2>2
<1>10. Chain!Entry(later) = Chain!Entry(plan)
  BY <1>5, <1>6, <1>7, <1>8 DEF Chain!Entry
<1>11. QED
  BY <1>6, <1>7, <1>8, <1>9, <1>10

\* What may be published has the roles of its context.
LEMMA PublishableRoles ==
  ASSUME NEW set, NEW context, NEW branch, Chain!Publishable(set, context, branch)
  PROVE  /\ Chain!RolesOf(context) = Chain!ActiveRoles(set.manifest.source)
         /\ set.manifest.source = context.source
<1> DEFINE p == Chain!Publication(Chain!Plans(set, context), context, branch)
<1>1. Chain!ValidPublication(p) /\ Chain!MatchesContext(set.manifest, context)
  BY DEF Chain!Publishable
<1>2. p.kind = context.kind /\ p.source = context.source
  BY DEF Chain!Publication
<1> HIDE DEF p
<1>3. Chain!ActiveRoles(context.source) = Chain!RolesOf(context)
  BY <1>1, <1>2 DEF Chain!ValidPublication, Chain!RolesOf
<1>4. QED
  BY <1>1, <1>3 DEF Chain!MatchesContext

\* When every directory is there, the publication adds none.
LEMMA PublishedAgain ==
  ASSUME NEW set, NEW later, NEW context, NEW branch, NEW after,
         \A role \in Chain!RolesOf(context) :
           LET plan == Chain!PlanOf(set, context, role)
               next == Chain!PlanOf(later, context, role)
           IN /\ next.directory = plan.directory /\ next.directory \in DOMAIN after
              /\ next.content.files = plan.content.files
              /\ Chain!Entry(next) = Chain!Entry(plan),
         Chain!ValidPublication(Chain!Publication(Chain!Plans(set, context), context, branch)),
         NEW second,
         second = Chain!Publication(Chain!Plans(later, context), context, after)
  PROVE  Chain!ValidPublication(second) /\ second.added = {}
<1> DEFINE first == Chain!Publication(Chain!Plans(set, context), context, branch)
<1>1. /\ first.kind = context.kind /\ first.issue = context.issue
      /\ first.source = context.source /\ first.entries = EntriesOf(set, context)
      /\ first.added = PathsOf(set, context, NotThereOf(set, context, branch))
      /\ first.existing = PathsOf(set, context, ThereOf(set, context, branch))
  BY PublicationOfRoles
<1>2. /\ second.kind = context.kind /\ second.issue = context.issue
      /\ second.source = context.source /\ second.entries = EntriesOf(later, context)
      /\ second.added = PathsOf(later, context, NotThereOf(later, context, after))
      /\ second.existing = PathsOf(later, context, ThereOf(later, context, after))
  BY PublicationOfRoles
<1>3. EntriesOf(later, context) = EntriesOf(set, context)
  BY DEF EntriesOf
<1>4. /\ NotThereOf(later, context, after) = {}
      /\ ThereOf(later, context, after) = Chain!RolesOf(context)
  BY DEF ThereOf, NotThereOf
<1>5. /\ PathsOf(later, context, {}) = {}
      /\ PathsOf(later, context, Chain!RolesOf(context))
           = PathsOf(set, context, Chain!RolesOf(context))
  BY DEF PathsOf
<1> DEFINE there == ThereOf(set, context, branch)
           absent == NotThereOf(set, context, branch)
<1>10. Chain!RolesOf(context) = absent \cup there
  BY DEF ThereOf, NotThereOf
<1> HIDE DEF there, absent
<1>11. PathsOf(set, context, Chain!RolesOf(context))
         = PathsOf(set, context, absent) \cup PathsOf(set, context, there)
  BY <1>10 DEF PathsOf
<1> HIDE DEF first
<1>6. Chain!ValidPublication(first)
  BY DEF first
<1>7. second.added = {} /\ second.existing = first.added \cup first.existing
      /\ second.entries = first.entries
  BY <1>1, <1>2, <1>3, <1>4, <1>5, <1>11 DEF there, absent
<1>8. Chain!ValidPublication(second)
  BY <1>1, <1>2, <1>6, <1>7 DEF Chain!ValidPublication
<1>9. QED
  BY <1>7, <1>8

\* What was published may be published again, and it changes nothing.
LEMMA NothingIsAddedAgain ==
  ASSUME NEW set, IsSet(set), NEW context, NEW branch,
         Chain!Publishable(set, context, branch),
         NEW take, NEW again, again = Repeated(set, take),
         NEW after,
         after = Chain!Install(branch, Chain!NewPlans(Chain!Plans(set, context), branch)),
         NEW second,
         second = Chain!Publication(Chain!Plans(again, context), context, after)
  PROVE  /\ Chain!Publishable(again, context, after) /\ second.added = {}
         /\ Chain!Install(after, Chain!NewPlans(Chain!Plans(again, context), after)) = after
<1> DEFINE plan(role) == Chain!PlanOf(set, context, role)
           next(role) == Chain!PlanOf(again, context, role)
           m == set.manifest
           n == again.manifest
<1>1. /\ Chain!Stored(context) /\ Chain!Loads(set) /\ Chain!MatchesContext(m, context)
      /\ Chain!ValidPublication(Chain!Publication(Chain!Plans(set, context), context, branch))
      /\ \A i \in DOMAIN Chain!Plans(set, context) :
           Chain!Plans(set, context)[i].directory \in DOMAIN branch =>
             Chain!SameAsExisting(Chain!Plans(set, context)[i], branch)
  BY DEF Chain!Publishable
<1>2. Chain!RolesOf(context) = Chain!ActiveRoles(m.source)
  BY PublishableRoles
<1>3. /\ IsBranch(after)
      /\ DOMAIN after = DOMAIN branch \cup DirectoriesOf(set, context)
      /\ Keeps(branch, after) /\ Brings(set, context, branch, after)
  BY InstalledPlans
<1>4. /\ again.files = set.files
      /\ n.kind = m.kind /\ n.issue = m.issue /\ n.pr = m.pr /\ n.path = m.path
      /\ n.route = m.route /\ n.selector = m.selector /\ n.source = m.source
      /\ n.run = m.run /\ n.captures = m.captures
  BY RepeatedSet
<1>5. \A role :
        /\ next(role).directory = plan(role).directory
        /\ next(role).content.files = plan(role).content.files
        /\ Chain!StableProjection(next(role).content.manifest)
             = Chain!StableProjection(plan(role).content.manifest)
        /\ Chain!Entry(next(role)) = Chain!Entry(plan(role))
  BY SamePlan
<1>6. Chain!Loads(again)
  <2>1. Chain!ValidManifest(n)
    BY <1>1, <1>4, SameManifest DEF Chain!Loads
  <2>2. QED
    BY <1>1, <1>4, <2>1 DEF Chain!Loads
<1>7. Chain!MatchesContext(n, context)
  BY <1>1, <1>4 DEF Chain!MatchesContext
<1>8. ASSUME NEW role \in Chain!RolesOf(context)
      PROVE  next(role).directory \in DOMAIN after /\ Chain!SameAsExisting(next(role), after)
  <2>. plan(role).directory \in DOMAIN after
    BY <1>3 DEF DirectoriesOf
  <2>1. CASE plan(role).directory \in DOMAIN branch
    <3>1. Chain!SameAsExisting(plan(role), branch)
      BY <1>1, <2>1, PlansOfRoles
    <3>2. after[plan(role).directory] = branch[plan(role).directory]
      BY <1>3, <2>1 DEF Keeps
    <3> HIDE DEF plan, next
    <3>3. QED
      BY <1>3, <1>5, <2>1, <3>1, <3>2 DEF Chain!SameAsExisting
  <2>2. CASE plan(role).directory \notin DOMAIN branch
    <3>1. Chain!Loads(plan(role).content)
      BY <1>1, <1>2, PartLoads
    <3>2. after[plan(role).directory] = plan(role).content
      BY <1>3, <2>2 DEF Brings
    <3> HIDE DEF plan, next
    <3>3. QED
      BY <1>3, <1>5, <3>1, <3>2 DEF Chain!SameAsExisting
  <2>3. QED
    BY <2>1, <2>2
<1>9. \A i \in DOMAIN Chain!Plans(again, context) :
        Chain!SameAsExisting(Chain!Plans(again, context)[i], after)
  <2>1. \A i \in DOMAIN Chain!Plans(again, context) :
          \E role \in Chain!RolesOf(context) : Chain!Plans(again, context)[i] = next(role)
    BY PlansOfRoles
  <2>2. QED
    BY <1>8, <2>1
<1>10. Chain!ValidPublication(second) /\ second.added = {}
  BY <1>1, <1>5, <1>8, PublishedAgain
<1>11. Chain!Publishable(again, context, after)
  BY <1>1, <1>6, <1>7, <1>9, <1>10 DEF Chain!Publishable
<1>12. Chain!Install(after, Chain!NewPlans(Chain!Plans(again, context), after)) = after
  <2> DEFINE last == Chain!Install(after, Chain!NewPlans(Chain!Plans(again, context), after))
  <2>1. /\ IsBranch(last)
        /\ DOMAIN last = DOMAIN after \cup DirectoriesOf(again, context)
        /\ Keeps(after, last)
    BY InstalledPlans
  <2>2. DOMAIN last = DOMAIN after
    BY <1>8, <2>1 DEF DirectoriesOf
  <2> HIDE DEF last
  <2>3. last = after
    BY <1>3, <2>1, <2>2 DEF IsBranch, Keeps
  <2>4. QED
    BY <2>3 DEF last
<1>13. QED
  BY <1>10, <1>11, <1>12

\* Null is none of the records that the jobs make: a capture, a publication, what a
\* browser took.
NoneIsNoDocument ==
  /\ \A manifest, files : None # [manifest |-> manifest, files |-> files]
  /\ \A kind, issue, number, source, id, entries, added, existing :
       None # [kind |-> kind, issue |-> issue, pr |-> number, source |-> source, run |-> id,
               entries |-> entries, added |-> added, existing |-> existing]
  /\ \A status, visible, pngs, failed, foreign :
       None # [status |-> status, visible |-> visible, pngs |-> pngs, failed |-> failed,
               foreign |-> foreign]

\* A publication is not null.
LEMMA PublicationIsSomething ==
  ASSUME NoneIsNoDocument, NEW set, NEW context, NEW branch
  PROVE  Chain!Publication(Chain!Plans(set, context), context, branch) # None
BY PublicationOfRoles DEF NoneIsNoDocument

\* For any contexts, uploads and answers, and wherever a step fails: publishing leaves
\* the branch as it was and nothing staged; and publishing the pictures of another
\* attempt again succeeds and adds no path.
THEOREM EvidenceIsPublishedWhole ==
  ASSUME NoneIsNoDocument
  PROVE  PublishedWhole
<1>1. ASSUME NEW set \in Chain!Captures, NEW context \in Contexts, NEW branch \in Chain!Branches,
             NEW step \in 1 .. 3 * Len(Chain!NewPlans(Chain!Plans(set, context), branch))
      PROVE  /\ Chain!Publish(set, context, branch, step).branch = branch
             /\ Chain!Publish(set, context, branch, step).staging = {}
  BY AllOrNothing, BranchIsFunction
<1>2. ASSUME NEW set \in Chain!Captures, NEW context \in Contexts, NEW branch \in Chain!Branches,
             NEW take \in Takes
      PROVE  LET first == Chain!Publish(set, context, branch, 0)
                 again == [set EXCEPT !.manifest.attempt = 2, !.manifest.capturedAt = take]
                 second == Chain!Publish(again, context, first.branch, 0)
             IN first.publication # None =>
                  /\ second.branch = first.branch
                  /\ second.publication # None /\ second.publication.added = {}
  <2> DEFINE first == Chain!Publish(set, context, branch, 0)
             again == [set EXCEPT !.manifest.attempt = 2, !.manifest.capturedAt = take]
             second == Chain!Publish(again, context, first.branch, 0)
  <2> SUFFICES ASSUME first.publication # None
               PROVE  /\ second.branch = first.branch
                      /\ second.publication # None /\ second.publication.added = {}
    OBVIOUS
  <2>1. IsSet(set) /\ again = Repeated(set, take)
    BY CapturedSet DEF Repeated
  <2> HIDE DEF again
  <2>2. Chain!Publishable(set, context, branch)
    BY PublishedOf
  <2>3. first.branch = Chain!Install(branch, Chain!NewPlans(Chain!Plans(set, context), branch))
    BY <2>2, PublishedOf
  <2> HIDE DEF first
  <2>4. /\ Chain!Publishable(again, context, first.branch)
        /\ Chain!Publication(Chain!Plans(again, context), context, first.branch).added = {}
        /\ Chain!Install(first.branch,
             Chain!NewPlans(Chain!Plans(again, context), first.branch)) = first.branch
    BY <2>1, <2>2, <2>3, NothingIsAddedAgain
  <2>5. /\ second.publication
             = Chain!Publication(Chain!Plans(again, context), context, first.branch)
        /\ second.branch
             = Chain!Install(first.branch,
                 Chain!NewPlans(Chain!Plans(again, context), first.branch))
    BY <2>4, PublishedOf
  <2> HIDE DEF second
  <2>6. second.publication # None
    BY <2>5, PublicationIsSomething
  <2>7. QED
    BY <2>4, <2>5, <2>6
<1>4. Chain!PublishedWhole
  BY <1>1, <1>2, Zenon DEF Chain!PublishedWhole
<1>5. QED
  BY <1>4 DEF PublishedWhole

\* What a branch has was put together by a capture.
LEMMA BranchHasSets ==
  ASSUME NEW branch \in Chain!Branches, NEW d \in DOMAIN branch
  PROVE  IsSet(branch[d])
<1>1. branch # Chain!Nothing
  BY DEF Chain!Nothing
<1>2. PICK set \in Chain!Captures, context \in Contexts :
           branch = Chain!Publish(set, context, Chain!Nothing, 0).branch
  BY <1>1 DEF Chain!Branches
<1>3. branch = Chain!Install(Chain!Nothing,
                             Chain!NewPlans(Chain!Plans(set, context), Chain!Nothing))
  BY <1>1, <1>2, PublishedOf
<1>4. /\ DOMAIN branch = DOMAIN Chain!Nothing \cup DirectoriesOf(set, context)
      /\ Brings(set, context, Chain!Nothing, branch)
  BY <1>3, InstalledPlans
<1>5. DOMAIN Chain!Nothing = {}
  BY DEF Chain!Nothing
<1>6. PICK role \in Chain!RolesOf(context) : d = Chain!PlanOf(set, context, role).directory
  BY <1>4, <1>5 DEF DirectoriesOf
<1> DEFINE plan == Chain!PlanOf(set, context, role)
<1>7. branch[d] = plan.content
  BY <1>4, <1>5, <1>6 DEF Brings
<1>8. plan.content.manifest = Chain!RoleManifest(set.manifest, role)
  BY CapturedSet, PlanOfRole DEF IsSet
<1>9. IsDescribed(plan.content.manifest)
  BY <1>8, CapturedSet, ManifestOfRole DEF IsSet
<1>10. IsFiled(plan.content)
  BY CapturedSet, PlanOfRole DEF IsSet
<1>11. QED
  BY <1>7, <1>9, <1>10 DEF IsSet

\* A directory is of the run, the issue and the pull request of a context.
IsOf(there, context) ==
  /\ there.manifest.run = context.run /\ there.manifest.issue = context.issue
  /\ there.manifest.pr = context.pr

Shows(picture, sha, w, k) == picture.shows = sha /\ picture.viewport = w /\ picture.kind = k

\* The directory of a role, after it was published, is of the run and shows what the
\* context names, for each viewport and kind that it asks for.
LEMMA DirectoryIsTrue ==
  ASSUME NEW set, IsSet(set), IsPictured(set), NEW context, NEW branch,
         \A d \in DOMAIN branch : IsSet(branch[d]),
         Chain!Publishable(set, context, branch), NEW after,
         after = Chain!Install(branch, Chain!NewPlans(Chain!Plans(set, context), branch)),
         NEW role \in Chain!RolesOf(context),
         NEW plan, plan = Chain!PlanOf(set, context, role),
         NEW there, there = after[plan.directory]
  PROVE  /\ plan.directory \in DOMAIN after /\ IsOf(there, context)
         /\ plan.directory[3] = context.source[role]
         /\ \A name \in DOMAIN plan.content.files :
              \E w \in Chain!Viewports, k \in Chain!Kinds(context.request.selector) :
                Shows(there.files[name], context.source[role], w, k)
         /\ \A w \in Chain!Viewports, k \in Chain!Kinds(context.request.selector) :
              \E name \in DOMAIN plan.content.files :
                name # Chain!ManifestFile /\ Shows(there.files[name], context.source[role], w, k)
<1> DEFINE m == set.manifest
           part == Chain!RoleManifest(m, role)
<1>1. /\ Chain!Loads(set) /\ Chain!MatchesContext(m, context)
      /\ \A i \in DOMAIN Chain!Plans(set, context) :
           Chain!Plans(set, context)[i].directory \in DOMAIN branch =>
             Chain!SameAsExisting(Chain!Plans(set, context)[i], branch)
  BY DEF Chain!Publishable
<1>2. /\ DOMAIN after = DOMAIN branch \cup DirectoriesOf(set, context)
      /\ Keeps(branch, after) /\ Brings(set, context, branch, after)
  BY InstalledPlans
<1>3. role \in Chain!ActiveRoles(m.source) /\ m.source = context.source
  BY PublishableRoles
<1>4. /\ IsDescribed(part) /\ part.run = m.run /\ part.issue = m.issue /\ part.pr = m.pr
      /\ part.captures = RecordsOfRole(m, role)
  BY ManifestOfRole DEF IsSet
<1>5. /\ plan.directory = Chain!RoleDirectory(context.issue, role, m.source[role])
      /\ plan.content.manifest = part
      /\ plan.content.files = FilesOfRole(set, role)
  BY PlanOfRole DEF IsSet
<1>6. plan.directory \in DOMAIN after
  BY <1>2 DEF DirectoriesOf
<1> HIDE DEF part, m
<1>7. IsOf(there, context) /\ \A name \in DOMAIN plan.content.files :
                                there.files[name] = plan.content.files[name]
  <2>1. m.run = context.run /\ m.issue = context.issue /\ m.pr = context.pr
    BY <1>1 DEF Chain!MatchesContext, m
  <2>2. CASE plan.directory \in DOMAIN branch
    <3>1. Chain!SameAsExisting(plan, branch)
      BY <1>1, <2>2, PlansOfRoles
    <3>2. there = branch[plan.directory]
      BY <1>2, <2>2 DEF Keeps
    <3>3. IsDescribed(there.manifest)
      BY <2>2, <3>2 DEF IsSet
    <3>4. Chain!StableProjection(there.manifest) = Chain!StableProjection(part)
      BY <1>5, <3>1, <3>2 DEF Chain!SameAsExisting
    <3>5. /\ there.manifest.run = part.run /\ there.manifest.issue = part.issue
          /\ there.manifest.pr = part.pr
      BY <1>4, <3>3, <3>4, StableFields
    <3>6. QED
      BY <1>4, <2>1, <3>1, <3>2, <3>5 DEF IsOf, Chain!SameAsExisting
  <2>3. CASE plan.directory \notin DOMAIN branch
    <3>1. there = plan.content
      BY <1>2, <2>3 DEF Brings
    <3>2. QED
      BY <1>4, <1>5, <2>1, <3>1 DEF IsOf
  <2>4. QED
    BY <2>2, <2>3
<1>8. plan.directory[3] = context.source[role]
  BY <1>3, <1>5 DEF Chain!RoleDirectory
<1>9. m.selector = context.request.selector
  BY <1>1 DEF Chain!MatchesContext, m
<1>10. ASSUME NEW r \in part.captures
       PROVE  /\ r.filename \in DOMAIN plan.content.files
              /\ r.viewport \in Chain!Viewports
              /\ r.kind \in Chain!Kinds(context.request.selector)
              /\ Shows(there.files[r.filename], context.source[role], r.viewport, r.kind)
  <2>1. r \in m.captures /\ r.role = role
    BY <1>4 DEF RecordsOfRole
  <2>2. /\ r.sourceSha = m.source[role] /\ r.viewport \in Chain!Viewports
        /\ r.kind \in Chain!Kinds(m.selector)
    BY <1>1, <2>1, RecordIsAskedFor DEF Chain!Loads, m
  <2>3. r.filename \in DOMAIN plan.content.files
        /\ there.files[r.filename] = set.files[r.filename]
    <3>1. r \in RecordsOfRole(set.manifest, role)
      BY <1>4 DEF m
    <3>2. /\ r.filename \in DOMAIN FilesOfRole(set, role)
          /\ FilesOfRole(set, role)[r.filename] = set.files[r.filename]
      BY <3>1 DEF FilesOfRole
    <3>3. QED
      BY <1>5, <1>7, <3>2
  <2>4. set.files[r.filename] = r.sha256
    BY <1>1, <2>1 DEF Chain!Loads, m
  <2>5. Shows(r.sha256, r.sourceSha, r.viewport, r.kind)
    BY <2>1 DEF IsPictured, Shows, m
  <2>6. QED
    BY <1>3, <1>9, <2>2, <2>3, <2>4, <2>5
<1>11. \A name \in DOMAIN plan.content.files :
         \E w \in Chain!Viewports, k \in Chain!Kinds(context.request.selector) :
           Shows(there.files[name], context.source[role], w, k)
  BY <1>4, <1>5, <1>10 DEF FilesOfRole, m
<1>12. ASSUME NEW w \in Chain!Viewports, NEW k \in Chain!Kinds(context.request.selector)
       PROVE  \E name \in DOMAIN plan.content.files :
                name # Chain!ManifestFile /\ Shows(there.files[name], context.source[role], w, k)
  <2>1. PICK r \in m.captures :
             /\ r.role = role /\ r.viewport = w /\ r.kind = k
             /\ r.filename = Chain!CanonicalFilename(role, w, k)
    BY <1>1, <1>3, <1>9, PictureIsThere DEF Chain!Loads, m
  <2>2. r.filename # Chain!ManifestFile
    BY <2>1 DEF Chain!CanonicalFilename, Chain!ManifestFile
  <2>3. r \in part.captures
    BY <1>4, <2>1 DEF RecordsOfRole
  <2>4. QED
    BY <1>10, <2>1, <2>2, <2>3
<1>13. QED
  BY <1>6, <1>7, <1>8, <1>11, <1>12

\* A comment links the directories of the roles and what they hold.
LEMMA LinksOfPublication ==
  ASSUME NEW set, NEW context, NEW branch,
         NEW p, p = Chain!Publication(Chain!Plans(set, context), context, branch)
  PROVE  Chain!Links(p) = PathsOf(set, context, Chain!RolesOf(context))
<1>1. p.entries = EntriesOf(set, context)
  BY PublicationOfRoles
<1>2. \A role :
        /\ Chain!Entry(Chain!PlanOf(set, context, role)).directory
             = Chain!PlanOf(set, context, role).directory
        /\ Chain!Entry(Chain!PlanOf(set, context, role)).pngs
             = DOMAIN Chain!PlanOf(set, context, role).content.files
  BY DEF Chain!Entry
<1>3. /\ DOMAIN p.entries = Chain!RolesOf(context)
      /\ \A role \in Chain!RolesOf(context) :
           p.entries[role] = Chain!Entry(Chain!PlanOf(set, context, role))
  BY <1>1 DEF EntriesOf
<1>4. QED
  BY <1>2, <1>3 DEF Chain!Links, PathsOf

\* A link is of a directory, and of its manifest or of a picture of it.
LEMMA LinkOfRole ==
  ASSUME NEW set, NEW context, NEW link
  PROVE  link \in PathsOf(set, context, Chain!RolesOf(context)) <=>
           \E role \in Chain!RolesOf(context) :
             \E name \in DOMAIN Chain!PlanOf(set, context, role).content.files
                           \cup {Chain!ManifestFile} :
               link = <<Chain!PlanOf(set, context, role).directory, name>>
BY DEF PathsOf, Chain!Paths

\* The pictures that are linked.
LinkedOf(links, branch) ==
  {<<there.shows, there.viewport, there.kind>> : there \in
     {branch[link[1]].files[link[2]] : link \in {l \in links : l[2] # Chain!ManifestFile}}}

\* Links that lead to the pictures that a context asks for, and to no others.
AreTrue(links, branch, context) ==
  /\ \A link \in links :
       /\ link[1] \in DOMAIN branch /\ IsOf(branch[link[1]], context)
       /\ link[2] # Chain!ManifestFile =>
            branch[link[1]].files[link[2]].shows = link[1][3]
  /\ LinkedOf(links, branch)
       = {context.source[role] : role \in Chain!RolesOf(context)} \X Chain!Viewports
           \X Chain!Kinds(context.request.selector)

\* The links of a publication lead to what its context asks for.
LEMMA LinksAreTrue ==
  ASSUME NEW set, IsSet(set), IsPictured(set), NEW context, NEW branch,
         \A d \in DOMAIN branch : IsSet(branch[d]),
         Chain!Publishable(set, context, branch), NEW after,
         after = Chain!Install(branch, Chain!NewPlans(Chain!Plans(set, context), branch)),
         NEW links, links = PathsOf(set, context, Chain!RolesOf(context))
  PROVE  AreTrue(links, after, context)
<1> DEFINE plan(role) == Chain!PlanOf(set, context, role)
           names(role) == DOMAIN plan(role).content.files
           kinds == Chain!Kinds(context.request.selector)
           picture(role, name) == after[plan(role).directory].files[name]
           all == {context.source[role] : role \in Chain!RolesOf(context)}
<1>1. ASSUME NEW role \in Chain!RolesOf(context)
      PROVE  /\ plan(role).directory \in DOMAIN after
             /\ IsOf(after[plan(role).directory], context)
             /\ plan(role).directory[3] = context.source[role]
             /\ \A name \in names(role) : \E w \in Chain!Viewports, k \in kinds :
                  Shows(picture(role, name), context.source[role], w, k)
             /\ \A w \in Chain!Viewports, k \in kinds : \E name \in names(role) :
                  /\ name # Chain!ManifestFile
                  /\ Shows(picture(role, name), context.source[role], w, k)
  BY DirectoryIsTrue
<1>2. ASSUME NEW link \in links
      PROVE  \E role \in Chain!RolesOf(context) :
               /\ link[1] = plan(role).directory
               /\ link[2] \in names(role) \cup {Chain!ManifestFile}
  <2>1. PICK role \in Chain!RolesOf(context) :
             \E name \in names(role) \cup {Chain!ManifestFile} :
               link = <<plan(role).directory, name>>
    BY LinkOfRole
  <2> HIDE DEF plan, names
  <2>2. QED
    BY <2>1
<1>3. ASSUME NEW role \in Chain!RolesOf(context), NEW name \in names(role)
      PROVE  <<plan(role).directory, name>> \in links
  <2>1. \E n \in names(role) \cup {Chain!ManifestFile} :
          <<plan(role).directory, name>> = <<plan(role).directory, n>>
    <3> HIDE DEF names, plan
    <3>1. QED
      OBVIOUS
  <2>2. QED
    BY <2>1, LinkOfRole
<1> HIDE DEF plan, names, picture, kinds
<1>4. ASSUME NEW link \in links
      PROVE  /\ link[1] \in DOMAIN after /\ IsOf(after[link[1]], context)
             /\ link[2] # Chain!ManifestFile =>
                  after[link[1]].files[link[2]].shows = link[1][3]
  <2>1. PICK role \in Chain!RolesOf(context) :
               /\ link[1] = plan(role).directory
               /\ link[2] \in names(role) \cup {Chain!ManifestFile}
    BY <1>2
  <2>2. link[1] \in DOMAIN after /\ IsOf(after[link[1]], context)
    BY <1>1, <2>1
  <2>3. ASSUME link[2] # Chain!ManifestFile
        PROVE  after[link[1]].files[link[2]].shows = link[1][3]
    <3>1. picture(role, link[2]).shows = context.source[role]
      BY <1>1, <2>1, <2>3 DEF Shows
    <3>2. QED
      BY <1>1, <2>1, <3>1 DEF picture
  <2>4. QED
    BY <2>2, <2>3
<1>5. ASSUME NEW x \in LinkedOf(links, after)
      PROVE  x \in all \X Chain!Viewports \X kinds
  <2>1. PICK link \in links : /\ link[2] # Chain!ManifestFile
                              /\ x = <<after[link[1]].files[link[2]].shows,
                                       after[link[1]].files[link[2]].viewport,
                                       after[link[1]].files[link[2]].kind>>
    BY DEF LinkedOf
  <2>2. PICK role \in Chain!RolesOf(context) :
               /\ link[1] = plan(role).directory
               /\ link[2] \in names(role) \cup {Chain!ManifestFile}
    BY <1>2
  <2>3. PICK w \in Chain!Viewports, k \in kinds :
             Shows(picture(role, link[2]), context.source[role], w, k)
    BY <1>1, <2>1, <2>2
  <2>4. x = <<context.source[role], w, k>>
    BY <2>1, <2>2, <2>3 DEF Shows, picture
  <2>5. QED
    BY <2>4
<1>6. ASSUME NEW x \in all \X Chain!Viewports \X kinds
      PROVE  x \in LinkedOf(links, after)
  <2>1. PICK role \in Chain!RolesOf(context), w \in Chain!Viewports, k \in kinds :
             x = <<context.source[role], w, k>>
    OBVIOUS
  <2>2. PICK name \in names(role) :
               /\ name # Chain!ManifestFile
               /\ Shows(picture(role, name), context.source[role], w, k)
    BY <1>1
  <2> DEFINE link == <<plan(role).directory, name>>
             there == after[link[1]].files[link[2]]
  <2>3. link \in {l \in links : l[2] # Chain!ManifestFile}
    BY <1>3, <2>2
  <2>4. there = picture(role, name)
    BY DEF picture
  <2>5. x = <<there.shows, there.viewport, there.kind>>
    BY <2>1, <2>2, <2>4 DEF Shows
  <2> HIDE DEF link
  <2>6. QED
    BY <2>3, <2>5 DEF LinkedOf
<1>7. LinkedOf(links, after) = all \X Chain!Viewports \X kinds
  <2> HIDE DEF all
  <2>1. QED
    BY <1>5, <1>6
<1>8. QED
  BY <1>4, <1>7 DEF kinds, AreTrue

\* What was in the branch stays as it was.
LEMMA BranchIsKept ==
  ASSUME NEW branch, IsBranch(branch), NEW set, NEW context
  PROVE  Chain!Restrict(Chain!Publish(set, context, branch, 0).branch, DOMAIN branch) = branch
<1> DEFINE after == Chain!Publish(set, context, branch, 0).branch
<1>1. CASE Chain!Publishable(set, context, branch)
  <2>1. after = Chain!Install(branch, Chain!NewPlans(Chain!Plans(set, context), branch))
    BY <1>1, PublishedOf
  <2> HIDE DEF after
  <2>2. Keeps(branch, after)
    BY <2>1, InstalledPlans
  <2>3. Chain!Restrict(after, DOMAIN branch) = branch
    BY <2>2 DEF Keeps, IsBranch, Chain!Restrict
  <2>4. QED
    BY <2>3 DEF after
<1>2. CASE ~Chain!Publishable(set, context, branch)
  <2>1. after = branch
    BY <1>2, PublishedOf
  <2> HIDE DEF after
  <2>2. Chain!Restrict(after, DOMAIN branch) = branch
    BY <2>1 DEF IsBranch, Chain!Restrict
  <2>3. QED
    BY <2>2 DEF after
<1>3. QED
  BY <1>1, <1>2

\* A request that was read is read again.
LEMMA RequestIsNormalized ==
  ASSUME NEW draft, IsDraft(draft), NEW issue, NEW request \in Chain!RequestOf(draft, issue)
  PROVE  /\ Chain!Normalized(request, issue) /\ request.issue = issue
         /\ {request.expected.base, request.expected.candidate} \subseteq Chain!Statuses
<1>1. PICK selector \in Chain!SelectorOf(draft) : request = [draft EXCEPT !.selector = selector]
  BY DEF Chain!RequestOf
<1>2. request = [issue |-> draft.issue, scope |-> draft.scope, public |-> draft.public,
                 route |-> draft.route, selector |-> selector, expected |-> draft.expected]
  BY <1>1 DEF IsDraft
<1>3. /\ draft.issue = issue /\ draft.scope \in {"page", "section"} /\ draft.public
      /\ {draft.expected.base, draft.expected.candidate} \subseteq Chain!Statuses
  BY DEF Chain!RequestOf
<1>4. Chain!SelectorOf(request) = {selector}
  BY <1>1, <1>2 DEF Chain!SelectorOf
<1>5. [request EXCEPT !.selector = selector] = request
  BY <1>2
<1>6. Chain!RequestOf(request, issue) = {[request EXCEPT !.selector = s] : s \in {selector}}
  BY <1>2, <1>3, <1>4 DEF Chain!RequestOf
<1>7. Chain!RequestOf(request, issue) = {request}
  BY <1>5, <1>6
<1>8. QED
  BY <1>2, <1>3, <1>7 DEF Chain!Normalized

\* A context that a resolve job wrote is accepted by the jobs that read it.
LEMMA ResolvedIsStored ==
  ASSUME NEW context \in Contexts
  PROVE  /\ Chain!Stored(context) /\ context.path = context.issue
         /\ context.kind = "pull-request" => Chain!StoredPullRequest(context)
         /\ context.kind = "release" => Chain!StoredRelease(context)
         /\ context.kind \in {"pull-request", "release"}
         /\ Chain!ActiveRoles(context.source) = Chain!RolesOf(context)
         /\ {context.request.expected.base, context.request.expected.candidate}
              \subseteq Chain!Statuses
<1>1. IsResolved(context)
  BY EvidenceConstants
<1>2. PICK draft \in Drafts : context.request \in Chain!RequestOf(draft, context.issue)
  BY <1>1 DEF IsResolved
<1>3. IsDraft(draft)
  BY EvidenceConstants
<1>4. /\ Chain!Normalized(context.request, context.issue)
      /\ context.request.issue = context.issue
      /\ {context.request.expected.base, context.request.expected.candidate}
           \subseteq Chain!Statuses
  BY <1>2, <1>3, RequestIsNormalized
<1>5. QED
  BY <1>1, <1>4 DEF IsResolved, Chain!Stored, Chain!StoredPullRequest, Chain!StoredRelease

\* The variants of a capture are the roles of its context, each of its own commit,
\* version and address.
IsAsked(variants, context) ==
  /\ \A v \in variants :
       /\ v.role \in Chain!RolesOf(context) /\ v.prefix = Chain!Prefix[v.role]
       /\ v.descriptor.sourceSha = context.source[v.role]
       /\ v.expected = Chain!StatusOf(context.request.expected, v.role)
  /\ \A role \in Chain!RolesOf(context) : \E v \in variants : v.role = role
  /\ \A u, v \in variants : u # v =>
       u.role # v.role /\ u.descriptor.versionId # v.descriptor.versionId /\ u.url # v.url

\* The descriptor that a run wrote is accepted by its own jobs.
LEMMA OwnDescriptor ==
  ASSUME NEW context, NEW role, NEW d, d = Chain!Uploaded(context, role)
  PROVE  /\ Chain!Checked(d, role, context.source[role])
         /\ d.sourceSha = context.source[role] /\ d.versionId = <<context.run, role>>
         /\ d.url.role = role
<1> DEFINE tag == Chain!VersionIdentity(role, context.source[role], context.pr)
<1>1. /\ d.role = role /\ d.sourceSha = context.source[role]
      /\ d.versionId = <<context.run, role>> /\ d.tag = tag /\ d.url = tag
  BY DEF Chain!Uploaded
<1>2. tag.role = role /\ tag.pr = (IF role = "release" THEN None ELSE context.pr)
  BY DEF Chain!VersionIdentity
<1>3. Chain!VersionIdentity(role, context.source[role], tag.pr) = tag
  BY <1>2 DEF Chain!VersionIdentity
<1> HIDE DEF tag
<1>4. QED
  BY <1>1, <1>2, <1>3 DEF Chain!Checked, Chain!ValidDescriptor

\* The capture of a run is of its own variants.
LEMMA OwnVariants ==
  ASSUME NEW context \in Contexts, NEW answer, NEW take
  PROVE  \E variants :
           /\ IsAsked(variants, context)
           /\ Chain!OwnCapture(context, answer, take, 1)
                = Chain!CaptureEvidence(context, variants, answer, take, 1)
<1>1. CASE context.kind = "release"
  <2> DEFINE d == Chain!Uploaded(context, "release")
             v == Chain!Variant("release", d, "shared", context.request.expected.candidate,
                                "release")
  <2>1. Chain!RolesOf(context) = {"release"}
    BY <1>1 DEF Chain!RolesOf
  <2>2. Chain!StoredRelease(context)
    BY <1>1, ResolvedIsStored
  <2>3. Chain!Checked(d, "release", context.source["release"])
        /\ d.sourceSha = context.source["release"]
    BY OwnDescriptor
  <2>4. Chain!OwnCapture(context, answer, take, 1)
          = Chain!CaptureEvidence(context, {v}, answer, take, 1)
    BY <1>1, <2>2, <2>3 DEF Chain!OwnCapture, Chain!CaptureRelease
  <2> HIDE DEF d
  <2>5. /\ v.role = "release" /\ v.descriptor = d /\ v.prefix = "release"
        /\ v.expected = context.request.expected.candidate
    BY DEF Chain!Variant
  <2>6. /\ Chain!Prefix["release"] = "release"
        /\ Chain!StatusOf(context.request.expected, "release")
             = context.request.expected.candidate
    BY DEF Chain!Prefix, Chain!StatusOf
  <2> HIDE DEF v
  <2>7. IsAsked({v}, context)
    BY <2>1, <2>3, <2>5, <2>6 DEF IsAsked
  <2>8. QED
    BY <2>4, <2>7
<1>2. CASE context.kind # "release"
  <2> DEFINE d == Chain!Uploaded(context, "base")
             e == Chain!Uploaded(context, "candidate")
             u == Chain!Variant("base", d, d.url, context.request.expected.base, "before")
             v == Chain!Variant("candidate", e, e.url, context.request.expected.candidate,
                                "after")
  <2>1. Chain!RolesOf(context) = {"base", "candidate"}
    BY <1>2 DEF Chain!RolesOf
  <2>2. Chain!StoredPullRequest(context)
    BY <1>2, ResolvedIsStored
  <2>3. /\ Chain!Checked(d, "base", context.source["base"])
        /\ d.sourceSha = context.source["base"] /\ d.versionId = <<context.run, "base">>
        /\ d.url.role = "base"
    BY OwnDescriptor
  <2>4. /\ Chain!Checked(e, "candidate", context.source["candidate"])
        /\ e.sourceSha = context.source["candidate"]
        /\ e.versionId = <<context.run, "candidate">> /\ e.url.role = "candidate"
    BY OwnDescriptor
  <2>10. context.source["base"] = context.source.base
         /\ context.source["candidate"] = context.source.candidate
    OBVIOUS
  <2> HIDE DEF d, e
  <2>5. d.versionId # e.versionId /\ d.url # e.url
    BY <2>3, <2>4
  <2>6. Chain!CapturePullRequest(context, d, e, answer, take, 1)
          = Chain!CaptureEvidence(context, {u, v}, answer, take, 1)
    BY <2>2, <2>3, <2>4, <2>5, <2>10 DEF Chain!CapturePullRequest
  <2>7. Chain!OwnCapture(context, answer, take, 1)
          = Chain!CaptureEvidence(context, {u, v}, answer, take, 1)
    BY <1>2, <2>6 DEF Chain!OwnCapture, d, e
  <2>8. /\ u.role = "base" /\ u.descriptor = d /\ u.prefix = "before" /\ u.url = d.url
        /\ u.expected = context.request.expected.base
        /\ v.role = "candidate" /\ v.descriptor = e /\ v.prefix = "after" /\ v.url = e.url
        /\ v.expected = context.request.expected.candidate
    BY DEF Chain!Variant
  <2>9. /\ Chain!Prefix["base"] = "before" /\ Chain!Prefix["candidate"] = "after"
        /\ Chain!StatusOf(context.request.expected, "base") = context.request.expected.base
        /\ Chain!StatusOf(context.request.expected, "candidate")
             = context.request.expected.candidate
    BY DEF Chain!Prefix, Chain!StatusOf
  <2> HIDE DEF u, v
  <2>11. IsAsked({u, v}, context)
    BY <2>1, <2>3, <2>4, <2>5, <2>8, <2>9 DEF IsAsked
  <2>12. QED
    BY <2>7, <2>11
<1>3. QED
  BY <1>1, <1>2

\* A page that answers as expected is photographed.
LEMMA ExpectedIsTaken ==
  ASSUME NoneIsNoDocument, NEW context, NEW answer, NEW take, NEW variants,
         IsAsked(variants, context), Chain!AsExpected(answer, context)
  PROVE  Chain!CaptureEvidence(context, variants, answer, take, 1) # None
<1> DEFINE selector == context.request.selector
<1>1. answer.fault = None /\ answer.status = context.request.expected
  BY DEF Chain!AsExpected
<1>2. None \notin {"page", "section", "hidden", "slow", "tall", "own", "huge"}
  BY EvidenceConstants
<1>3. Chain!Kinds(selector) \subseteq {"page", "section"}
  BY DEF Chain!Kinds
<1> HIDE DEF selector
<1>4. ASSUME NEW v \in variants
      PROVE  Chain!GoodAnswer(answer, v, selector)
  <2> DEFINE taken == Chain!Taken(answer, v.role, selector)
             pngs == (Chain!Kinds(selector) \ {answer.fault}) \cup ({answer.fault} \cap {"huge"})
  <2>1. taken = [status |-> Chain!StatusOf(answer.status, v.role),
                 visible |-> answer.fault # "hidden", pngs |-> pngs,
                 failed |-> answer.fault = "own", foreign |-> answer.foreign]
    BY <1>1, <1>2 DEF Chain!Taken
  <2>2. pngs = Chain!Kinds(selector)
    BY <1>1, <1>2, <1>3
  <2>3. taken # None
    BY <2>1 DEF NoneIsNoDocument
  <2> HIDE DEF pngs
  <2>4. /\ taken.status = Chain!StatusOf(answer.status, v.role) /\ taken.pngs = pngs
        /\ taken.visible = (answer.fault # "hidden") /\ taken.failed = (answer.fault = "own")
    BY <2>1
  <2>5. v.expected = Chain!StatusOf(context.request.expected, v.role)
    BY DEF IsAsked
  <2>6. taken.visible /\ ~taken.failed
    BY <1>1, <1>2, <2>4
  <2> HIDE DEF taken
  <2>7. Chain!FailedOrigins(taken).own = taken.failed
    BY DEF Chain!FailedOrigins
  <2>8. QED
    BY <1>1, <1>3, <2>2, <2>3, <2>4, <2>5, <2>6, <2>7
    DEF Chain!GoodAnswer, Chain!ValidPng, taken
<1>5. QED
  BY <1>4 DEF Chain!CaptureEvidence, NoneIsNoDocument, selector

\* What a record says.
LEMMA RecordOf ==
  ASSUME NEW context, NEW v, NEW answer, NEW w, NEW k, NEW take,
         NEW r, r = Chain!CaptureRecord(context, v, answer, w, k, take)
  PROVE  /\ r.role = v.role /\ r.kind = k /\ r.viewport = w
         /\ r.sourceSha = v.descriptor.sourceSha /\ r.versionId = v.descriptor.versionId
         /\ r.url = v.url /\ r.route = context.request.route
         /\ r.selector = context.request.selector
         /\ r.status = Chain!StatusOf(answer.status, v.role)
         /\ r.filename = <<v.prefix, w, k>>
         /\ r.foreign = Chain!FailedOrigins(
                          Chain!Taken(answer, v.role, context.request.selector)).foreign
BY DEF Chain!CaptureRecord

\* A page that was photographed answered with the status that was expected.
LEMMA GoodIsExpected ==
  ASSUME NEW answer, NEW v, NEW selector, Chain!GoodAnswer(answer, v, selector)
  PROVE  /\ Chain!StatusOf(answer.status, v.role) = v.expected
         /\ Chain!FailedOrigins(Chain!Taken(answer, v.role, selector)).foreign
              = answer.foreign
<1> DEFINE taken == Chain!Taken(answer, v.role, selector)
           pngs == (Chain!Kinds(selector) \ {answer.fault}) \cup ({answer.fault} \cap {"huge"})
<1>1. taken # None /\ taken.status = v.expected
  BY DEF Chain!GoodAnswer
<1>2. taken = [status |-> Chain!StatusOf(answer.status, v.role),
               visible |-> answer.fault # "hidden", pngs |-> pngs,
               failed |-> answer.fault = "own", foreign |-> answer.foreign]
  BY <1>1 DEF Chain!Taken
<1> HIDE DEF pngs
<1>3. taken.status = Chain!StatusOf(answer.status, v.role) /\ taken.foreign = answer.foreign
  BY <1>2
<1> HIDE DEF taken
<1>4. Chain!FailedOrigins(taken).foreign = taken.foreign
  BY DEF Chain!FailedOrigins
<1>5. QED
  BY <1>1, <1>3, <1>4 DEF taken

\* A capture that was taken of the variants of its context.
RecordsTaken(context, variants, answer, take) ==
  {Chain!CaptureRecord(context, v, answer, w, k, take) :
     v \in variants, w \in Chain!Viewports, k \in Chain!Kinds(context.request.selector)}

IsOwn(set, context, records) ==
  LET m == set.manifest
  IN /\ m.kind = context.kind /\ m.issue = context.issue /\ m.pr = context.pr
     /\ m.path = context.path /\ m.route = context.request.route
     /\ m.selector = context.request.selector /\ m.source = context.source
     /\ m.run = context.run /\ m.captures = records
     /\ DOMAIN set.files = {r.filename : r \in records}
     /\ \A name \in DOMAIN set.files :
          set.files[name] = (CHOOSE r \in records : r.filename = name).sha256

\* A capture that was taken has good answers, and the records of its variants.
LEMMA TakenIsOwn ==
  ASSUME NEW context, NEW variants, NEW answer, NEW take, NEW set,
         set = Chain!CaptureEvidence(context, variants, answer, take, 1), set # None
  PROVE  /\ \A v \in variants : Chain!GoodAnswer(answer, v, context.request.selector)
         /\ IsOwn(set, context, RecordsTaken(context, variants, answer, take))
<1> DEFINE records == RecordsTaken(context, variants, answer, take)
           files == [name \in {r.filename : r \in records} |->
                        (CHOOSE r \in records : r.filename = name).sha256]
           manifest == [kind |-> context.kind, issue |-> context.issue, pr |-> context.pr,
              path |-> context.path, route |-> context.request.route,
              selector |-> context.request.selector,
              source |-> context.source, capturedAt |-> take, run |-> context.run,
              attempt |-> 1, captures |-> records]
<1>1. /\ \A v \in variants : Chain!GoodAnswer(answer, v, context.request.selector)
      /\ set = [manifest |-> manifest, files |-> files]
  BY DEF Chain!CaptureEvidence, RecordsTaken
<1> HIDE DEF records
<1>2. /\ DOMAIN files = {r.filename : r \in records}
      /\ \A name \in DOMAIN files :
           files[name] = (CHOOSE r \in records : r.filename = name).sha256
  OBVIOUS
<1> HIDE DEF files
<1>3. set.files = files /\ set.manifest = manifest
  BY <1>1
<1>4. IsOwn(set, context, records)
  BY <1>2, <1>3 DEF IsOwn
<1>5. QED
  BY <1>1, <1>4 DEF records

\* The records of variants that are asked for.
LEMMA OwnRecords ==
  ASSUME NEW context, NEW variants, IsAsked(variants, context), NEW answer, NEW take,
         \A v \in variants : Chain!GoodAnswer(answer, v, context.request.selector),
         NEW records, records = RecordsTaken(context, variants, answer, take)
  PROVE  /\ \A r \in records :
              /\ r.role \in Chain!RolesOf(context) /\ r.sourceSha = context.source[r.role]
              /\ r.viewport \in Chain!Viewports
              /\ r.kind \in Chain!Kinds(context.request.selector)
              /\ r.route = context.request.route /\ r.selector = context.request.selector
              /\ r.filename = Chain!CanonicalFilename(r.role, r.viewport, r.kind)
              /\ r.status = Chain!StatusOf(context.request.expected, r.role)
              /\ r.foreign = answer.foreign
         /\ \A r, s \in records : r.filename = s.filename => r = s
         /\ \A r, s \in records : r.role = s.role =>
              r.sourceSha = s.sourceSha /\ r.versionId = s.versionId /\ r.url = s.url
                /\ r.status = s.status
         /\ \A r, s \in records : r.role # s.role =>
              r.versionId # s.versionId /\ r.url # s.url
         /\ \A role \in Chain!RolesOf(context), w \in Chain!Viewports,
               k \in Chain!Kinds(context.request.selector) :
              \E r \in records : r.role = role /\ r.viewport = w /\ r.kind = k
<1> DEFINE record(v, w, k) == Chain!CaptureRecord(context, v, answer, w, k, take)
           kinds == Chain!Kinds(context.request.selector)
<1>1. /\ \A r \in records : \E v \in variants, w \in Chain!Viewports, k \in kinds :
           r = record(v, w, k)
      /\ \A v \in variants, w \in Chain!Viewports, k \in kinds : record(v, w, k) \in records
  BY DEF RecordsTaken
<1>2. ASSUME NEW v \in variants, NEW w, NEW k
      PROVE  LET r == record(v, w, k) IN
             /\ r.role = v.role /\ r.kind = k /\ r.viewport = w
             /\ r.sourceSha = v.descriptor.sourceSha /\ r.versionId = v.descriptor.versionId
             /\ r.url = v.url /\ r.route = context.request.route
             /\ r.selector = context.request.selector
             /\ r.status = v.expected /\ r.foreign = answer.foreign
             /\ r.filename = Chain!CanonicalFilename(v.role, w, k)
  <2>1. v.prefix = Chain!Prefix[v.role]
    BY DEF IsAsked
  <2>2. /\ Chain!StatusOf(answer.status, v.role) = v.expected
        /\ Chain!FailedOrigins(
             Chain!Taken(answer, v.role, context.request.selector)).foreign = answer.foreign
    BY GoodIsExpected
  <2>3. QED
    BY <2>1, <2>2, RecordOf DEF Chain!CanonicalFilename
<1> HIDE DEF record, kinds
<1>3. \A r \in records :
        /\ r.role \in Chain!RolesOf(context) /\ r.sourceSha = context.source[r.role]
        /\ r.viewport \in Chain!Viewports /\ r.kind \in kinds
        /\ r.route = context.request.route /\ r.selector = context.request.selector
        /\ r.filename = Chain!CanonicalFilename(r.role, r.viewport, r.kind)
        /\ r.status = Chain!StatusOf(context.request.expected, r.role)
        /\ r.foreign = answer.foreign
  <2> TAKE r \in records
  <2>1. PICK v \in variants, w \in Chain!Viewports, k \in kinds : r = record(v, w, k)
    BY <1>1
  <2>2. /\ v.role \in Chain!RolesOf(context)
        /\ v.descriptor.sourceSha = context.source[v.role]
        /\ v.expected = Chain!StatusOf(context.request.expected, v.role)
    BY DEF IsAsked
  <2>3. QED
    BY <1>2, <2>1, <2>2
<1>4. ASSUME NEW r \in records, NEW s \in records
      PROVE  \E u \in variants, v \in variants, w \in Chain!Viewports, x \in Chain!Viewports,
                k \in kinds, l \in kinds :
               r = record(u, w, k) /\ s = record(v, x, l)
  BY <1>1
<1>5. \A u, v \in variants : u.role = v.role => u = v
  BY DEF IsAsked
<1>6. \A u, v \in variants : u.role # v.role =>
        u.descriptor.versionId # v.descriptor.versionId /\ u.url # v.url
  BY DEF IsAsked
<1>7. \A r, s \in records : r.role = s.role =>
        r.sourceSha = s.sourceSha /\ r.versionId = s.versionId /\ r.url = s.url
          /\ r.status = s.status
  <2> TAKE r, s \in records
  <2>1. PICK u \in variants, v \in variants, w \in Chain!Viewports, x \in Chain!Viewports,
             k \in kinds, l \in kinds : r = record(u, w, k) /\ s = record(v, x, l)
    BY <1>4
  <2>2. QED
    BY <1>2, <1>5, <2>1
<1>8. \A r, s \in records : r.role # s.role => r.versionId # s.versionId /\ r.url # s.url
  <2> TAKE r, s \in records
  <2>1. PICK u \in variants, v \in variants, w \in Chain!Viewports, x \in Chain!Viewports,
             k \in kinds, l \in kinds : r = record(u, w, k) /\ s = record(v, x, l)
    BY <1>4
  <2>2. QED
    BY <1>2, <1>6, <2>1
<1>9. \A r, s \in records : r.filename = s.filename => r = s
  <2> TAKE r, s \in records
  <2>1. PICK u \in variants, v \in variants, w \in Chain!Viewports, x \in Chain!Viewports,
             k \in kinds, l \in kinds : r = record(u, w, k) /\ s = record(v, x, l)
    BY <1>4
  <2>2. ASSUME r.filename = s.filename
        PROVE  r = s
    <3>1. Chain!CanonicalFilename(u.role, w, k) = Chain!CanonicalFilename(v.role, x, l)
      BY <1>2, <2>1, <2>2
    <3>2. Chain!Prefix[u.role] = Chain!Prefix[v.role] /\ w = x /\ k = l
      BY <3>1 DEF Chain!CanonicalFilename
    <3>3. u.role \in Chain!Roles /\ v.role \in Chain!Roles
      BY DEF IsAsked, Chain!RolesOf, Chain!Roles
    <3>4. u = v
      BY <1>5, <3>2, <3>3, PrefixOfRole
    <3>5. QED
      BY <2>1, <3>2, <3>4
  <2>3. QED
    BY <2>2
<1>10. \A role \in Chain!RolesOf(context), w \in Chain!Viewports, k \in kinds :
         \E r \in records : r.role = role /\ r.viewport = w /\ r.kind = k
  <2> TAKE role \in Chain!RolesOf(context), w \in Chain!Viewports, k \in kinds
  <2>1. PICK v \in variants : v.role = role
    BY DEF IsAsked
  <2>2. QED
    BY <1>1, <1>2, <2>1
<1>11. QED
  BY <1>3, <1>7, <1>8, <1>9, <1>10 DEF kinds

\* The capture of a run that was given its own descriptors can be read and is of
\* its context.
LEMMA OwnLoads ==
  ASSUME NEW context \in Contexts, NEW variants, IsAsked(variants, context),
         NEW answer, answer.foreign # "many", NEW take, NEW set,
         set = Chain!CaptureEvidence(context, variants, answer, take, 1), set # None
  PROVE  Chain!Loads(set) /\ Chain!MatchesContext(set.manifest, context)
<1> DEFINE records == RecordsTaken(context, variants, answer, take)
           m == set.manifest
           kinds == Chain!Kinds(context.request.selector)
<1>1. /\ \A v \in variants : Chain!GoodAnswer(answer, v, context.request.selector)
      /\ IsOwn(set, context, records)
  BY TakenIsOwn
<1> HIDE DEF records
<1>2. /\ \A r \in records :
           /\ r.role \in Chain!RolesOf(context) /\ r.sourceSha = context.source[r.role]
           /\ r.viewport \in Chain!Viewports /\ r.kind \in kinds
           /\ r.route = context.request.route /\ r.selector = context.request.selector
           /\ r.filename = Chain!CanonicalFilename(r.role, r.viewport, r.kind)
           /\ r.status = Chain!StatusOf(context.request.expected, r.role)
           /\ r.foreign = answer.foreign
      /\ \A r, s \in records : r.filename = s.filename => r = s
  BY <1>1, OwnRecords DEF records
<1>3. \A r, s \in records : r.role = s.role =>
        r.sourceSha = s.sourceSha /\ r.versionId = s.versionId /\ r.url = s.url
          /\ r.status = s.status
  BY <1>1, OwnRecords DEF records
<1>4. \A r, s \in records : r.role # s.role => r.versionId # s.versionId /\ r.url # s.url
  BY <1>1, OwnRecords DEF records
<1>5. \A role \in Chain!RolesOf(context), w \in Chain!Viewports, k \in kinds :
        \E r \in records : r.role = role /\ r.viewport = w /\ r.kind = k
  BY <1>1, OwnRecords DEF records
<1>6. /\ m.kind = context.kind /\ m.issue = context.issue /\ m.pr = context.pr
      /\ m.path = context.path /\ m.route = context.request.route
      /\ m.selector = context.request.selector /\ m.source = context.source
      /\ m.run = context.run /\ m.captures = records
      /\ DOMAIN set.files = {r.filename : r \in records}
      /\ \A name \in DOMAIN set.files :
           set.files[name] = (CHOOSE r \in records : r.filename = name).sha256
  BY <1>1 DEF IsOwn
<1>7. /\ context.path = context.issue /\ context.kind \in {"pull-request", "release"}
      /\ Chain!ActiveRoles(context.source) = Chain!RolesOf(context)
      /\ {context.request.expected.base, context.request.expected.candidate}
           \subseteq Chain!Statuses
  BY ResolvedIsStored
<1> HIDE DEF m
<1>8. Chain!SourceOfKind(m.kind, m.source)
  BY <1>6, <1>7 DEF Chain!SourceOfKind, Chain!RolesOf
<1>9. ASSUME NEW r \in records
      PROVE  Chain!ValidRecord(r, m) /\ r.role \in Chain!ActiveRoles(m.source)
  <2>1. r.status \in Chain!Statuses
    BY <1>2, <1>7 DEF Chain!StatusOf
  <2>2. r.kind = "section" => m.selector # None
    BY <1>2, <1>6 DEF Chain!Kinds, kinds
  <2>3. QED
    BY <1>2, <1>6, <1>7, <2>1, <2>2 DEF Chain!ValidRecord
<1>10. {r.filename : r \in records}
         = Chain!Filenames(Chain!ActiveRoles(m.source), Chain!Kinds(m.selector))
  <2>1. ASSUME NEW role \in Chain!RolesOf(context), NEW w \in Chain!Viewports, NEW k \in kinds
        PROVE  \E r \in records : r.filename = Chain!CanonicalFilename(role, w, k)
    BY <1>2, <1>5
  <2>2. QED
    BY <1>2, <1>6, <1>7, <2>1 DEF Chain!Filenames
<1>11. ASSUME NEW role \in Chain!RolesOf(context)
       PROVE  Chain!Cardinality({<<r.sourceSha, r.versionId, r.url, r.status>> :
                                   r \in {x \in records : x.role = role}}) = 1
  <2>1. PICK s \in records : s.role = role
    <3>1. "desktop" \in Chain!Viewports /\ "page" \in kinds
      BY DEF Chain!Viewports, Chain!Kinds
    <3>2. QED
      BY <1>5, <3>1
  <2>2. {<<r.sourceSha, r.versionId, r.url, r.status>> : r \in {x \in records : x.role = role}}
          = {<<s.sourceSha, s.versionId, s.url, s.status>>}
    BY <1>3, <2>1
  <2>3. \A x : Cardinality({x}) = 1
    BY FS_Singleton
  <2>4. QED
    BY <2>2, <2>3, SameCardinality
<1>12. Chain!ValidManifest(m)
  <2>1. \A role \in Chain!ActiveRoles(m.source) :
          /\ \A r \in {x \in m.captures : x.role = role} : r.sourceSha = m.source[role]
          /\ Chain!Cardinality({<<r.sourceSha, r.versionId, r.url, r.status>> :
                                   r \in {x \in m.captures : x.role = role}}) = 1
    BY <1>2, <1>6, <1>7, <1>11
  <2>2. \A r \in {x \in m.captures : x.role = "base"},
           s \in {x \in m.captures : x.role = "candidate"} :
          r.versionId # s.versionId /\ r.url # s.url
    BY <1>4, <1>6
  <2>3. QED
    BY <1>2, <1>6, <1>7, <1>8, <1>9, <1>10, <2>1, <2>2 DEF Chain!ValidManifest
<1>13. ASSUME NEW r \in records
       PROVE  set.files[r.filename] = r.sha256
  <2>1. (CHOOSE s \in records : s.filename = r.filename) = r
    BY <1>2
  <2>2. r.filename \in DOMAIN set.files
    BY <1>6
  <2>3. QED
    BY <1>6, <2>1, <2>2
<1>14. Chain!Loads(set)
  BY <1>6, <1>12, <1>13 DEF Chain!Loads, m
<1>15. Chain!MatchesContext(m, context)
  BY <1>2, <1>6 DEF Chain!MatchesContext
<1>16. QED
  BY <1>14, <1>15 DEF m

\* What loads and is of its context is published as it should be where nothing is.
LEMMA FreshPublication ==
  ASSUME NEW set, IsSet(set), Chain!Loads(set), NEW context,
         Chain!MatchesContext(set.manifest, context),
         Chain!ActiveRoles(context.source) = Chain!RolesOf(context),
         NEW branch, DOMAIN branch = {},
         NEW p, p = Chain!Publication(Chain!Plans(set, context), context, branch)
  PROVE  Chain!ValidPublication(p)
<1> DEFINE m == set.manifest
           plan(role) == Chain!PlanOf(set, context, role)
           part(role) == Chain!RoleManifest(m, role)
           first(role) == CHOOSE r \in part(role).captures : TRUE
<1>1. /\ p.kind = context.kind /\ p.issue = context.issue /\ p.source = context.source
      /\ p.entries = EntriesOf(set, context)
      /\ p.added = PathsOf(set, context, NotThereOf(set, context, branch))
      /\ p.existing = PathsOf(set, context, ThereOf(set, context, branch))
  BY PublicationOfRoles
<1>2. /\ m.source = context.source /\ Chain!ValidManifest(m)
  BY DEF Chain!MatchesContext, Chain!Loads
<1>3. ASSUME NEW role \in Chain!RolesOf(context)
      PROVE  /\ plan(role).sourceSha = context.source[role]
             /\ plan(role).directory
                  = Chain!RoleDirectory(context.issue, role, context.source[role])
             /\ plan(role).content.manifest = part(role)
             /\ plan(role).content.files = FilesOfRole(set, role)
             /\ part(role).captures = RecordsOfRole(m, role)
  <2>1. IsDescribed(m)
    BY DEF IsSet
  <2>2. part(role).captures = RecordsOfRole(m, role)
    BY <2>1, ManifestOfRole
  <2>3. /\ plan(role).sourceSha = m.source[role]
        /\ plan(role).directory = Chain!RoleDirectory(context.issue, role, m.source[role])
        /\ plan(role).content.manifest = part(role)
        /\ plan(role).content.files = FilesOfRole(set, role)
    BY <2>1, PlanOfRole
  <2>4. QED
    BY <1>2, <2>2, <2>3
<1> HIDE DEF plan, part
<1>4. ASSUME NEW role \in Chain!RolesOf(context)
      PROVE  DOMAIN plan(role).content.files
               = Chain!Filenames({role}, Chain!Kinds(m.selector))
  <2>1. DOMAIN FilesOfRole(set, role) = {r.filename : r \in RecordsOfRole(m, role)}
    BY DEF FilesOfRole
  <2>2. ASSUME NEW r \in RecordsOfRole(m, role)
        PROVE  r.filename \in Chain!Filenames({role}, Chain!Kinds(m.selector))
    <3>1. r \in m.captures /\ r.role = role
      BY DEF RecordsOfRole
    <3>2. /\ r.viewport \in Chain!Viewports /\ r.kind \in Chain!Kinds(m.selector)
          /\ r.filename = Chain!CanonicalFilename(role, r.viewport, r.kind)
      BY <1>2, <3>1, RecordIsAskedFor
    <3>3. QED
      BY <3>2 DEF Chain!Filenames
  <2>3. ASSUME NEW w \in Chain!Viewports, NEW k \in Chain!Kinds(m.selector)
        PROVE  \E r \in RecordsOfRole(m, role) :
                 r.filename = Chain!CanonicalFilename(role, w, k)
    BY <1>2, PictureIsThere DEF RecordsOfRole
  <2> HIDE DEF m
  <2>4. {r.filename : r \in RecordsOfRole(m, role)}
          = Chain!Filenames({role}, Chain!Kinds(m.selector))
    BY <2>2, <2>3 DEF Chain!Filenames
  <2>5. QED
    BY <1>3, <2>1, <2>4
<1>5. ASSUME NEW role \in Chain!RolesOf(context)
      PROVE  first(role) \in m.captures /\ first(role).role = role
  <2>1. "desktop" \in Chain!Viewports /\ "page" \in Chain!Kinds(m.selector)
    BY DEF Chain!Viewports, Chain!Kinds
  <2>2. PICK r \in m.captures : r.role = role
    BY <1>2, <2>1, PictureIsThere
  <2>3. part(role).captures # {}
    BY <1>3, <2>2 DEF RecordsOfRole
  <2>4. first(role) \in part(role).captures
    BY <2>3
  <2>5. QED
    BY <1>3, <2>4 DEF RecordsOfRole
<1> HIDE DEF first
<1>6. ASSUME NEW role \in Chain!RolesOf(context)
      PROVE  /\ p.entries[role].sourceSha = context.source[role]
             /\ p.entries[role].directory
                  = Chain!RoleDirectory(context.issue, role, context.source[role])
             /\ p.entries[role].pngs = DOMAIN plan(role).content.files
             /\ p.entries[role].directory = plan(role).directory
             /\ p.entries[role].previewUrl = first(role).url
  <2>1. p.entries[role] = Chain!Entry(plan(role))
    BY <1>1 DEF EntriesOf, plan
  <2>2. /\ Chain!Entry(plan(role)).sourceSha = plan(role).sourceSha
        /\ Chain!Entry(plan(role)).directory = plan(role).directory
        /\ Chain!Entry(plan(role)).pngs = DOMAIN plan(role).content.files
        /\ Chain!Entry(plan(role)).previewUrl
             = (CHOOSE r \in plan(role).content.manifest.captures : TRUE).url
    BY DEF Chain!Entry
  <2>3. QED
    BY <1>3, <2>1, <2>2 DEF first
<1>7. DOMAIN p.entries = Chain!RolesOf(context)
  BY <1>1 DEF EntriesOf
<1>8. Chain!Kinds(m.selector) \in {{"page"}, {"page", "section"}}
  BY DEF Chain!Kinds
<1> HIDE DEF m
<1>9. ASSUME NEW role \in Chain!RolesOf(context)
      PROVE  Chain!ValidEntry(p.entries[role], p.issue, role, p.source[role])
  BY <1>1, <1>4, <1>6, <1>8 DEF Chain!ValidEntry
<1>10. ASSUME NEW r \in Chain!RolesOf(context), NEW s \in Chain!RolesOf(context), r # s
       PROVE  p.entries[r].previewUrl # p.entries[s].previewUrl
  <2>1. {r, s} = {"base", "candidate"} /\ {"base", "candidate"} \subseteq Chain!ActiveRoles(m.source)
    BY <1>2, <1>10 DEF Chain!RolesOf, m
  <2>2. \A x \in {y \in m.captures : y.role = "base"},
           z \in {y \in m.captures : y.role = "candidate"} : x.url # z.url
    BY <1>2, <2>1 DEF Chain!ValidManifest
  <2>3. first(r).url # first(s).url
    BY <1>5, <2>1, <2>2
  <2>4. QED
    BY <1>6, <2>3
<1>11. NotThereOf(set, context, branch) = Chain!RolesOf(context)
       /\ ThereOf(set, context, branch) = {}
  BY DEF NotThereOf, ThereOf
<1>12. p.existing = {} /\ p.added = PathsOf(set, context, Chain!RolesOf(context))
  BY <1>1, <1>11 DEF PathsOf
<1>13. p.added
         = UNION {Chain!Paths(p.entries[role].directory, p.entries[role].pngs) :
                    role \in Chain!RolesOf(context)}
  BY <1>6, <1>12 DEF PathsOf, plan
<1>14. Chain!ActiveRoles(p.source) = Chain!RolesOf(context)
       /\ Chain!RolesOf(context)
            = IF p.kind = "release" THEN {"release"} ELSE {"base", "candidate"}
  BY <1>1 DEF Chain!RolesOf
<1>15. QED
  BY <1>7, <1>9, <1>10, <1>12, <1>13, <1>14 DEF Chain!ValidPublication

\* A comment that is posted is of the run that published.
LEMMA CommentIsTrue ==
  ASSUME NEW set \in Chain!Captures, NEW publisher \in Contexts, NEW branch \in Chain!Branches,
         NEW result, result = Chain!PublishEvidence(set, publisher, publisher, branch),
         result.publication # None,
         NEW file \in Contexts, NEW context \in Contexts,
         NEW links, links = Chain!CommentEvidence(file, context, result.publication),
         links # {}
  PROVE  AreTrue(links, result.branch, context)
<1> DEFINE p == Chain!Publication(Chain!Plans(set, publisher), publisher, branch)
<1>1. Chain!Read(publisher, publisher)
      /\ result = Chain!Publish(set, publisher, branch, 0)
  BY DEF Chain!PublishEvidence
<1>2. Chain!Publishable(set, publisher, branch)
  BY <1>1, PublishedOf
<1>3. /\ result.publication = p
      /\ result.branch
           = Chain!Install(branch, Chain!NewPlans(Chain!Plans(set, publisher), branch))
  BY <1>1, <1>2, PublishedOf
<1>4. /\ file = context /\ Chain!Announceable(file, p) /\ links = Chain!Links(p)
  BY <1>3 DEF Chain!CommentEvidence, Chain!Read
<1>5. p.run = publisher.run
  BY PublicationOfRoles
<1> HIDE DEF p
<1>6. p.run = context.run
  BY <1>4 DEF Chain!Announceable
<1>7. context = publisher
  BY <1>5, <1>6, EvidenceConstants
<1>8. links = PathsOf(set, context, Chain!RolesOf(context))
  BY <1>4, <1>7, LinksOfPublication DEF p
<1>9. IsSet(set) /\ IsPictured(set) /\ \A d \in DOMAIN branch : IsSet(branch[d])
  BY CapturedSet, BranchHasSets
<1>10. QED
  BY <1>2, <1>3, <1>7, <1>8, <1>9, LinksAreTrue

\* A capture of its own can be published and announced.
LEMMA OwnIsAnnounced ==
  ASSUME NoneIsNoDocument,
         NEW context \in Contexts, NEW answer \in Answers, NEW take \in Takes,
         NEW set, set = Chain!OwnCapture(context, answer, take, 1),
         set # None, answer.foreign # "many",
         NEW result,
         result = Chain!PublishEvidence(set, context, context, Chain!Nothing)
  PROVE  /\ result.publication # None
         /\ Chain!CommentEvidence(context, context, result.publication) # {}
<1> DEFINE branch == Chain!Nothing
           p == Chain!Publication(Chain!Plans(set, context), context, branch)
<1>1. PICK variants : /\ IsAsked(variants, context)
                      /\ set = Chain!CaptureEvidence(context, variants, answer, take, 1)
  BY OwnVariants
<1>2. Chain!Loads(set) /\ Chain!MatchesContext(set.manifest, context)
  BY <1>1, OwnLoads
<1>3. IsSet(set)
  BY <1>1, TakenSet
<1>4. /\ Chain!Stored(context)
      /\ Chain!ActiveRoles(context.source) = Chain!RolesOf(context)
  BY ResolvedIsStored
<1>5. DOMAIN branch = {}
  BY DEF Chain!Nothing
<1>6. Chain!ValidPublication(p)
  BY <1>2, <1>3, <1>4, <1>5, FreshPublication
<1>7. Chain!Publishable(set, context, branch)
  BY <1>2, <1>4, <1>5, <1>6 DEF Chain!Publishable
<1>8. result = Chain!Publish(set, context, branch, 0)
  BY <1>4 DEF Chain!PublishEvidence, Chain!Read
<1>9. result.publication = p
  BY <1>7, <1>8, PublishedOf
<1>10. p # None
  BY PublicationIsSomething
<1>11. /\ p.kind = context.kind /\ p.issue = context.issue /\ p.pr = context.pr
       /\ p.source = context.source /\ p.run = context.run
  BY PublicationOfRoles
<1>12. Chain!Links(p) = PathsOf(set, context, Chain!RolesOf(context))
  BY LinksOfPublication
<1> HIDE DEF p
<1>13. Chain!CommentEvidence(context, context, p) = Chain!Links(p)
  BY <1>4, <1>6, <1>11 DEF Chain!CommentEvidence, Chain!Read, Chain!Announceable
<1>14. PathsOf(set, context, Chain!RolesOf(context)) # {}
  <2>1. PICK role : role \in Chain!RolesOf(context)
    BY DEF Chain!RolesOf
  <2>2. \E name \in DOMAIN Chain!PlanOf(set, context, role).content.files
                      \cup {Chain!ManifestFile} :
          <<Chain!PlanOf(set, context, role).directory, Chain!ManifestFile>>
            = <<Chain!PlanOf(set, context, role).directory, name>>
    OBVIOUS
  <2>3. <<Chain!PlanOf(set, context, role).directory, Chain!ManifestFile>>
          \in PathsOf(set, context, Chain!RolesOf(context))
    BY <2>1, <2>2, LinkOfRole
  <2>4. QED
    BY <2>3
<1>15. QED
  BY <1>9, <1>10, <1>12, <1>13, <1>14

\* For any contexts, whatever files of other runs a job was given: a comment links exactly
\* the pictures that its context asks for, of the commits it names, taken by its run; what
\* was published stays; and what a job writes for its own run the next one accepts.
THEOREM CommentsAreTrue ==
  ASSUME NoneIsNoDocument
  PROVE  EvidenceIsTrue
<1>1. ASSUME NEW set \in Chain!Captures, NEW publisher \in Contexts,
             NEW branch \in Chain!Branches
      PROVE  LET result == Chain!PublishEvidence(set, publisher, publisher, branch)
             IN result.publication # None =>
                  \A file \in Contexts, context \in Contexts :
                    LET links == Chain!CommentEvidence(file, context, result.publication)
                    IN links # {} =>
                         /\ \A link \in links :
                              /\ link[1] \in DOMAIN result.branch
                              /\ LET there == result.branch[link[1]] IN
                                   /\ there.manifest.run = context.run
                                   /\ there.manifest.issue = context.issue
                                   /\ there.manifest.pr = context.pr
                                   /\ link[2] # Chain!ManifestFile =>
                                        there.files[link[2]].shows = link[1][3]
                         /\ {<<there.shows, there.viewport, there.kind>> : there \in
                               {result.branch[link[1]].files[link[2]] : link \in
                                  {l \in links : l[2] # Chain!ManifestFile}}}
                            = {context.source[role] : role \in Chain!RolesOf(context)}
                                \X Chain!Viewports \X Chain!Kinds(context.request.selector)
  <2> DEFINE result == Chain!PublishEvidence(set, publisher, publisher, branch)
  <2>1. ASSUME result.publication # None, NEW file \in Contexts, NEW context \in Contexts,
               Chain!CommentEvidence(file, context, result.publication) # {}
        PROVE  LET links == Chain!CommentEvidence(file, context, result.publication) IN
               /\ \A link \in links :
                    /\ link[1] \in DOMAIN result.branch
                    /\ LET there == result.branch[link[1]] IN
                         /\ there.manifest.run = context.run
                         /\ there.manifest.issue = context.issue
                         /\ there.manifest.pr = context.pr
                         /\ link[2] # Chain!ManifestFile =>
                              there.files[link[2]].shows = link[1][3]
               /\ {<<there.shows, there.viewport, there.kind>> : there \in
                     {result.branch[link[1]].files[link[2]] : link \in
                        {l \in links : l[2] # Chain!ManifestFile}}}
                  = {context.source[role] : role \in Chain!RolesOf(context)}
                      \X Chain!Viewports \X Chain!Kinds(context.request.selector)
    <3> DEFINE links == Chain!CommentEvidence(file, context, result.publication)
    <3>1. AreTrue(links, result.branch, context)
      BY <2>1, CommentIsTrue
    <3> HIDE DEF links, result
    <3>2. QED
      BY <3>1, Zenon DEF AreTrue, IsOf, LinkedOf, links
  <2> HIDE DEF result
  <2>2. QED
    BY <2>1, Zenon DEF result
<1>2. \A set \in Chain!Captures, publisher \in Contexts, branch \in Chain!Branches :
        Chain!Restrict(Chain!Publish(set, publisher, branch, 0).branch, DOMAIN branch) = branch
  BY BranchIsFunction, BranchIsKept
<1>3. \A draft \in Drafts : \A request \in Chain!RequestOf(draft, draft.issue) :
        Chain!Normalized(request, draft.issue)
  BY EvidenceConstants, RequestIsNormalized
<1>4. ASSUME NEW context \in Contexts, NEW answer \in Answers, NEW take \in Takes
      PROVE  LET set == Chain!OwnCapture(context, answer, take, 1)
             IN /\ Chain!AsExpected(answer, context) => set # None
                /\ set # None /\ answer.foreign # "many" =>
                     LET result == Chain!PublishEvidence(set, context, context, Chain!Nothing)
                     IN /\ result.publication # None
                        /\ Chain!CommentEvidence(context, context, result.publication) # {}
  <2>1. Chain!AsExpected(answer, context) => Chain!OwnCapture(context, answer, take, 1) # None
    BY OwnVariants, ExpectedIsTaken
  <2>2. QED
    BY <2>1, OwnIsAnnounced
<1>5. Chain!EvidenceIsTrue
  BY <1>1, <1>2, <1>3, <1>4, Zenon DEF Chain!EvidenceIsTrue
<1>6. QED
  BY <1>5 DEF EvidenceIsTrue

\* Publishing keeps the branch truthful, which is what EvidenceConstants supposes of the
\* evidence that a release is authorized with.
THEOREM TruthIsPublished ==
  ASSUME NEW set \in Chain!Captures, NEW context, NEW branch,
         \A d \in DOMAIN branch : IsTruthful(branch[d]),
         NEW after, after = Chain!Publish(set, context, branch, 0).branch,
         NEW d \in DOMAIN after
  PROVE  IsTruthful(after[d])
<1>1. CASE d \in DOMAIN branch
  <2>1. CASE Chain!Publishable(set, context, branch)
    <3>1. after = Chain!Install(branch, Chain!NewPlans(Chain!Plans(set, context), branch))
      BY <2>1, PublishedOf
    <3>2. Keeps(branch, after)
      BY <3>1, InstalledPlans
    <3>3. QED
      BY <1>1, <3>2 DEF Keeps
  <2>2. CASE ~Chain!Publishable(set, context, branch)
    BY <1>1, <2>2, PublishedOf
  <2>3. QED
    BY <2>1, <2>2
<1>2. CASE d \notin DOMAIN branch
  <2>1. Chain!Publishable(set, context, branch)
        /\ after = Chain!Install(branch, Chain!NewPlans(Chain!Plans(set, context), branch))
    BY <1>2, PublishedOf
  <2>2. /\ DOMAIN after = DOMAIN branch \cup DirectoriesOf(set, context)
        /\ Brings(set, context, branch, after)
    BY <2>1, InstalledPlans
  <2>3. PICK role \in Chain!RolesOf(context) :
             d = Chain!PlanOf(set, context, role).directory
    BY <1>2, <2>2 DEF DirectoriesOf
  <2> DEFINE plan == Chain!PlanOf(set, context, role)
  <2>4. after[d] = plan.content
    BY <1>2, <2>2, <2>3 DEF Brings
  <2>5. IsSet(set) /\ IsPictured(set)
    BY CapturedSet
  <2>6. Chain!Loads(set) /\ role \in Chain!ActiveRoles(set.manifest.source)
    BY <2>1, PublishableRoles DEF Chain!Publishable
  <2>7. Chain!Loads(plan.content)
    BY <2>5, <2>6, PartLoads
  <2>8. plan.content.manifest.captures = RecordsOfRole(set.manifest, role)
    <3>1. plan.content.manifest = Chain!RoleManifest(set.manifest, role)
      BY <2>5, PlanOfRole DEF IsSet
    <3>2. Chain!RoleManifest(set.manifest, role).captures = RecordsOfRole(set.manifest, role)
      BY <2>5, ManifestOfRole DEF IsSet
    <3>3. QED
      BY <3>1, <3>2
  <2> HIDE DEF plan
  <2>9. \A r \in plan.content.manifest.captures : r.sha256.shows = r.sourceSha
    BY <2>5, <2>8 DEF RecordsOfRole, IsPictured
  <2>10. QED
    BY <2>4, <2>7, <2>9 DEF IsTruthful
<1>3. QED
  BY <1>1, <1>2
================================================================================
