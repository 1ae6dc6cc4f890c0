----------------------------- MODULE CandidateSeals -----------------------------
(***************************************************************************)
(* What binds the files of a change to each other.                         *)
(*                                                                         *)
(* A change that has passed Gate 2 lies on disk in fifteen places, and     *)
(* perhaps once more as a sanitized dossier with its tag.  loadCandidate,  *)
(* the publications and the audit read them one after the other, at any    *)
(* later time, and must refuse a mixture: a state directory restored in    *)
(* part, files of another attempt, of a run of the attempt that was        *)
(* repeated, of another clone.                                             *)
(*                                                                         *)
(* A lineage is one history that wrote all of these files.  What is on     *)
(* disk is, for each file, the lineage that it comes from.  A digest is    *)
(* the value it was taken of: SHA-256 does not collide.                    *)
(***************************************************************************)
EXTENDS Naturals, Sequences, FiniteSets

CONSTANTS
  Lineages,      \* what the files may come from
  OwnKey,        \* the key with which this process signs approvals
  Recorded,      \* whether a dossier and its tag may have been recorded
  MaxDisturbed,  \* bound: files that are replaced or lost
  None           \* no such file, no such digest

Fields == {"change", "attempt", "input", "plan", "baseline", "profile", "output",
           "moment", "environment", "key", "sealed"}

ASSUME CandidateSealsConstants ==
  /\ Recorded \in BOOLEAN /\ MaxDisturbed \in Nat
  /\ \A l \in Lineages : DOMAIN l = Fields /\ l # None

State == {"state", "request", "plan", "attempt", "candidate", "gate1", "gate2",
          "sidecar1", "sidecar2"}
Candidate == {"manifest", "provenance", "reference", "bundle", "preliminary", "build"}
Dossier == {"d.request", "d.plan", "d.gate1", "d.gate2", "d.attempt", "d.candidate",
            "d.preimage"}
Files == State \cup Candidate \cup Dossier \cup {"tag"}

Operations == {"preview", "local", "cloudflare", "promotion", "audit"}

VARIABLES
  disk,       \* disk[f]: the lineage of a file, or None
  disturbed,  \* how many files were replaced or lost
  origin,     \* the lineage that wrote everything
  op,         \* what reads
  pc,         \* its next step
  read        \* read[f]: the lineage of what it last read there, or None

vars == <<disk, disturbed, origin, op, pc, read>>

-----------------------------------------------------------------------------
(***************************************************************************)
(* The files of a lineage.                                                 *)
(***************************************************************************)
Identity(l) == [change |-> l.change, attempt |-> l.attempt]
Tree(l) == <<l.baseline, l.output>>
Commit(l) == [parent |-> l.baseline, tree |-> Tree(l), moment |-> l.moment]
Bundle(l) == [commit |-> Commit(l), profile |-> l.profile]
Request(l) == [change |-> l.change, input |-> l.input]
Plan(l) == [change |-> l.change, input |-> l.input, baseline |-> l.baseline,
            profile |-> l.profile, plan |-> l.plan]

\* What a staged validation and what the build of the candidate left.
Preliminary(l) == [attempt |-> l.attempt, plan |-> Plan(l), output |-> l.output]
Build(l) == [artifact |-> Bundle(l), attempt |-> l.attempt, commit |-> Commit(l),
             tree |-> Tree(l), plan |-> Plan(l)]

\* No digest is that of nothing.
ASSUME NoneIsNoDigest == \A l \in Lineages : Preliminary(l) # None /\ Build(l) # None

\* A candidate sealed before digests were recorded has none.
Digest(l, evidence) == IF l.sealed THEN evidence ELSE None
Validation(id, digest) == [id |-> id, digest |-> digest]

Facts(l) == [change |-> l.change, attempt |-> l.attempt, input |-> l.input,
             plan |-> Plan(l), baseline |-> l.baseline]

StagedValidation(l) == Validation("staged", Digest(l, Preliminary(l)))
BuildValidation(l) == Validation("build", Digest(l, Build(l)))

Manifest(l) ==
  [facts |-> Facts(l), commit |-> Commit(l), artifact |-> Bundle(l), profile |-> l.profile,
   validations |-> <<StagedValidation(l), BuildValidation(l)>>]

Attempt(l) == [facts |-> Facts(l), validations |-> <<StagedValidation(l)>>]

Provenance(l) == [of |-> Identity(l), commit |-> Commit(l), tree |-> Tree(l),
                  artifact |-> Bundle(l)]

\* hasRecordableValidationEvidence.
Recordable(m) == \A i \in DOMAIN m.validations : m.validations[i].digest # None

\* sanitizedCandidateProjection: what may be printed.
Projection(m) == [facts |-> m.facts, commit |-> m.commit, artifact |-> m.artifact,
                  profile |-> m.profile, validations |-> m.validations]

\* candidateDossierPreimage: every field, or its digest.
Preimage(m) == [kind |-> "preimage", of |-> m]

Commitment(digest, projection) == [candidate |-> digest, projection |-> projection]

WithoutDigests(m) ==
  [m EXCEPT !.validations = [i \in DOMAIN @ |-> [@[i] EXCEPT !.digest = None]]]

\* candidateApprovalSubject, which a person confirms at Gate 2.
Subject(m) ==
  IF Recordable(m) THEN Commitment(Preimage(m), Projection(m))
  ELSE Commitment(m, Projection(WithoutDigests(m)))

Gate1(l) == [change |-> l.change, baseline |-> l.baseline, subject |-> Plan(l),
             environment |-> l.environment]
Gate2(l) == [change |-> l.change, baseline |-> l.baseline,
             subject |-> Subject(Manifest(l)), commit |-> Commit(l),
             artifact |-> Bundle(l), environment |-> l.environment]
Issuer(l) == IF l.environment = "production" THEN "controller" ELSE "fixture"
Sidecar(l, approval) == [approval |-> approval, issuer |-> Issuer(l),
                         environment |-> l.environment, key |-> l.key]

\* The annotated tag.
Tag(l) == [change |-> l.change, commit |-> Commit(l), candidate |-> Preimage(Manifest(l)),
           projection |-> Projection(Manifest(l)), subject |-> Subject(Manifest(l)),
           dossier |-> <<Request(l), Plan(l), Gate1(l), Gate2(l), Attempt(l), Manifest(l)>>]

\* What is in a file that comes from l.
Content(f, l) ==
  CASE f = "state" -> Identity(l)
    [] f \in {"request", "d.request"} -> Request(l)
    [] f \in {"plan", "d.plan"} -> Plan(l)
    [] f \in {"attempt", "d.attempt"} -> Attempt(l)
    [] f \in {"candidate", "manifest", "d.candidate", "d.preimage"} -> Manifest(l)
    [] f \in {"gate1", "d.gate1"} -> Gate1(l)
    [] f \in {"gate2", "d.gate2"} -> Gate2(l)
    [] f = "sidecar1" -> Sidecar(l, Gate1(l))
    [] f = "sidecar2" -> Sidecar(l, Gate2(l))
    [] f = "provenance" -> Provenance(l)
    [] f = "reference" -> Commit(l)
    [] f = "bundle" -> Bundle(l)
    [] f = "preliminary" -> Preliminary(l)
    [] f = "build" -> Build(l)
    [] f = "tag" -> Tag(l)

-----------------------------------------------------------------------------
(***************************************************************************)
(* The checks.  r[f] is the lineage of what has been read in f.            *)
(***************************************************************************)
Read(f, r) == Content(f, r[f])

\* loadCandidate: the manifest is that of the directory, and so is its
\* provenance (verifiedDurableProvenance).
ManifestBinds(r) ==
  LET m == Read("manifest", r)
      p == Read("provenance", r)
  IN /\ m.facts.change = origin.change /\ m.facts.attempt = origin.attempt
     /\ p.of = Identity(origin)
     /\ p.commit = m.commit /\ p.artifact = m.artifact

\* Mutant of CommitBinds: any commit of the reference will do.
CommitExists(r) == Read("reference", r).parent = Read("manifest", r).facts.baseline

\* assertDurableCandidateStoreCommit.
CommitBinds(r) ==
  LET m == Read("manifest", r)
  IN /\ Read("reference", r) = m.commit
     /\ m.commit.parent = m.facts.baseline
     /\ m.commit.tree = Read("provenance", r).tree

\* validateFlattenedConfig: worker, database and vars are those of the profile.
ConfiguredFor(bundle, profile) == bundle.profile = profile

\* Its configuration is for the profile, and the digest of its files is right.
BundleBinds(r) ==
  LET m == Read("manifest", r)
  IN ConfiguredFor(Read("bundle", r), m.profile) /\ Read("bundle", r) = m.artifact

\* Mutant of FilesBind: the candidate of the controller is not compared.
FilesBindWithoutCandidate(r) ==
  LET m == Read("manifest", r)
      request == Read("request", r)
      plan == Read("plan", r)
  IN /\ request.change = m.facts.change /\ request.input = m.facts.input
     /\ plan = m.facts.plan /\ plan.profile = m.profile
     /\ Read("attempt", r).facts = m.facts

\* Request, plan, attempt and the candidate of the controller, for the candidate.
FilesBind(r) ==
  LET m == Read("manifest", r)
      request == Read("request", r)
      plan == Read("plan", r)
  IN /\ request.change = m.facts.change /\ request.input = m.facts.input
     /\ plan.change = m.facts.change /\ plan.input = m.facts.input
     /\ plan = m.facts.plan /\ plan.baseline = m.facts.baseline
     /\ plan.profile = m.profile
     /\ Read("candidate", r) = m
     /\ Read("attempt", r).facts = m.facts

\* Mutant of EvidenceBinds: the attempt has all validations of the candidate.
EvidenceOfAll(r) ==
  /\ Recordable(Read("manifest", r))
  /\ Read("attempt", r).validations = Read("manifest", r).validations

\* verifyCandidateEvidence: the attempt has the staged validations and no more;
\* the bytes are those of the digests and speak of this candidate.
EvidenceBinds(r) ==
  LET m == Read("manifest", r)
      attempt == Read("attempt", r)
      staged == Read("preliminary", r)
      built == Read("build", r)
  IN /\ Recordable(m)
     /\ Len(attempt.validations) = Len(m.validations) - 1
     /\ attempt.validations[1] = m.validations[1]
     /\ m.validations[1].digest = staged
     /\ staged.attempt = m.facts.attempt /\ staged.plan = m.facts.plan
     /\ m.validations[2].digest = built
     /\ built.artifact = m.artifact /\ built.attempt = m.facts.attempt
     /\ built.commit = m.commit /\ built.tree = Read("provenance", r).tree
     /\ built.plan = m.facts.plan

JournalBinds(r) == Read("state", r) = Identity(r["manifest"])

\* verifyApproval of both gates.
ApprovalsBind(r) ==
  LET m == Read("manifest", r)
      plan == Read("plan", r)
      gate1 == Read("gate1", r)
      gate2 == Read("gate2", r)
  IN /\ gate1.baseline = m.facts.baseline /\ gate2.baseline = m.facts.baseline
     /\ gate1.change = plan.change /\ gate1.baseline = plan.baseline
     /\ gate1.subject = plan
     /\ gate2.change = m.facts.change
     /\ gate2.subject = Subject(m)
     /\ gate2.commit = m.commit /\ gate2.artifact = m.artifact

\* Mutant of SidecarsBind: each approval has its provenance, and that is all.
EachSidecarBinds(r) ==
  \A g \in {<<"gate1", "sidecar1">>, <<"gate2", "sidecar2">>} :
    LET approval == Read(g[1], r)
        sidecar == Read(g[2], r)
    IN /\ sidecar.key = OwnKey /\ sidecar.approval = approval
       /\ sidecar.environment = approval.environment

\* verifyPersistedApprovalProvenance of both, and what they must share.
SidecarsBind(r) ==
  LET gate1 == Read("gate1", r)
      gate2 == Read("gate2", r)
      sidecar1 == Read("sidecar1", r)
      sidecar2 == Read("sidecar2", r)
  IN /\ sidecar1.key = OwnKey /\ sidecar2.key = OwnKey
     /\ sidecar1.approval = gate1 /\ sidecar2.approval = gate2
     /\ sidecar1.environment = gate1.environment
     /\ sidecar2.environment = gate2.environment
     /\ gate1.environment = gate2.environment
     /\ sidecar1.issuer = sidecar2.issuer

\* assertCandidatePublication: test approvals go no further than a local preview.
MayPublish(environment) == environment = "production" \/ op = "local"

\* The local dossier repeats what the audit has read.
Twin == [d \in Dossier |->
  CASE d = "d.request" -> "request" [] d = "d.plan" -> "plan"
    [] d = "d.gate1" -> "gate1" [] d = "d.gate2" -> "gate2"
    [] d = "d.attempt" -> "attempt" [] OTHER -> "manifest"]

Repeats(r) == \A d \in Dossier : r[d] # None /\ Read(d, r) = Read(Twin[d], r)

\* assertDurableAttempt: every validation of the candidate, in its order.
AttemptBinds(r) ==
  /\ Read("d.attempt", r).facts = Read("d.candidate", r).facts
  /\ Read("d.attempt", r).validations = Read("d.candidate", r).validations

\* assertCandidateDossierProjectionBinding.
ProjectionBinds(m, c) == Projection(m) = Projection(c)

\* durableCandidateFacts: candidate.json of a dossier and its preimage.
CandidateBinds(m, c) ==
  /\ Recordable(c) /\ Recordable(m)
  /\ Preimage(m) = Preimage(c)
  /\ ProjectionBinds(m, c)

\* verifyDurableFixtureDossier.
DossierBinds(r) ==
  LET c == Read("d.candidate", r)
      m == Read("d.preimage", r)
      request == Read("d.request", r)
      plan == Read("d.plan", r)
      gate1 == Read("d.gate1", r)
      gate2 == Read("d.gate2", r)
      tag == Read("tag", r)
  IN /\ CandidateBinds(m, c)
     /\ request.change = origin.change /\ request.input = c.facts.input
     /\ plan.change = origin.change /\ plan = c.facts.plan
     /\ plan.profile = c.profile
     /\ gate1.environment = "test" /\ gate2.environment = "test"
     /\ gate1.subject = plan /\ gate2.subject = Subject(c)
     /\ gate2.commit = c.commit /\ gate2.artifact = c.artifact
     /\ tag.change = origin.change /\ tag.commit = c.commit
     /\ tag.candidate = Preimage(c) /\ tag.projection = Projection(c)
     /\ tag.subject = gate2.subject
     /\ tag.dossier = <<request, plan, gate1, gate2, Read("d.attempt", r), c>>
     /\ AttemptBinds(r)

-----------------------------------------------------------------------------
(***************************************************************************)
(* The steps.                                                              *)
(***************************************************************************)
Publications == {"local", "cloudflare", "promotion"}
At(label) == pc = label

\* The step reads these files and goes on if they are there and right.
Reads(files, right, next) ==
  /\ read' = [f \in Files |-> IF f \in files THEN disk[f] ELSE read[f]]
  /\ pc' = IF (\A f \in files : disk[f] # None) /\ right THEN next ELSE "refused"
  /\ UNCHANGED <<disk, disturbed, origin, op>>

Init ==
  /\ origin \in Lineages
  /\ op \in Operations
  /\ \E recorded \in {FALSE, Recorded /\ op = "audit" /\ origin.environment = "test"} :
       disk = [f \in Files |->
                 IF f \in Dossier \cup {"tag"} /\ ~recorded THEN None ELSE origin]
  /\ disturbed = 0
  /\ pc = IF op = "audit" THEN "record" ELSE "manifest"
  /\ read = [f \in Files |-> None]

\* The attempt of the record names the directories, so another one has none.
ReadRecord ==
  /\ At("record")
  /\ Reads({"state"}, Read("state", read') = Identity(origin), "manifest")

LoadManifest ==
  /\ At("manifest")
  /\ Reads({"manifest", "provenance"}, ManifestBinds(read'), "commit")

LoadCommit ==
  /\ At("commit")
  /\ Reads({"reference"}, CommitBinds(read'), "bundle")

LoadBundle ==
  /\ At("bundle")
  /\ Reads({"bundle"}, BundleBinds(read'),
           IF op = "preview" THEN "recommit" ELSE "files")

ReadFiles ==
  /\ At("files")
  /\ Reads({"request", "plan", "candidate", "attempt", "gate1", "gate2"},
           FilesBind(read'), IF op = "audit" THEN "gates" ELSE "evidence")

ReadEvidence ==
  /\ At("evidence")
  /\ Reads({"preliminary", "build"}, EvidenceBinds(read'),
           IF op = "audit" THEN "dossier" ELSE "journal")

ReadJournal ==
  /\ At("journal")
  /\ Reads({"state"}, JournalBinds(read'), "gates")

CheckGates ==
  /\ At("gates")
  /\ Reads({}, ApprovalsBind(read'), IF op = "audit" THEN "recommit" ELSE "sidecars")

ReadSidecars ==
  /\ At("sidecars")
  /\ Reads({"sidecar1", "sidecar2"},
           SidecarsBind(read') /\ MayPublish(Read("gate1", read').environment), "recommit")

\* verifyCandidateArtifact: the commit and the bundle once more.
RecheckCommit ==
  /\ At("recommit")
  /\ Reads({"reference"}, CommitBinds(read'), "rebundle")

RecheckBundle ==
  /\ At("rebundle")
  /\ Reads({"bundle"}, BundleBinds(read'), IF op = "audit" THEN "evidence" ELSE "accepted")

\* verifyFixtureDossier: a dossier that is there repeats the change; without one
\* there is no tag.  It reads the approvals again.
CompareDossier ==
  /\ At("dossier")
  /\ \/ /\ \A d \in Dossier : disk[d] = None
        /\ Reads({}, disk["tag"] = None, "accepted")
     \/ /\ \E d \in Dossier : disk[d] # None
        /\ Reads(Dossier \cup {"gate1", "gate2"},
                 ApprovalsBind(read') /\ Repeats(read'), "durable")

CheckDossier ==
  /\ At("durable")
  /\ Reads(Dossier \cup {"tag"}, DossierBinds(read'), "accepted")

\* The files the operation looks at.
Concerned ==
  CASE op = "preview" -> {"manifest", "provenance", "reference", "bundle"}
    [] op = "audit" -> Files \ {"sidecar1", "sidecar2"}
    [] OTHER -> State \cup Candidate

\* A file is replaced by the one of another lineage, or lost.
Disturb(f) ==
  /\ f \in Concerned
  /\ disturbed < MaxDisturbed /\ disturbed' = disturbed + 1
  /\ pc \notin {"accepted", "refused"}
  /\ \E l \in (Lineages \cup {None}) \ {disk[f]} : disk' = [disk EXCEPT ![f] = l]
  /\ UNCHANGED <<origin, op, pc, read>>

Step ==
  \/ ReadRecord \/ LoadManifest \/ LoadCommit \/ LoadBundle \/ ReadFiles \/ ReadEvidence
  \/ ReadJournal \/ CheckGates \/ ReadSidecars \/ RecheckCommit \/ RecheckBundle
  \/ CompareDossier \/ CheckDossier

Next == Step \/ \E f \in Files : Disturb(f)

Spec == Init /\ [][Next]_vars

-----------------------------------------------------------------------------
(***************************************************************************)
(* Properties.                                                             *)
(***************************************************************************)
\* A candidate that has been loaded is one candidate: manifest, provenance,
\* commit and bundle agree, although each was read alone.
LoadedIsOne ==
  pc \in {"files", "rebundle"} =>
    \A f \in {"provenance", "reference", "bundle"} :
      Read(f, read) = Content(f, read["manifest"])

\* The history whose Gate 2 was read, as this process has approved it.
Approved == [read["gate2"] EXCEPT !.key = OwnKey]

\* What a publication accepts is, file by file, what the lineage wrote whose
\* Gate 2 a person approved: no part of a state that was restored, repeated or
\* mixed with that of another attempt or clone gets through.
PublishedIsOne ==
  pc = "accepted" /\ op \in Publications =>
    /\ \A f \in Files : read[f] # None => Read(f, read) = Content(f, Approved)
    /\ op = "local" \/ Approved.environment = "production"

\* The same of what an audit accepts, which does not ask who approved Gate 1.
AuditedIsOne ==
  pc = "accepted" /\ op = "audit" =>
    /\ \A f \in Files \ {"gate1"} :
         read[f] # None => Read(f, read) = Content(f, Approved)
    /\ Read("gate1", read).subject = Plan(Approved)

\* Who reads a change as one lineage wrote it is not refused: by a preview of any
\* candidate, by the publications this process approved for, and by an audit.
Entitled ==
  CASE op = "preview" -> TRUE
    [] op = "audit" -> origin.sealed
    [] OTHER -> origin.sealed /\ origin.key = OwnKey /\ MayPublish(origin.environment)

HonestIsAccepted ==
  disturbed = 0 /\ Entitled /\ disk["tag"] = None => pc # "refused"

\* The same for a change whose dossier has been recorded together with its tag.
RecordedIsAudited ==
  disturbed = 0 /\ Entitled => pc # "refused"
=============================================================================
