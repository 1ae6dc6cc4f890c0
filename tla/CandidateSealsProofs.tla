-------------------------- MODULE CandidateSealsProofs --------------------------
(***************************************************************************)
(* A publication accepts one history, whatever histories there are and     *)
(* however many files are replaced or lost while it reads; so does an      *)
(* audit; and neither they nor a preview refuse what one history wrote.    *)
(*                                                                         *)
(* What has been checked stays true of what has been read, because a later *)
(* step reads other files, or the same ones and checks them again.         *)
(***************************************************************************)
EXTENDS CandidateSeals, TLAPS

\* The labels at which a check has been passed, by any operation the first three,
\* by a publication the others.
PastManifest == {"commit", "bundle", "files", "evidence", "journal", "gates", "sidecars",
                 "recommit", "rebundle", "dossier", "durable", "accepted"}
PastCommit == PastManifest \ {"commit"}
PastBundle == PastCommit \ {"bundle"}
PastFiles == PastBundle \ {"files"}
PastEvidence == PastFiles \ {"evidence"}
PastJournal == PastEvidence \ {"journal"}
PastGates == PastJournal \ {"gates"}
PastSidecars == PastGates \ {"sidecars"}

Loaded ==
  /\ pc \in PastManifest => ManifestBinds(read)
  /\ pc \in PastCommit => CommitBinds(read)
  /\ pc \in PastBundle => BundleBinds(read)

Checked ==
  /\ pc \in PastFiles => FilesBind(read) /\ read["gate2"] # None
  /\ pc \in PastEvidence => EvidenceBinds(read)
  /\ pc \in PastJournal => JournalBinds(read)
  /\ pc \in PastGates => ApprovalsBind(read)
  /\ pc \in PastSidecars =>
       SidecarsBind(read) /\ MayPublish(Read("gate1", read).environment)

\* A publication reads no dossier.
NoDossier == \A f \in Dossier \cup {"tag"} : read[f] = None

Labels == PastManifest \cup {"record", "manifest", "refused"}

IInv ==
  /\ pc \in Labels
  /\ read \in [Files -> Lineages \cup {None}]
  /\ disk \in [Files -> Lineages \cup {None}]
  /\ Loaded
  /\ op \in Publications => Checked /\ NoDossier /\ pc \notin {"dossier", "durable"}

-----------------------------------------------------------------------------
(***************************************************************************)
(* A check depends on the files it names.                                  *)
(***************************************************************************)
LEMMA ChecksAreLocal ==
  ASSUME NEW r, NEW s
  PROVE
    /\ r["manifest"] = s["manifest"] =>
         /\ r["provenance"] = s["provenance"] =>
              /\ ManifestBinds(r) <=> ManifestBinds(s)
              /\ r["reference"] = s["reference"] => (CommitBinds(r) <=> CommitBinds(s))
              /\ r["attempt"] = s["attempt"] /\ r["preliminary"] = s["preliminary"]
                 /\ r["build"] = s["build"] => (EvidenceBinds(r) <=> EvidenceBinds(s))
         /\ r["bundle"] = s["bundle"] => (BundleBinds(r) <=> BundleBinds(s))
         /\ r["state"] = s["state"] => (JournalBinds(r) <=> JournalBinds(s))
         /\ r["plan"] = s["plan"] =>
              /\ r["request"] = s["request"] /\ r["candidate"] = s["candidate"]
                 /\ r["attempt"] = s["attempt"] => (FilesBind(r) <=> FilesBind(s))
              /\ r["gate1"] = s["gate1"] /\ r["gate2"] = s["gate2"] =>
                   (ApprovalsBind(r) <=> ApprovalsBind(s))
    /\ r["gate1"] = s["gate1"] /\ r["gate2"] = s["gate2"]
       /\ r["sidecar1"] = s["sidecar1"] /\ r["sidecar2"] = s["sidecar2"] =>
         (SidecarsBind(r) <=> SidecarsBind(s))
  BY DEF ManifestBinds, CommitBinds, BundleBinds, ConfiguredFor, FilesBind, EvidenceBinds,
         JournalBinds, ApprovalsBind, SidecarsBind, Read

\* What the next state says of what it has read, said of this one.
LEMMA ChecksOfNext ==
  ASSUME UNCHANGED <<origin, op>>
  PROVE  /\ ManifestBinds(read)' <=> ManifestBinds(read')
         /\ CommitBinds(read)' <=> CommitBinds(read')
         /\ BundleBinds(read)' <=> BundleBinds(read')
         /\ FilesBind(read)' <=> FilesBind(read')
         /\ EvidenceBinds(read)' <=> EvidenceBinds(read')
         /\ JournalBinds(read)' <=> JournalBinds(read')
         /\ ApprovalsBind(read)' <=> ApprovalsBind(read')
         /\ SidecarsBind(read)' <=> SidecarsBind(read')
         /\ MayPublish(Read("gate1", read).environment)'
              <=> MayPublish(Read("gate1", read').environment)
  BY DEF ManifestBinds, CommitBinds, BundleBinds, ConfiguredFor, FilesBind, EvidenceBinds,
         JournalBinds, ApprovalsBind, SidecarsBind, MayPublish, Read

\* The labels past each check, spelled out.
LEMMA Passed ==
  /\ PastCommit = {"bundle", "files", "evidence", "journal", "gates", "sidecars",
                    "recommit", "rebundle", "dossier", "durable", "accepted"}
  /\ PastBundle = {"files", "evidence", "journal", "gates", "sidecars", "recommit",
                    "rebundle", "dossier", "durable", "accepted"}
  /\ PastFiles = {"evidence", "journal", "gates", "sidecars", "recommit", "rebundle",
                   "dossier", "durable", "accepted"}
  /\ PastEvidence = {"journal", "gates", "sidecars", "recommit", "rebundle", "dossier",
                      "durable", "accepted"}
  /\ PastJournal = {"gates", "sidecars", "recommit", "rebundle", "dossier", "durable",
                     "accepted"}
  /\ PastGates = {"sidecars", "recommit", "rebundle", "dossier", "durable", "accepted"}
  /\ PastSidecars = {"recommit", "rebundle", "dossier", "durable", "accepted"}
  BY DEF PastManifest, PastCommit, PastBundle, PastFiles, PastEvidence, PastJournal,
         PastGates, PastSidecars

\* A step that goes on has found manifest, commit and bundle to be one, or leaves
\* them alone.
LEMMA LoadingStep ==
  ASSUME IInv, Step
  PROVE  Loaded'
<1> USE Passed DEF PastManifest
<1>1. CASE ReadRecord
  BY <1>1 DEF ReadRecord, Reads, At, Loaded
<1>2. CASE LoadManifest
  BY <1>2, ChecksOfNext DEF LoadManifest, Reads, At, Loaded
<1>3. CASE LoadCommit \/ RecheckCommit
  <2>1. /\ pc' \in {"bundle", "rebundle", "refused"} /\ UNCHANGED <<origin, op>>
        /\ pc' # "refused" => CommitBinds(read')
        /\ pc' = "rebundle" => pc = "recommit"
        /\ read'["manifest"] = read["manifest"] /\ read'["provenance"] = read["provenance"]
        /\ read'["bundle"] = read["bundle"]
    BY <1>3 DEF LoadCommit, RecheckCommit, At, Reads, Files, State, Candidate
  <2>2. /\ ManifestBinds(read')
        /\ pc' = "rebundle" => BundleBinds(read')
    BY <1>3, <2>1, ChecksAreLocal DEF LoadCommit, RecheckCommit, At, IInv, Loaded
  <2>3. QED
    BY <2>1, <2>2, ChecksOfNext DEF Loaded
<1>4. CASE LoadBundle \/ RecheckBundle
  <2>1. /\ pc' \in {"recommit", "files", "evidence", "accepted", "refused"}
        /\ UNCHANGED <<origin, op>>
        /\ pc' # "refused" => BundleBinds(read')
        /\ read'["manifest"] = read["manifest"] /\ read'["provenance"] = read["provenance"]
        /\ read'["reference"] = read["reference"]
    BY <1>4 DEF LoadBundle, RecheckBundle, At, Reads, Files, State, Candidate
  <2>2. ManifestBinds(read') /\ CommitBinds(read')
    BY <1>4, <2>1, ChecksAreLocal DEF LoadBundle, RecheckBundle, At, IInv, Loaded
  <2>3. QED
    BY <2>1, <2>2, ChecksOfNext DEF Loaded
<1>5. CASE ReadFiles \/ ReadEvidence \/ ReadJournal \/ CheckGates \/ ReadSidecars
           \/ CompareDossier \/ CheckDossier
  <2>1. /\ pc \in PastBundle /\ UNCHANGED <<origin, op>>
        /\ read'["manifest"] = read["manifest"] /\ read'["provenance"] = read["provenance"]
        /\ read'["reference"] = read["reference"] /\ read'["bundle"] = read["bundle"]
    BY <1>5 DEF ReadFiles, ReadEvidence, ReadJournal, CheckGates, ReadSidecars,
                CompareDossier, CheckDossier, At, Reads, Files, State, Candidate, Dossier
  <2>2. ManifestBinds(read') /\ CommitBinds(read') /\ BundleBinds(read')
    BY <2>1, ChecksAreLocal DEF IInv, Loaded
  <2>3. QED
    BY <2>1, <2>2, ChecksOfNext DEF Loaded
<1>6. QED
  BY <1>1, <1>2, <1>3, <1>4, <1>5 DEF Step

\* A step of a publication that goes on has checked what it read, and what it has
\* checked before is what it was.
LEMMA PublishingStep ==
  ASSUME IInv, op \in Publications, Step
  PROVE  Checked'
<1> USE Passed DEF PastManifest
<1>1. CASE \/ ReadRecord \/ LoadManifest \/ LoadCommit \/ LoadBundle
           \/ CompareDossier \/ CheckDossier
  BY <1>1 DEF ReadRecord, LoadManifest, LoadCommit, LoadBundle, CompareDossier, CheckDossier,
              Reads, At, IInv, Checked, Publications
<1>2. CASE ReadFiles
  <2>1. /\ pc' \in {"evidence", "refused"} /\ UNCHANGED <<origin, op>>
        /\ pc' = "evidence" => FilesBind(read') /\ read'["gate2"] # None
    BY <1>2 DEF ReadFiles, Reads, Files, State, Candidate, Publications
  <2>2. QED
    BY <2>1, ChecksOfNext DEF Checked
<1>3. CASE ReadEvidence
  <2>1. /\ pc' \in {"journal", "refused"} /\ UNCHANGED <<origin, op>>
        /\ pc' = "journal" => EvidenceBinds(read')
        /\ read'["manifest"] = read["manifest"] /\ read'["request"] = read["request"]
        /\ read'["plan"] = read["plan"] /\ read'["candidate"] = read["candidate"]
        /\ read'["attempt"] = read["attempt"] /\ read'["gate2"] = read["gate2"]
    BY <1>3 DEF ReadEvidence, Reads, Files, State, Candidate, Publications
  <2>2. /\ FilesBind(read') /\ read'["gate2"] # None
    BY <1>3, <2>1, ChecksAreLocal DEF ReadEvidence, At, IInv, Checked
  <2>3. QED
    BY <2>1, <2>2, ChecksOfNext DEF Checked
<1>4. CASE ReadJournal
  <2>1. /\ pc' \in {"gates", "refused"} /\ UNCHANGED <<origin, op>>
        /\ pc' = "gates" => JournalBinds(read')
        /\ read'["manifest"] = read["manifest"] /\ read'["request"] = read["request"]
        /\ read'["plan"] = read["plan"] /\ read'["candidate"] = read["candidate"]
        /\ read'["attempt"] = read["attempt"] /\ read'["gate2"] = read["gate2"]
        /\ read'["provenance"] = read["provenance"] /\ read'["preliminary"] = read["preliminary"]
        /\ read'["build"] = read["build"]
    BY <1>4 DEF ReadJournal, Reads, Files, State, Candidate, Publications
  <2>2. /\ FilesBind(read') /\ read'["gate2"] # None /\ EvidenceBinds(read')
    BY <1>4, <2>1, ChecksAreLocal DEF ReadJournal, At, IInv, Checked
  <2>3. QED
    BY <2>1, <2>2, ChecksOfNext DEF Checked
<1>5. CASE CheckGates
  <2>1. /\ pc' \in {"sidecars", "refused"} /\ UNCHANGED <<origin, op>>
        /\ pc' = "sidecars" => ApprovalsBind(read')
        /\ read'["manifest"] = read["manifest"] /\ read'["request"] = read["request"]
        /\ read'["plan"] = read["plan"] /\ read'["candidate"] = read["candidate"]
        /\ read'["attempt"] = read["attempt"] /\ read'["gate2"] = read["gate2"]
        /\ read'["provenance"] = read["provenance"] /\ read'["preliminary"] = read["preliminary"]
        /\ read'["build"] = read["build"] /\ read'["state"] = read["state"]
    BY <1>5 DEF CheckGates, Reads, Files, State, Candidate, Publications
  <2>2. /\ FilesBind(read') /\ read'["gate2"] # None /\ EvidenceBinds(read')
        /\ JournalBinds(read')
    BY <1>5, <2>1, ChecksAreLocal DEF CheckGates, At, IInv, Checked
  <2>3. QED
    BY <2>1, <2>2, ChecksOfNext DEF Checked
<1>6. CASE ReadSidecars
  <2>1. /\ pc' \in {"recommit", "refused"} /\ UNCHANGED <<origin, op>>
        /\ pc' = "recommit" => SidecarsBind(read') /\ MayPublish(Read("gate1", read').environment)
        /\ read'["manifest"] = read["manifest"] /\ read'["request"] = read["request"]
        /\ read'["plan"] = read["plan"] /\ read'["candidate"] = read["candidate"]
        /\ read'["attempt"] = read["attempt"] /\ read'["gate2"] = read["gate2"]
        /\ read'["provenance"] = read["provenance"] /\ read'["preliminary"] = read["preliminary"]
        /\ read'["build"] = read["build"] /\ read'["state"] = read["state"]
        /\ read'["gate1"] = read["gate1"]
    BY <1>6 DEF ReadSidecars, Reads, Files, State, Candidate, Publications
  <2>2. /\ FilesBind(read') /\ read'["gate2"] # None /\ EvidenceBinds(read')
        /\ JournalBinds(read') /\ ApprovalsBind(read')
    BY <1>6, <2>1, ChecksAreLocal DEF ReadSidecars, At, IInv, Checked
  <2>3. QED
    BY <2>1, <2>2, ChecksOfNext DEF Checked
<1>7. CASE RecheckCommit
  <2>1. /\ pc' \in {"rebundle", "refused"} /\ UNCHANGED <<origin, op>>
        /\ read'["manifest"] = read["manifest"] /\ read'["request"] = read["request"]
        /\ read'["plan"] = read["plan"] /\ read'["candidate"] = read["candidate"]
        /\ read'["attempt"] = read["attempt"] /\ read'["gate2"] = read["gate2"]
        /\ read'["provenance"] = read["provenance"] /\ read'["preliminary"] = read["preliminary"]
        /\ read'["build"] = read["build"] /\ read'["state"] = read["state"]
        /\ read'["gate1"] = read["gate1"] /\ read'["sidecar1"] = read["sidecar1"]
        /\ read'["sidecar2"] = read["sidecar2"]
    BY <1>7 DEF RecheckCommit, Reads, Files, State, Candidate, Publications
  <2>2. /\ FilesBind(read') /\ read'["gate2"] # None /\ EvidenceBinds(read')
        /\ JournalBinds(read') /\ ApprovalsBind(read') /\ SidecarsBind(read')
        /\ MayPublish(Read("gate1", read').environment)
    BY <1>7, <2>1, ChecksAreLocal DEF RecheckCommit, At, IInv, Checked, Read
  <2>3. QED
    BY <2>1, <2>2, ChecksOfNext DEF Checked
<1>8. CASE RecheckBundle
  <2>1. /\ pc' \in {"accepted", "refused"} /\ UNCHANGED <<origin, op>>
        /\ read'["manifest"] = read["manifest"] /\ read'["request"] = read["request"]
        /\ read'["plan"] = read["plan"] /\ read'["candidate"] = read["candidate"]
        /\ read'["attempt"] = read["attempt"] /\ read'["gate2"] = read["gate2"]
        /\ read'["provenance"] = read["provenance"] /\ read'["preliminary"] = read["preliminary"]
        /\ read'["build"] = read["build"] /\ read'["state"] = read["state"]
        /\ read'["gate1"] = read["gate1"] /\ read'["sidecar1"] = read["sidecar1"]
        /\ read'["sidecar2"] = read["sidecar2"]
    BY <1>8 DEF RecheckBundle, Reads, Files, State, Candidate, Publications
  <2>2. /\ FilesBind(read') /\ read'["gate2"] # None /\ EvidenceBinds(read')
        /\ JournalBinds(read') /\ ApprovalsBind(read') /\ SidecarsBind(read')
        /\ MayPublish(Read("gate1", read').environment)
    BY <1>8, <2>1, ChecksAreLocal DEF RecheckBundle, At, IInv, Checked, Read
  <2>3. QED
    BY <2>1, <2>2, ChecksOfNext DEF Checked
<1>9. QED
  BY <1>1, <1>2, <1>3, <1>4, <1>5, <1>6, <1>7, <1>8 DEF Step

\* Every step keeps all of it.
LEMMA NextInv == IInv /\ [Next]_vars => IInv'
<1> SUFFICES ASSUME IInv, [Next]_vars PROVE IInv'
  OBVIOUS
<1>1. CASE Step
  <2>1. /\ pc' \in Labels /\ UNCHANGED <<disk, op>>
        /\ read' \in [Files -> Lineages \cup {None}]
        /\ op \in Publications => pc' \notin {"dossier", "durable"}
    BY <1>1 DEF Step, ReadRecord, LoadManifest, LoadCommit, LoadBundle, ReadFiles,
                ReadEvidence, ReadJournal, CheckGates, ReadSidecars, RecheckCommit,
                RecheckBundle, CompareDossier, CheckDossier, Reads, At, IInv, Labels,
                PastManifest, Publications
  <2>2. op \in Publications => NoDossier'
    <3> SUFFICES ASSUME op \in Publications, NEW f \in Dossier \cup {"tag"}
                 PROVE  read'[f] = None
      BY DEF NoDossier
    <3>1. read[f] = None /\ f \in Files /\ pc \notin {"dossier", "durable"}
      BY DEF IInv, NoDossier, Files
    <3>2. f \notin State \cup Candidate
      BY DEF Dossier, State, Candidate
    <3>3. QED
      BY <1>1, <3>1, <3>2
         DEF Step, ReadRecord, LoadManifest, LoadCommit, LoadBundle, ReadFiles,
             ReadEvidence, ReadJournal, CheckGates, ReadSidecars, RecheckCommit,
             RecheckBundle, CompareDossier, CheckDossier, Reads, At, State, Candidate
  <2>3. QED
    BY <1>1, <2>1, <2>2, LoadingStep, PublishingStep DEF IInv
<1>2. CASE \E f \in Files : Disturb(f)
  <2>1. /\ UNCHANGED <<origin, op, pc, read>>
        /\ disk' \in [Files -> Lineages \cup {None}]
    BY <1>2 DEF Disturb, IInv
  <2>2. QED
    BY <2>1, ChecksOfNext DEF IInv, Loaded, Checked, NoDossier
<1>3. CASE UNCHANGED vars
  <2>1. UNCHANGED <<disk, origin, op, pc, read>>
    BY <1>3 DEF vars
  <2>2. QED
    BY <2>1, ChecksOfNext DEF IInv, Loaded, Checked, NoDossier
<1>4. QED
  BY <1>1, <1>2, <1>3 DEF Next

-----------------------------------------------------------------------------
(***************************************************************************)
(* What the checks come to.                                                *)
(***************************************************************************)
\* What each file holds.
LEMMA Contents ==
  ASSUME NEW l
  PROVE  /\ Content("state", l) = Identity(l) /\ Content("request", l) = Request(l)
         /\ Content("plan", l) = Plan(l) /\ Content("attempt", l) = Attempt(l)
         /\ Content("candidate", l) = Manifest(l) /\ Content("manifest", l) = Manifest(l)
         /\ Content("gate1", l) = Gate1(l) /\ Content("gate2", l) = Gate2(l)
         /\ Content("sidecar1", l) = Sidecar(l, Gate1(l))
         /\ Content("sidecar2", l) = Sidecar(l, Gate2(l))
         /\ Content("provenance", l) = Provenance(l) /\ Content("reference", l) = Commit(l)
         /\ Content("bundle", l) = Bundle(l)
         /\ Content("preliminary", l) = Preliminary(l) /\ Content("build", l) = Build(l)
  BY DEF Content

\* What has been loaded is the candidate of its manifest.
LEMMA LoadedAgree ==
  ASSUME NEW r, NEW f \in {"provenance", "reference", "bundle"},
         ManifestBinds(r), CommitBinds(r), BundleBinds(r)
  PROVE  Read(f, r) = Content(f, r["manifest"])
<1> DEFINE l == r["manifest"]
           m == Manifest(l)
<1>1. Read("manifest", r) = m
  BY Contents DEF Read
<1>2. /\ m.facts.change = l.change /\ m.facts.attempt = l.attempt
      /\ m.commit = Commit(l) /\ m.artifact = Bundle(l) /\ Commit(l).tree = Tree(l)
  BY DEF Manifest, Facts, Commit
<1> HIDE DEF l, m
<1>3. Read("reference", r) = Content("reference", l) /\ Read("bundle", r) = Content("bundle", l)
  BY <1>1, <1>2, Contents DEF CommitBinds, BundleBinds
<1>4. Read("provenance", r) = Provenance(l)
  <2> DEFINE q == r["provenance"]
  <2>1. Read("provenance", r) = Provenance(q)
    BY Contents DEF Read
  <2>2. /\ Provenance(q).of = Identity(origin) /\ Provenance(q).commit = Commit(l)
        /\ Provenance(q).artifact = Bundle(l) /\ Provenance(q).tree = Tree(l)
        /\ origin.change = l.change /\ origin.attempt = l.attempt
    BY <1>1, <1>2, <2>1 DEF ManifestBinds, CommitBinds
  <2>3. /\ Identity(q) = Identity(origin) /\ Commit(q) = Commit(l) /\ Bundle(q) = Bundle(l)
        /\ Tree(q) = Tree(l)
    BY <2>2 DEF Provenance
  <2>4. Identity(origin) = Identity(l)
    BY <2>2 DEF Identity
  <2>5. QED
    BY <2>1, <2>3, <2>4 DEF Provenance
<1>5. QED
  BY <1>3, <1>4, Contents DEF l

\* A person who confirms a sealed candidate confirms all of it.
LEMMA SubjectBinds ==
  ASSUME NEW l, NEW g, Recordable(Manifest(l)),
         Subject(Manifest(l)) = Subject(Manifest(g))
  PROVE  Manifest(l) = Manifest(g)
<1>1. Subject(Manifest(l)).candidate = Preimage(Manifest(l))
  BY DEF Subject, Commitment
<1>2. Subject(Manifest(g)).candidate = Preimage(Manifest(l))
  BY <1>1
<1>3. CASE Recordable(Manifest(g))
  <2>1. Subject(Manifest(g)).candidate = Preimage(Manifest(g))
    BY <1>3 DEF Subject, Commitment
  <2>2. QED
    BY <1>2, <2>1 DEF Preimage
<1>4. CASE ~Recordable(Manifest(g))
  <2>1. Subject(Manifest(g)).candidate = Manifest(g)
    BY <1>4 DEF Subject, Commitment
  <2>2. Preimage(Manifest(l)) = Manifest(g)
    BY <1>2, <2>1
  <2>3. "kind" \in DOMAIN Preimage(Manifest(l)) /\ "kind" \notin DOMAIN Manifest(g)
    BY DEF Preimage, Manifest
  <2>4. QED
    BY <2>2, <2>3
<1>5. QED
  BY <1>3, <1>4

\* A sealed manifest fixes all that the other files repeat.
LEMMA ManifestFixes ==
  ASSUME NEW l, NEW g, Recordable(Manifest(l)), Manifest(l) = Manifest(g)
  PROVE  /\ Facts(l) = Facts(g) /\ Commit(l) = Commit(g) /\ Bundle(l) = Bundle(g)
         /\ l.profile = g.profile
         /\ StagedValidation(l) = StagedValidation(g)
         /\ BuildValidation(l) = BuildValidation(g)
         /\ StagedValidation(g).digest = Preliminary(g) /\ BuildValidation(g).digest = Build(g)
<1>1. /\ Manifest(l).facts = Facts(l) /\ Manifest(l).commit = Commit(l)
      /\ Manifest(l).artifact = Bundle(l) /\ Manifest(l).profile = l.profile
      /\ Manifest(l).validations = <<StagedValidation(l), BuildValidation(l)>>
  BY DEF Manifest
<1>2. /\ Manifest(g).facts = Facts(g) /\ Manifest(g).commit = Commit(g)
      /\ Manifest(g).artifact = Bundle(g) /\ Manifest(g).profile = g.profile
      /\ Manifest(g).validations = <<StagedValidation(g), BuildValidation(g)>>
  BY DEF Manifest
<1>3. /\ Facts(l) = Facts(g) /\ Commit(l) = Commit(g) /\ Bundle(l) = Bundle(g)
      /\ l.profile = g.profile
      /\ <<StagedValidation(l), BuildValidation(l)>>
           = <<StagedValidation(g), BuildValidation(g)>>
  BY <1>1, <1>2
<1>4. StagedValidation(l) = StagedValidation(g) /\ BuildValidation(l) = BuildValidation(g)
  BY <1>3
<1>5. \A i \in {1, 2} : Manifest(g).validations[i].digest # None
  <2>1. Recordable(Manifest(g))
    OBVIOUS
  <2>2. DOMAIN Manifest(g).validations = {1, 2}
    BY <1>2
  <2>3. QED
    BY <2>1, <2>2 DEF Recordable
<1>6. StagedValidation(g).digest # None /\ BuildValidation(g).digest # None
  BY <1>2, <1>5
<1>7. /\ StagedValidation(g).digest = Digest(g, Preliminary(g))
      /\ BuildValidation(g).digest = Digest(g, Build(g))
  BY DEF StagedValidation, BuildValidation, Validation
<1>8. StagedValidation(g).digest = Preliminary(g) /\ BuildValidation(g).digest = Build(g)
  BY <1>6, <1>7 DEF Digest
<1>9. QED
  BY <1>3, <1>4, <1>8

\* Nothing but a provenance depends on who signs.
LEMMA KeyIsApart ==
  ASSUME NEW g \in Lineages, NEW a, a = [g EXCEPT !.key = OwnKey]
  PROVE  /\ a.environment = g.environment /\ a.key = OwnKey
         /\ Identity(a) = Identity(g) /\ Request(a) = Request(g) /\ Plan(a) = Plan(g)
         /\ Attempt(a) = Attempt(g) /\ Manifest(a) = Manifest(g)
         /\ Gate1(a) = Gate1(g) /\ Gate2(a) = Gate2(g)
         /\ Provenance(a) = Provenance(g) /\ Commit(a) = Commit(g) /\ Bundle(a) = Bundle(g)
         /\ Preliminary(a) = Preliminary(g) /\ Build(a) = Build(g)
         /\ Issuer(a) = Issuer(g)
<1>1. /\ a.change = g.change /\ a.attempt = g.attempt /\ a.input = g.input
      /\ a.plan = g.plan /\ a.baseline = g.baseline /\ a.profile = g.profile
      /\ a.output = g.output /\ a.moment = g.moment /\ a.environment = g.environment
      /\ a.sealed = g.sealed /\ a.key = OwnKey
  BY CandidateSealsConstants DEF Fields
<1>2. /\ Identity(a) = Identity(g) /\ Request(a) = Request(g) /\ Plan(a) = Plan(g)
      /\ Tree(a) = Tree(g) /\ Issuer(a) = Issuer(g)
  BY <1>1 DEF Identity, Request, Plan, Tree, Issuer
<1>3. Commit(a) = Commit(g) /\ Facts(a) = Facts(g) /\ Gate1(a) = Gate1(g)
  BY <1>1, <1>2 DEF Commit, Facts, Gate1
<1>4. Bundle(a) = Bundle(g)
  BY <1>1, <1>3 DEF Bundle
<1>5. Preliminary(a) = Preliminary(g) /\ Build(a) = Build(g)
  BY <1>1, <1>2, <1>3, <1>4 DEF Preliminary, Build
<1>6. StagedValidation(a) = StagedValidation(g) /\ BuildValidation(a) = BuildValidation(g)
  BY <1>1, <1>5 DEF StagedValidation, BuildValidation, Digest
<1>7. Attempt(a) = Attempt(g) /\ Manifest(a) = Manifest(g)
  BY <1>1, <1>3, <1>4, <1>6 DEF Attempt, Manifest
<1>8. Gate2(a) = Gate2(g) /\ Provenance(a) = Provenance(g)
  BY <1>1, <1>2, <1>3, <1>4, <1>7 DEF Gate2, Provenance
<1>9. QED
  BY <1>1, <1>2, <1>3, <1>4, <1>5, <1>7, <1>8

\* What has passed the checks that publications and audits share is one history, and
\* the first gate was of its plan.
LEMMA BoundAgree ==
  ASSUME NEW r, NEW a, r["gate2"] \in Lineages, a = [r["gate2"] EXCEPT !.key = OwnKey],
         ManifestBinds(r), CommitBinds(r), BundleBinds(r), FilesBind(r), EvidenceBinds(r),
         ApprovalsBind(r)
  PROVE  /\ \A f \in {"request", "plan", "attempt", "gate2"} \cup Candidate \cup {"candidate"} :
              Read(f, r) = Content(f, a)
         /\ Identity(r["manifest"]) = Identity(a)
         /\ Read("gate1", r).subject = Plan(a)
<1> DEFINE l == r["manifest"]
           g == r["gate2"]
           m == Manifest(l)
<1>1. Read("manifest", r) = m /\ Read("gate2", r) = Gate2(g)
  BY Contents DEF Read
<1>2. m = Manifest(g) /\ Recordable(m)
  <2>1. Recordable(m)
    BY <1>1 DEF EvidenceBinds
  <2>2. Gate2(g).subject = Subject(Manifest(g))
    BY DEF Gate2
  <2>3. Subject(m) = Subject(Manifest(g))
    BY <1>1, <2>2 DEF ApprovalsBind
  <2>4. QED
    BY <2>1, <2>3, SubjectBinds
<1>3. /\ Facts(l) = Facts(g) /\ Commit(l) = Commit(g) /\ Bundle(l) = Bundle(g)
      /\ StagedValidation(l) = StagedValidation(g)
      /\ StagedValidation(g).digest = Preliminary(g) /\ BuildValidation(g).digest = Build(g)
  BY <1>2, ManifestFixes
<1>4. /\ l.change = g.change /\ l.attempt = g.attempt /\ l.input = g.input
      /\ Plan(l) = Plan(g) /\ l.baseline = g.baseline /\ Tree(l) = Tree(g)
  <2>1. /\ Facts(l).change = l.change /\ Facts(g).change = g.change
        /\ Facts(l).attempt = l.attempt /\ Facts(g).attempt = g.attempt
        /\ Facts(l).input = l.input /\ Facts(g).input = g.input
        /\ Facts(l).plan = Plan(l) /\ Facts(g).plan = Plan(g)
        /\ Facts(l).baseline = l.baseline /\ Facts(g).baseline = g.baseline
        /\ Commit(l).tree = Tree(l) /\ Commit(g).tree = Tree(g)
    BY DEF Facts, Commit
  <2>2. QED
    BY <1>3, <2>1
<1>5. /\ m.facts = Facts(g) /\ m.commit = Commit(g) /\ m.artifact = Bundle(g)
      /\ m.validations = <<StagedValidation(g), BuildValidation(g)>>
  BY <1>2 DEF Manifest
<1>6. /\ Facts(g).change = g.change /\ Facts(g).input = g.input /\ Facts(g).plan = Plan(g)
  BY DEF Facts
<1> HIDE DEF l, g, m
<1>7. ASSUME NEW f \in {"manifest", "candidate", "gate2"}
      PROVE  Read(f, r) = Content(f, a)
  BY <1>1, <1>2, Contents, KeyIsApart DEF FilesBind, Read, g
<1>8. ASSUME NEW f \in {"provenance", "reference", "bundle"}
      PROVE  Read(f, r) = Content(f, a)
  <2>1. Read(f, r) = Content(f, l)
    BY LoadedAgree DEF l
  <2>2. Provenance(l) = Provenance(g)
    BY <1>3, <1>4 DEF Provenance, Identity
  <2>3. QED
    BY <1>3, <2>1, <2>2, Contents, KeyIsApart DEF g
<1>9. ASSUME NEW f \in {"preliminary", "build"}
      PROVE  Read(f, r) = Content(f, a)
  <2>1. /\ m.validations[1].digest = Preliminary(g)
        /\ m.validations[2].digest = Build(g)
    BY <1>3, <1>5
  <2>2. QED
    BY <1>1, <2>1, Contents, KeyIsApart DEF EvidenceBinds, g
<1>10. Identity(l) = Identity(a)
  BY <1>4, KeyIsApart DEF Identity, g
<1>11. Read("plan", r) = Plan(g)
  BY <1>1, <1>5, <1>6 DEF FilesBind
<1>12. Read("request", r) = Content("request", a)
  <2> DEFINE q == r["request"]
  <2>1. Read("request", r) = Request(q)
    BY Contents DEF Read
  <2>2. Request(q).change = g.change /\ Request(q).input = g.input
    BY <1>1, <1>5, <1>6, <2>1 DEF FilesBind
  <2>3. Request(q) = Request(g)
    BY <2>2 DEF Request
  <2>4. QED
    BY <2>1, <2>3, Contents, KeyIsApart DEF g
<1>13. Read("attempt", r) = Content("attempt", a)
  <2> DEFINE q == r["attempt"]
  <2>1. Read("attempt", r) = Attempt(q)
    BY Contents DEF Read
  <2>2. Attempt(q).facts = Facts(g) /\ Attempt(q).validations[1] = StagedValidation(g)
    BY <1>1, <1>5, <2>1 DEF FilesBind, EvidenceBinds
  <2>3. Facts(q) = Facts(g) /\ StagedValidation(q) = StagedValidation(g)
    BY <2>2 DEF Attempt
  <2>4. Attempt(q) = Attempt(g)
    BY <2>3 DEF Attempt
  <2>5. QED
    BY <2>1, <2>4, Contents, KeyIsApart DEF g
<1>14. Read("plan", r) = Content("plan", a) /\ Read("gate1", r).subject = Plan(a)
  BY <1>11, Contents, KeyIsApart DEF ApprovalsBind, g
<1>15. QED
  BY <1>7, <1>8, <1>9, <1>10, <1>12, <1>13, <1>14 DEF Candidate, l

\* What has passed every check of a publication is one history, its provenances too.
LEMMA AcceptedAgree ==
  ASSUME NEW r, NEW a, NEW f \in State \cup Candidate,
         r["gate2"] \in Lineages, a = [r["gate2"] EXCEPT !.key = OwnKey],
         ManifestBinds(r), CommitBinds(r), BundleBinds(r), FilesBind(r), EvidenceBinds(r),
         JournalBinds(r), ApprovalsBind(r), SidecarsBind(r)
  PROVE  Read(f, r) = Content(f, a)
<1> DEFINE g == r["gate2"]
<1>1. Read("gate2", r) = Gate2(g) /\ Read("gate2", r) = Gate2(a) /\ Read("plan", r) = Plan(g)
  <2>1. Read("gate2", r) = Gate2(g)
    BY Contents DEF Read
  <2>2. QED
    BY <2>1, BoundAgree, Contents, KeyIsApart
<1> HIDE DEF g
<1>2. /\ Read("gate1", r) = Gate1(g) /\ Read("sidecar1", r).environment = g.environment
      /\ Read("sidecar2", r).environment = g.environment
  <2> DEFINE q == r["gate1"]
  <2>1. Read("gate1", r) = Gate1(q)
    BY Contents DEF Read
  <2>2. /\ Gate1(q).change = Plan(g).change /\ Gate1(q).baseline = Plan(g).baseline
        /\ Gate1(q).subject = Plan(g)
    BY <1>1, <2>1 DEF ApprovalsBind
  <2>3. Gate1(q).environment = Gate2(g).environment
    BY <1>1, <2>1 DEF SidecarsBind
  <2>4. /\ q.change = g.change /\ q.baseline = g.baseline /\ Plan(q) = Plan(g)
        /\ q.environment = g.environment
    BY <2>2, <2>3 DEF Gate1, Gate2, Plan
  <2>5. Gate1(q) = Gate1(g)
    BY <2>4 DEF Gate1
  <2>6. QED
    BY <1>1, <2>1, <2>5 DEF SidecarsBind, Gate1, Gate2
<1>3. Read("gate1", r) = Gate1(a)
  BY <1>2, KeyIsApart DEF g
<1>4. CASE f \in {"request", "plan", "attempt", "gate2", "candidate"} \cup Candidate
  BY <1>4, BoundAgree
<1>5. CASE f = "state"
  BY <1>5, BoundAgree, Contents DEF JournalBinds
<1>6. CASE f = "gate1"
  BY <1>3, <1>6, Contents
<1>7. CASE f \in {"sidecar1", "sidecar2"}
  <2> DEFINE gate == IF f = "sidecar1" THEN "gate1" ELSE "gate2"
             q == r[f]
             x == IF f = "sidecar1" THEN Gate1(q) ELSE Gate2(q)
  <2>1. /\ Read(f, r) = Sidecar(q, x) /\ Content(f, a) = Sidecar(a, Read(gate, r))
    BY <1>1, <1>3, <1>7, Contents DEF Read
  <2>2. /\ Read(f, r).approval = Read(gate, r)
        /\ Read(f, r).key = OwnKey /\ Read(f, r).environment = g.environment
    BY <1>2, <1>7 DEF SidecarsBind
  <2> HIDE DEF gate, q, x
  <2>3. x = Read(gate, r) /\ q.key = OwnKey /\ q.environment = g.environment
    BY <2>1, <2>2 DEF Sidecar
  <2>4. Issuer(q) = Issuer(a) /\ q.key = a.key /\ q.environment = a.environment
    BY <2>3, KeyIsApart DEF Issuer, g
  <2>5. QED
    BY <2>1, <2>3, <2>4 DEF Sidecar
<1>8. QED
  BY <1>4, <1>5, <1>6, <1>7 DEF State

-----------------------------------------------------------------------------
\* IInv holds in every state.
LEMMA Invariance == Spec => []IInv
<1>1. Init => IInv
  <2> SUFFICES ASSUME Init PROVE IInv
    OBVIOUS
  <2>1. pc \in {"record", "manifest"} /\ read = [f \in Files |-> None]
    BY DEF Init
  <2>2. disk \in [Files -> Lineages \cup {None}]
    BY DEF Init
  <2>3. pc \in Labels /\ pc \notin PastManifest
    BY <2>1 DEF Labels, PastManifest
  <2>4. Loaded /\ Checked
    BY <2>3 DEF Loaded, Checked, PastManifest, PastCommit, PastBundle, PastFiles, PastEvidence,
                PastJournal, PastGates, PastSidecars
  <2>5. NoDossier
    BY <2>1 DEF NoDossier, Files
  <2>6. QED
    BY <2>1, <2>2, <2>3, <2>4, <2>5 DEF IInv
<1>2. IInv /\ [Next]_vars => IInv'
  BY NextInv
<1>3. QED
  BY <1>1, <1>2, PTL DEF Spec

\* Whatever is replaced or lost while it is read, the manifest, the provenance, the
\* commit and the bundle that loadCandidate returns belong to one candidate.
THEOREM LoadingIsWhole == Spec => []LoadedIsOne
<1>1. IInv => LoadedIsOne
  <2> SUFFICES ASSUME IInv, pc \in {"files", "rebundle"},
                      NEW f \in {"provenance", "reference", "bundle"}
               PROVE  Read(f, read) = Content(f, read["manifest"])
    BY DEF LoadedIsOne
  <2>1. ManifestBinds(read) /\ CommitBinds(read) /\ BundleBinds(read)
    BY Passed DEF IInv, Loaded, PastManifest
  <2>2. QED
    BY <2>1, LoadedAgree
<1>2. QED
  BY <1>1, Invariance, PTL

\* For every set of histories and any number of replaced or lost files, what a
\* publication accepts is what one history wrote, approved by this process.
THEOREM PublishingIsWhole == Spec => []PublishedIsOne
<1>1. IInv => PublishedIsOne
  <2> SUFFICES ASSUME IInv, pc = "accepted", op \in Publications
               PROVE  /\ \A f \in Files :
                            read[f] # None => Read(f, read) = Content(f, Approved)
                      /\ op = "local" \/ Approved.environment = "production"
    BY DEF PublishedIsOne
  <2>1. /\ ManifestBinds(read) /\ CommitBinds(read) /\ BundleBinds(read)
        /\ FilesBind(read) /\ EvidenceBinds(read) /\ JournalBinds(read)
        /\ ApprovalsBind(read) /\ SidecarsBind(read)
        /\ MayPublish(Read("gate1", read).environment) /\ read["gate2"] # None
    BY Passed DEF IInv, Loaded, Checked, PastManifest
  <2>2. read["gate2"] \in Lineages
    BY <2>1 DEF IInv, Files, State
  <2>3. ASSUME NEW f \in State \cup Candidate
        PROVE  Read(f, read) = Content(f, Approved)
    BY <2>1, <2>2, AcceptedAgree DEF Approved
  <2>4. ASSUME NEW f \in Files, read[f] # None
        PROVE  Read(f, read) = Content(f, Approved)
    <3>1. f \in State \cup Candidate
      BY <2>4 DEF IInv, NoDossier, Files
    <3>2. QED
      BY <2>3, <3>1
  <2>5. op = "local" \/ Approved.environment = "production"
    <3>1. Read("gate1", read) = Gate1(Approved)
      BY <2>3, Contents DEF State
    <3>2. QED
      BY <2>1, <3>1 DEF MayPublish, Gate1
  <2>6. QED
    BY <2>4, <2>5
<1>2. QED
  BY <1>1, Invariance, PTL

-----------------------------------------------------------------------------
(***************************************************************************)
(* The audit.  It checks in another order, reads no provenance of an       *)
(* approval, and passes no dossier: CheckDossier compares the validations  *)
(* of the attempt with those of the candidate, which are one more.         *)
(***************************************************************************)
Audited ==
  /\ pc \notin {"journal", "sidecars"}
  /\ pc \notin {"record", "refused"} => read["state"] # None /\ Read("state", read) = Identity(origin)
  /\ pc \in {"gates", "recommit", "rebundle", "evidence", "dossier", "durable", "accepted"} =>
       FilesBind(read) /\ read["gate2"] # None
  /\ pc \in {"recommit", "rebundle", "evidence", "dossier", "durable", "accepted"} =>
       ApprovalsBind(read)
  /\ pc \in {"dossier", "durable", "accepted"} => EvidenceBinds(read)
  /\ pc \notin {"durable", "refused"} => NoDossier
  /\ read["sidecar1"] = None /\ read["sidecar2"] = None

AuditInv == op = "audit" => Audited

\* No attempt has as many validations as a candidate.
LEMMA NoAttemptBinds == \A r : ~AttemptBinds(r)
<1> SUFFICES ASSUME NEW r, AttemptBinds(r) PROVE FALSE
  OBVIOUS
<1> DEFINE l == r["d.attempt"]
           m == r["d.candidate"]
<1>1. /\ Read("d.attempt", r) = Attempt(l) /\ Read("d.candidate", r) = Manifest(m)
  BY DEF Read, Content
<1>2. /\ Attempt(l).validations = <<StagedValidation(l)>>
      /\ Manifest(m).validations = <<StagedValidation(m), BuildValidation(m)>>
  BY DEF Attempt, Manifest
<1> HIDE DEF l, m
<1>3. <<StagedValidation(l)>> = <<StagedValidation(m), BuildValidation(m)>>
  BY <1>1, <1>2 DEF AttemptBinds
<1>4. QED
  BY <1>3

\* What the next state says of the files it has read.
LEMMA StateOfNext ==
  ASSUME UNCHANGED origin
  PROVE  (Read("state", read) = Identity(origin))' <=> Read("state", read') = Identity(origin)
  BY DEF Read

\* A step of an audit that goes on has checked what it read.
LEMMA AuditingStep ==
  ASSUME IInv, AuditInv, op = "audit", Step
  PROVE  Audited'
<1> USE DEF At
<1>1. Audited /\ UNCHANGED <<disk, origin, op>>
  BY DEF AuditInv, Step, ReadRecord, LoadManifest, LoadCommit, LoadBundle, ReadFiles,
         ReadEvidence, ReadJournal, CheckGates, ReadSidecars, RecheckCommit, RecheckBundle,
         CompareDossier, CheckDossier, Reads
<1>2. CASE ReadRecord
  <2>1. /\ pc' \in {"manifest", "refused"} /\ NoDossier
        /\ pc' # "refused" => read'["state"] # None /\ Read("state", read') = Identity(origin)
        /\ \A f \in Files \ {"state"} : read'[f] = read[f]
    BY <1>1, <1>2 DEF ReadRecord, Reads, Audited, Files, State
  <2>2. NoDossier' /\ read'["sidecar1"] = None /\ read'["sidecar2"] = None
    BY <1>1, <2>1 DEF NoDossier, Audited, Files, State, Dossier
  <2>3. QED
    BY <1>1, <2>1, <2>2, StateOfNext DEF Audited
<1>3. CASE LoadManifest \/ LoadCommit \/ LoadBundle
  <2>1. /\ pc' \in {"commit", "bundle", "files", "refused"} /\ NoDossier
        /\ pc \notin {"record", "refused"}
        /\ \A f \in Files \ {"manifest", "provenance", "reference", "bundle"} :
             read'[f] = read[f]
    BY <1>1, <1>3 DEF LoadManifest, LoadCommit, LoadBundle, Reads, Audited, Files
  <2>2. NoDossier' /\ read'["sidecar1"] = None /\ read'["sidecar2"] = None
    BY <1>1, <2>1 DEF NoDossier, Audited, Files, State, Dossier
  <2>3. read'["state"] = read["state"]
    BY <2>1 DEF Files, State
  <2>4. read'["state"] # None /\ Read("state", read') = Identity(origin)
    BY <1>1, <2>1, <2>3 DEF Audited, Read
  <2>5. QED
    BY <1>1, <2>1, <2>2, <2>4, StateOfNext DEF Audited
<1>4. CASE ReadFiles
  <2>1. /\ pc' \in {"gates", "refused"} /\ NoDossier /\ pc = "files"
        /\ pc' = "gates" => FilesBind(read') /\ read'["gate2"] # None
        /\ \A f \in Files \ {"request", "plan", "candidate", "attempt", "gate1", "gate2"} :
             read'[f] = read[f]
    BY <1>1, <1>4 DEF ReadFiles, Reads, Audited, Files, State
  <2>2. NoDossier' /\ read'["sidecar1"] = None /\ read'["sidecar2"] = None
    BY <1>1, <2>1 DEF NoDossier, Audited, Files, State, Dossier
  <2>3. read'["state"] = read["state"]
    BY <2>1 DEF Files, State
  <2>4. read'["state"] # None /\ Read("state", read') = Identity(origin)
    BY <1>1, <2>1, <2>3 DEF Audited, Read
  <2>5. QED
    BY <1>1, <2>1, <2>2, <2>4, StateOfNext, ChecksOfNext DEF Audited
<1>5. CASE CheckGates
  <2>1. /\ pc' \in {"recommit", "refused"} /\ NoDossier /\ pc = "gates"
        /\ pc' = "recommit" => ApprovalsBind(read')
        /\ \A f \in Files : read'[f] = read[f]
    BY <1>1, <1>5 DEF CheckGates, Reads, Audited
  <2>2. NoDossier' /\ read'["sidecar1"] = None /\ read'["sidecar2"] = None
    BY <1>1, <2>1 DEF NoDossier, Audited, Files, State, Dossier
  <2>3. /\ read'["state"] = read["state"] /\ read'["manifest"] = read["manifest"]
        /\ read'["request"] = read["request"] /\ read'["plan"] = read["plan"]
        /\ read'["candidate"] = read["candidate"] /\ read'["attempt"] = read["attempt"]
        /\ read'["gate2"] = read["gate2"]
    BY <2>1 DEF Files, State, Candidate
  <2>4. read'["state"] # None /\ Read("state", read') = Identity(origin)
    BY <1>1, <2>1, <2>3 DEF Audited, Read
  <2>5. FilesBind(read') /\ read'["gate2"] # None
    BY <1>1, <2>1, <2>3, ChecksAreLocal DEF Audited
  <2>6. QED
    BY <1>1, <2>1, <2>2, <2>4, <2>5, StateOfNext, ChecksOfNext DEF Audited
<1>6. CASE RecheckCommit \/ RecheckBundle \/ ReadEvidence
  <2>1. /\ pc' \in {"rebundle", "evidence", "dossier", "refused"} /\ NoDossier
        /\ pc \in {"recommit", "rebundle", "evidence"}
        /\ pc' = "dossier" => EvidenceBinds(read')
        /\ \A f \in Files \ {"reference", "bundle", "preliminary", "build"} :
             read'[f] = read[f]
    BY <1>1, <1>6 DEF RecheckCommit, RecheckBundle, ReadEvidence, Reads, Audited, Files,
                      Candidate
  <2>2. NoDossier' /\ read'["sidecar1"] = None /\ read'["sidecar2"] = None
    BY <1>1, <2>1 DEF NoDossier, Audited, Files, State, Dossier
  <2>3. /\ read'["state"] = read["state"] /\ read'["manifest"] = read["manifest"]
        /\ read'["request"] = read["request"] /\ read'["plan"] = read["plan"]
        /\ read'["candidate"] = read["candidate"] /\ read'["attempt"] = read["attempt"]
        /\ read'["gate1"] = read["gate1"] /\ read'["gate2"] = read["gate2"]
    BY <2>1 DEF Files, State, Candidate
  <2>4. read'["state"] # None /\ Read("state", read') = Identity(origin)
    BY <1>1, <2>1, <2>3 DEF Audited, Read
  <2>5. FilesBind(read') /\ read'["gate2"] # None /\ ApprovalsBind(read')
    BY <1>1, <2>1, <2>3, ChecksAreLocal DEF Audited
  <2>6. QED
    BY <1>1, <2>1, <2>2, <2>4, <2>5, StateOfNext, ChecksOfNext DEF Audited
<1>7. CASE CompareDossier
  <2>1. /\ pc = "dossier" /\ NoDossier
        /\ \/ pc' \in {"accepted", "refused"} /\ \A f \in Files : read'[f] = read[f]
           \/ /\ pc' \in {"durable", "refused"}
              /\ pc' = "durable" => ApprovalsBind(read') /\ read'["gate2"] # None
              /\ \A f \in Files \ (Dossier \cup {"gate1", "gate2"}) : read'[f] = read[f]
    <3>1. CASE Reads({}, disk["tag"] = None, "accepted")
      BY <1>1, <1>7, <3>1 DEF CompareDossier, Reads, Audited
    <3>2. CASE Reads(Dossier \cup {"gate1", "gate2"},
                     ApprovalsBind(read') /\ Repeats(read'), "durable")
      BY <1>1, <1>7, <3>2 DEF CompareDossier, Reads, Audited, Files, State
    <3>3. QED
      BY <1>7, <3>1, <3>2 DEF CompareDossier
  <2>2. pc' \in {"accepted", "refused", "durable"}
    BY <2>1
  <2>3. /\ read'["state"] = read["state"] /\ read'["manifest"] = read["manifest"]
        /\ read'["request"] = read["request"] /\ read'["plan"] = read["plan"]
        /\ read'["candidate"] = read["candidate"] /\ read'["attempt"] = read["attempt"]
        /\ read'["provenance"] = read["provenance"] /\ read'["build"] = read["build"]
        /\ read'["preliminary"] = read["preliminary"]
        /\ read'["sidecar1"] = None /\ read'["sidecar2"] = None
    BY <1>1, <2>1 DEF Files, State, Candidate, Dossier, Audited
  <2>4. read'["state"] # None /\ Read("state", read') = Identity(origin)
    BY <1>1, <2>1, <2>3 DEF Audited, Read
  <2>5. FilesBind(read') /\ EvidenceBinds(read')
    BY <1>1, <2>1, <2>3, ChecksAreLocal DEF Audited
  <2>6. pc' = "accepted" => NoDossier'
    BY <2>1 DEF NoDossier, Files
  <2>7. pc' # "refused" => ApprovalsBind(read') /\ read'["gate2"] # None
    <3>1. CASE pc' = "accepted"
      <4>1. read'["gate1"] = read["gate1"] /\ read'["gate2"] = read["gate2"]
        BY <2>1, <3>1 DEF Files, State
      <4>2. QED
        BY <1>1, <2>1, <2>3, <4>1, ChecksAreLocal DEF Audited
    <3>2. CASE pc' = "durable"
      BY <2>1, <3>2
    <3>3. QED
      BY <2>2, <3>1, <3>2
  <2>8. QED
    BY <1>1, <2>2, <2>3, <2>4, <2>5, <2>6, <2>7, StateOfNext, ChecksOfNext DEF Audited
<1>8. CASE CheckDossier
  <2>1. ~DossierBinds(read')
    BY NoAttemptBinds DEF DossierBinds
  <2>2. /\ pc' = "refused"
        /\ \A f \in Files \ (Dossier \cup {"tag"}) : read'[f] = read[f]
    BY <1>8, <2>1 DEF CheckDossier, Reads
  <2>3. read'["sidecar1"] = None /\ read'["sidecar2"] = None
    BY <1>1, <2>2 DEF Files, State, Dossier, Audited
  <2>4. QED
    BY <2>2, <2>3 DEF Audited
<1>9. CASE ReadJournal \/ ReadSidecars
  BY <1>1, <1>9 DEF ReadJournal, ReadSidecars, Audited
<1>10. QED
  BY <1>2, <1>3, <1>4, <1>5, <1>6, <1>7, <1>8, <1>9 DEF Step

LEMMA AuditInvariance == Spec => []AuditInv
<1>1. Init => AuditInv
  BY DEF Init, AuditInv, Audited, NoDossier, Files, State
<1>2. IInv /\ AuditInv /\ [Next]_vars => AuditInv'
  <2> SUFFICES ASSUME IInv, AuditInv, [Next]_vars, op' = "audit" PROVE Audited'
    BY DEF AuditInv
  <2>1. CASE Step
    <3>1. op = "audit"
      BY <2>1 DEF Step, ReadRecord, LoadManifest, LoadCommit, LoadBundle, ReadFiles,
                  ReadEvidence, ReadJournal, CheckGates, ReadSidecars, RecheckCommit,
                  RecheckBundle, CompareDossier, CheckDossier, Reads
    <3>2. QED
      BY <2>1, <3>1, AuditingStep
  <2>2. CASE UNCHANGED <<origin, op, pc, read>>
    BY <2>2, StateOfNext, ChecksOfNext DEF AuditInv, Audited, NoDossier
  <2>3. QED
    BY <2>1, <2>2 DEF Next, Disturb, vars
<1>3. QED
  BY <1>1, <1>2, Invariance, PTL DEF Spec

\* For every set of histories and any number of replaced or lost files, what an audit
\* accepts is what one history wrote, and the first gate is that of its plan.  That this
\* needs no bound on what is replaced rests on no dossier being accepted: between the two
\* times that verifyFixtureDossier reads it, it might be replaced as a whole.
THEOREM AuditingIsWhole == Spec => []AuditedIsOne
<1>1. IInv /\ AuditInv => AuditedIsOne
  <2> SUFFICES ASSUME IInv, AuditInv, pc = "accepted", op = "audit"
               PROVE  /\ \A f \in Files \ {"gate1"} :
                            read[f] # None => Read(f, read) = Content(f, Approved)
                      /\ Read("gate1", read).subject = Plan(Approved)
    BY DEF AuditedIsOne
  <2>1. /\ ManifestBinds(read) /\ CommitBinds(read) /\ BundleBinds(read)
        /\ FilesBind(read) /\ EvidenceBinds(read) /\ ApprovalsBind(read)
        /\ read["gate2"] # None /\ Read("state", read) = Identity(origin) /\ NoDossier
        /\ read["sidecar1"] = None /\ read["sidecar2"] = None
    BY Passed DEF IInv, Loaded, PastManifest, AuditInv, Audited
  <2>2. read["gate2"] \in Lineages
    BY <2>1 DEF IInv, Files, State
  <2>3. /\ \A f \in {"request", "plan", "attempt", "gate2"} \cup Candidate \cup {"candidate"} :
             Read(f, read) = Content(f, Approved)
        /\ Identity(read["manifest"]) = Identity(Approved)
        /\ Read("gate1", read).subject = Plan(Approved)
    BY <2>1, <2>2, BoundAgree DEF Approved
  <2>4. Read("state", read) = Content("state", Approved)
    <3> DEFINE l == read["manifest"]
    <3>1. Manifest(l).facts.change = l.change /\ Manifest(l).facts.attempt = l.attempt
      BY DEF Manifest, Facts
    <3>2. l.change = origin.change /\ l.attempt = origin.attempt
      BY <2>1, <3>1, Contents DEF ManifestBinds, Read
    <3>3. Identity(l) = Identity(origin)
      BY <3>2 DEF Identity
    <3>4. QED
      BY <2>1, <2>3, <3>3, Contents
  <2>5. ASSUME NEW f \in Files \ {"gate1"}, read[f] # None
        PROVE  Read(f, read) = Content(f, Approved)
    <3>1. f \in {"state", "request", "plan", "attempt", "gate2"} \cup Candidate \cup {"candidate"}
      BY <2>1, <2>5 DEF NoDossier, Files, State
    <3>2. QED
      BY <2>3, <2>4, <3>1
  <2>6. QED
    BY <2>3, <2>5
<1>2. QED
  BY <1>1, Invariance, AuditInvariance, PTL

-----------------------------------------------------------------------------
(***************************************************************************)
(* Nobody is refused for nothing: what one lineage wrote passes every      *)
(* check, whatever that lineage is.                                        *)
(***************************************************************************)
\* The checks, of files that one history wrote.
LEMMA OneHistoryPasses ==
  ASSUME NEW r, NEW l \in Lineages, l = origin
  PROVE  /\ r["state"] = l => Read("state", r) = Identity(origin)
         /\ r["manifest"] = l =>
              /\ r["provenance"] = l => ManifestBinds(r)
              /\ r["provenance"] = l /\ r["reference"] = l => CommitBinds(r)
              /\ r["bundle"] = l => BundleBinds(r)
              /\ r["state"] = l => JournalBinds(r)
              /\ r["plan"] = l /\ r["request"] = l /\ r["candidate"] = l /\ r["attempt"] = l
                   => FilesBind(r)
              /\ r["plan"] = l /\ r["gate1"] = l /\ r["gate2"] = l => ApprovalsBind(r)
              /\ l.sealed /\ r["attempt"] = l /\ r["preliminary"] = l /\ r["build"] = l
                 /\ r["provenance"] = l => EvidenceBinds(r)
         /\ l.key = OwnKey /\ r["gate1"] = l /\ r["gate2"] = l /\ r["sidecar1"] = l
            /\ r["sidecar2"] = l => SidecarsBind(r)
         /\ r["gate1"] = l => Read("gate1", r).environment = l.environment
<1>1. /\ Manifest(l).facts = Facts(l) /\ Manifest(l).commit = Commit(l)
      /\ Manifest(l).artifact = Bundle(l) /\ Manifest(l).profile = l.profile
      /\ Manifest(l).validations = <<StagedValidation(l), BuildValidation(l)>>
  BY DEF Manifest
<1>2. /\ Facts(l).change = l.change /\ Facts(l).attempt = l.attempt
      /\ Facts(l).input = l.input /\ Facts(l).plan = Plan(l) /\ Facts(l).baseline = l.baseline
  BY DEF Facts
<1>3. /\ Commit(l).parent = l.baseline /\ Commit(l).tree = Tree(l)
      /\ Bundle(l).profile = l.profile
      /\ Provenance(l).of = Identity(l) /\ Provenance(l).commit = Commit(l)
      /\ Provenance(l).artifact = Bundle(l) /\ Provenance(l).tree = Tree(l)
  BY DEF Commit, Bundle, Provenance
<1>4. r["state"] = l => Read("state", r) = Identity(l)
  BY Contents DEF Read
<1>5. ASSUME r["manifest"] = l
      PROVE  /\ r["provenance"] = l => ManifestBinds(r)
             /\ r["provenance"] = l /\ r["reference"] = l => CommitBinds(r)
             /\ r["bundle"] = l => BundleBinds(r)
             /\ r["state"] = l => JournalBinds(r)
             /\ r["plan"] = l /\ r["request"] = l /\ r["candidate"] = l /\ r["attempt"] = l
                  => FilesBind(r)
             /\ r["plan"] = l /\ r["gate1"] = l /\ r["gate2"] = l => ApprovalsBind(r)
             /\ l.sealed /\ r["attempt"] = l /\ r["preliminary"] = l /\ r["build"] = l
                /\ r["provenance"] = l => EvidenceBinds(r)
  <2>1. Read("manifest", r) = Manifest(l)
    BY <1>5, Contents DEF Read
  <2>2. r["provenance"] = l => ManifestBinds(r)
    BY <1>1, <1>2, <1>3, <2>1, Contents DEF ManifestBinds, Read
  <2>3. r["provenance"] = l /\ r["reference"] = l => CommitBinds(r)
    BY <1>1, <1>2, <1>3, <2>1, Contents DEF CommitBinds, Read
  <2>4. r["bundle"] = l => BundleBinds(r)
    BY <1>1, <1>3, <2>1, Contents DEF BundleBinds, ConfiguredFor, Read
  <2>5. r["state"] = l => JournalBinds(r)
    BY <1>4, <1>5 DEF JournalBinds
  <2>6. r["plan"] = l /\ r["request"] = l /\ r["candidate"] = l /\ r["attempt"] = l
          => FilesBind(r)
    <3> SUFFICES ASSUME r["plan"] = l, r["request"] = l, r["candidate"] = l, r["attempt"] = l
                 PROVE  FilesBind(r)
      OBVIOUS
    <3>1. /\ Read("plan", r) = Plan(l) /\ Read("request", r) = Request(l)
          /\ Read("candidate", r) = Manifest(l) /\ Read("attempt", r) = Attempt(l)
      BY Contents DEF Read
    <3>2. /\ Plan(l).change = l.change /\ Plan(l).input = l.input
          /\ Plan(l).baseline = l.baseline /\ Plan(l).profile = l.profile
          /\ Request(l).change = l.change /\ Request(l).input = l.input
          /\ Attempt(l).facts = Facts(l)
      BY DEF Plan, Request, Attempt
    <3>3. QED
      BY <1>1, <1>2, <2>1, <3>1, <3>2 DEF FilesBind
  <2>7. r["plan"] = l /\ r["gate1"] = l /\ r["gate2"] = l => ApprovalsBind(r)
    <3> SUFFICES ASSUME r["plan"] = l, r["gate1"] = l, r["gate2"] = l
                 PROVE  ApprovalsBind(r)
      OBVIOUS
    <3>1. /\ Read("plan", r) = Plan(l) /\ Read("gate1", r) = Gate1(l)
          /\ Read("gate2", r) = Gate2(l)
      BY Contents DEF Read
    <3>2. /\ Plan(l).change = l.change /\ Plan(l).baseline = l.baseline
          /\ Gate1(l).change = l.change /\ Gate1(l).baseline = l.baseline
          /\ Gate1(l).subject = Plan(l)
          /\ Gate2(l).change = l.change /\ Gate2(l).baseline = l.baseline
          /\ Gate2(l).subject = Subject(Manifest(l))
          /\ Gate2(l).commit = Commit(l) /\ Gate2(l).artifact = Bundle(l)
      BY DEF Plan, Gate1, Gate2
    <3>3. QED
      BY <1>1, <1>2, <2>1, <3>1, <3>2 DEF ApprovalsBind
  <2>8. l.sealed /\ r["attempt"] = l /\ r["preliminary"] = l /\ r["build"] = l
        /\ r["provenance"] = l => EvidenceBinds(r)
    <3> SUFFICES ASSUME l.sealed, r["attempt"] = l, r["preliminary"] = l, r["build"] = l,
                        r["provenance"] = l
                 PROVE  EvidenceBinds(r)
      OBVIOUS
    <3>1. /\ Read("attempt", r) = Attempt(l) /\ Read("preliminary", r) = Preliminary(l)
          /\ Read("build", r) = Build(l) /\ Read("provenance", r) = Provenance(l)
      BY Contents DEF Read
    <3>2. /\ StagedValidation(l).digest = Preliminary(l)
          /\ BuildValidation(l).digest = Build(l)
          /\ Preliminary(l) # None /\ Build(l) # None
      BY NoneIsNoDigest DEF StagedValidation, BuildValidation, Validation, Digest
    <3>3. /\ Attempt(l).validations = <<StagedValidation(l)>>
          /\ Preliminary(l).attempt = l.attempt /\ Preliminary(l).plan = Plan(l)
          /\ Build(l).artifact = Bundle(l) /\ Build(l).attempt = l.attempt
          /\ Build(l).commit = Commit(l) /\ Build(l).tree = Tree(l) /\ Build(l).plan = Plan(l)
      BY DEF Attempt, Preliminary, Build
    <3>4. Recordable(Manifest(l))
      BY <1>1, <3>2 DEF Recordable
    <3>5. /\ Len(Attempt(l).validations) = Len(Manifest(l).validations) - 1
          /\ Attempt(l).validations[1] = Manifest(l).validations[1]
          /\ Manifest(l).validations[1].digest = Preliminary(l)
          /\ Manifest(l).validations[2].digest = Build(l)
      BY <1>1, <3>2, <3>3
    <3>6. /\ Preliminary(l).attempt = Manifest(l).facts.attempt
          /\ Preliminary(l).plan = Manifest(l).facts.plan
          /\ Build(l).artifact = Manifest(l).artifact
          /\ Build(l).attempt = Manifest(l).facts.attempt
          /\ Build(l).commit = Manifest(l).commit
          /\ Build(l).tree = Provenance(l).tree
          /\ Build(l).plan = Manifest(l).facts.plan
      BY <1>1, <1>2, <1>3, <3>3
    <3>7. QED
      BY <2>1, <3>1, <3>4, <3>5, <3>6 DEF EvidenceBinds
  <2>9. QED
    BY <2>2, <2>3, <2>4, <2>5, <2>6, <2>7, <2>8
<1>6. /\ Gate1(l).environment = l.environment /\ Gate2(l).environment = l.environment
      /\ r["gate1"] = l => Read("gate1", r) = Gate1(l)
      /\ r["gate2"] = l => Read("gate2", r) = Gate2(l)
  BY Contents DEF Read, Gate1, Gate2
<1>7. ASSUME l.key = OwnKey, r["gate1"] = l, r["gate2"] = l, r["sidecar1"] = l,
             r["sidecar2"] = l
      PROVE  SidecarsBind(r)
  <2>1. /\ Read("sidecar1", r) = Sidecar(l, Gate1(l))
        /\ Read("sidecar2", r) = Sidecar(l, Gate2(l))
    BY <1>7, Contents DEF Read
  <2>2. \A x : /\ Sidecar(l, x).key = l.key /\ Sidecar(l, x).approval = x
               /\ Sidecar(l, x).environment = l.environment
               /\ Sidecar(l, x).issuer = Issuer(l)
    BY DEF Sidecar
  <2>3. QED
    BY <1>6, <1>7, <2>1, <2>2 DEF SidecarsBind
<1>8. QED
  BY <1>4, <1>5, <1>6, <1>7

\* What has been read at each label, when nothing was replaced or lost.
AllOf(files) == \A f \in files : read[f] = origin

Known ==
  /\ pc \in PastManifest => AllOf({"manifest", "provenance"})
  /\ pc \in PastCommit => AllOf({"reference"})
  /\ pc \in PastBundle => AllOf({"bundle"})
  /\ pc \in PastFiles /\ op # "preview" =>
       AllOf({"request", "plan", "candidate", "attempt", "gate1", "gate2"})

\* Which labels an operation passes.
Path ==
  /\ op = "preview" => pc \in {"manifest", "commit", "bundle", "recommit", "rebundle",
                                "accepted", "refused"}
  /\ op # "audit" => pc \notin {"record", "dossier", "durable"}
  /\ op = "audit" => pc \notin {"journal", "sidecars"}

Undisturbed ==
  disturbed = 0 =>
    /\ \A f \in State \cup Candidate : disk[f] = origin
    /\ \A f \in Dossier : disk[f] = disk["tag"]
    /\ Entitled /\ disk["tag"] = None => Known /\ pc \notin {"durable", "refused"}

HonestInv == origin \in Lineages /\ op \in Operations /\ disturbed \in Nat /\ Path /\ Undisturbed

\* A step of such a reading goes on.
LEMMA HonestStep ==
  ASSUME HonestInv, disturbed = 0, Entitled, disk["tag"] = None, Step
  PROVE  Known' /\ pc' \notin {"durable", "refused"}
<1>1. /\ origin \in Lineages /\ op \in Operations /\ Path /\ Known
      /\ pc \notin {"durable", "refused"}
      /\ \A f \in State \cup Candidate : disk[f] = origin
      /\ \A f \in Dossier : disk[f] = None
      /\ origin # None
  BY CandidateSealsConstants DEF HonestInv, Undisturbed
<1>2. /\ op \in {"local", "cloudflare", "promotion", "audit"} => origin.sealed
      /\ op \in Publications => origin.key = OwnKey /\ MayPublish(origin.environment)
      /\ op # "preview" /\ op # "audit" => op \in Publications
  <2>1. CASE op = "preview"
    BY <2>1 DEF Publications
  <2>2. CASE op = "audit"
    BY <2>2 DEF Publications, Entitled
  <2>3. CASE op \in Publications
    BY <2>3 DEF Publications, Entitled
  <2>4. QED
    BY <1>1, <2>1, <2>2, <2>3 DEF Operations, Publications
<1> USE Passed DEF At, PastManifest
<1>3. CASE ReadRecord
  <2>1. read'["state"] = origin /\ UNCHANGED <<origin, op>>
        /\ (Read("state", read') = Identity(origin) => pc' = "manifest")
    BY <1>1, <1>3 DEF ReadRecord, Reads, State, Candidate, Files
  <2>2. pc' = "manifest"
    BY <1>1, <2>1, OneHistoryPasses
  <2>3. QED
    BY <2>2 DEF Known
<1>4. CASE LoadManifest
  <2>1. read'["manifest"] = origin /\ read'["provenance"] = origin /\ UNCHANGED <<origin, op>>
        /\ (ManifestBinds(read') => pc' = "commit")
    BY <1>1, <1>4 DEF LoadManifest, Reads, State, Candidate, Files
  <2>2. pc' = "commit"
    BY <1>1, <2>1, OneHistoryPasses
  <2>3. QED
    BY <2>1, <2>2 DEF Known, AllOf
<1>5. CASE LoadCommit
  <2>1. /\ read'["reference"] = origin /\ UNCHANGED <<origin, op>> /\ pc = "commit"
        /\ CommitBinds(read') => pc' = "bundle"
        /\ read'["manifest"] = read["manifest"] /\ read'["provenance"] = read["provenance"]
    BY <1>1, <1>5 DEF LoadCommit, Reads, State, Candidate, Files
  <2>2. read'["manifest"] = origin /\ read'["provenance"] = origin
    BY <1>1, <2>1 DEF Known, AllOf
  <2>3. pc' = "bundle"
    BY <1>1, <2>1, <2>2, OneHistoryPasses
  <2>4. QED
    BY <2>1, <2>2, <2>3 DEF Known, AllOf
<1>6. CASE LoadBundle
  <2>1. /\ read'["bundle"] = origin /\ UNCHANGED <<origin, op>> /\ pc = "bundle"
        /\ BundleBinds(read') => pc' = IF op = "preview" THEN "recommit" ELSE "files"
        /\ read'["manifest"] = read["manifest"] /\ read'["provenance"] = read["provenance"]
        /\ read'["reference"] = read["reference"]
    BY <1>1, <1>6 DEF LoadBundle, Reads, State, Candidate, Files
  <2>2. /\ read'["manifest"] = origin /\ read'["provenance"] = origin
        /\ read'["reference"] = origin
    BY <1>1, <2>1 DEF Known, AllOf
  <2>3. pc' = IF op = "preview" THEN "recommit" ELSE "files"
    BY <1>1, <2>1, <2>2, OneHistoryPasses
  <2>4. QED
    BY <2>1, <2>2, <2>3 DEF Known, AllOf
<1>7. CASE RecheckCommit \/ RecheckBundle
  <2>1. /\ UNCHANGED <<origin, op>> /\ pc \in {"recommit", "rebundle"}
        /\ pc = "recommit" => (CommitBinds(read') => pc' = "rebundle")
        /\ pc = "rebundle" => (BundleBinds(read') =>
                                 pc' = IF op = "audit" THEN "evidence" ELSE "accepted")
        /\ \A f \in {"reference", "bundle"} : read'[f] \in {origin, read[f]}
        /\ \A f \in Files \ {"reference", "bundle"} : read'[f] = read[f]
    <3>1. CASE RecheckCommit
      BY <1>1, <3>1 DEF RecheckCommit, Reads, State, Candidate, Files
    <3>2. CASE RecheckBundle
      BY <1>1, <3>2 DEF RecheckBundle, Reads, State, Candidate, Files
    <3>3. QED
      BY <1>7, <3>1, <3>2
  <2>2. /\ AllOf({"manifest", "provenance", "reference", "bundle"})'
        /\ op # "preview" =>
             AllOf({"request", "plan", "candidate", "attempt", "gate1", "gate2"})'
    BY <1>1, <2>1 DEF Known, AllOf, Files, Candidate, State
  <2>3. CommitBinds(read') /\ BundleBinds(read')
    BY <1>1, <2>1, <2>2, OneHistoryPasses DEF AllOf
  <2>4. pc' \in {"rebundle", "evidence", "accepted"}
    BY <2>1, <2>3
  <2>5. QED
    BY <2>1, <2>2, <2>4 DEF Known, AllOf
<1>8. CASE ReadFiles
  <2>1. /\ UNCHANGED <<origin, op>> /\ pc = "files"
        /\ FilesBind(read') => pc' = IF op = "audit" THEN "gates" ELSE "evidence"
        /\ \A f \in {"request", "plan", "candidate", "attempt", "gate1", "gate2"} :
             read'[f] = origin
        /\ \A f \in {"manifest", "provenance", "reference", "bundle"} : read'[f] = read[f]
    BY <1>1, <1>8 DEF ReadFiles, Reads, State, Candidate, Files
  <2>2. AllOf({"manifest", "provenance", "reference", "bundle"})'
    BY <1>1, <2>1 DEF Known, AllOf
  <2>3. FilesBind(read')
    BY <1>1, <2>1, <2>2, OneHistoryPasses DEF AllOf
  <2>4. pc' \in {"gates", "evidence"}
    BY <2>1, <2>3
  <2>5. QED
    BY <2>1, <2>2, <2>4 DEF Known, AllOf
<1>9. CASE ReadEvidence \/ ReadJournal \/ CheckGates \/ ReadSidecars
  <2>1. /\ UNCHANGED <<origin, op>> /\ pc \in {"evidence", "journal", "gates", "sidecars"}
        /\ pc = "evidence" /\ EvidenceBinds(read') =>
             pc' = IF op = "audit" THEN "dossier" ELSE "journal"
        /\ pc = "journal" /\ JournalBinds(read') => pc' = "gates"
        /\ pc = "gates" /\ ApprovalsBind(read') =>
             pc' = IF op = "audit" THEN "recommit" ELSE "sidecars"
        /\ pc = "sidecars" /\ SidecarsBind(read')
           /\ MayPublish(Read("gate1", read').environment) => pc' = "recommit"
        /\ \A f \in {"request", "plan", "candidate", "attempt", "gate1", "gate2", "manifest",
                     "provenance", "reference", "bundle"} : read'[f] = read[f]
        /\ pc = "evidence" => read'["preliminary"] = origin /\ read'["build"] = origin
        /\ pc = "journal" => read'["state"] = origin
        /\ pc = "sidecars" => read'["sidecar1"] = origin /\ read'["sidecar2"] = origin
    <3>1. CASE ReadEvidence
      BY <1>1, <3>1 DEF ReadEvidence, Reads, State, Candidate, Files
    <3>2. CASE ReadJournal
      BY <1>1, <3>2 DEF ReadJournal, Reads, State, Candidate, Files
    <3>3. CASE CheckGates
      BY <1>1, <3>3 DEF CheckGates, Reads, State, Candidate, Files
    <3>4. CASE ReadSidecars
      BY <1>1, <3>4 DEF ReadSidecars, Reads, State, Candidate, Files
    <3>5. QED
      BY <1>9, <3>1, <3>2, <3>3, <3>4
  <2>2. op # "preview" /\ (op = "audit" => pc \in {"evidence", "gates"})
    BY <1>1, <2>1 DEF Path
  <2>3. /\ AllOf({"manifest", "provenance", "reference", "bundle"})'
        /\ AllOf({"request", "plan", "candidate", "attempt", "gate1", "gate2"})'
    BY <1>1, <2>1, <2>2 DEF Known, AllOf
  <2>4. ApprovalsBind(read') /\ Read("gate1", read').environment = origin.environment
    BY <1>1, <2>1, <2>3, OneHistoryPasses DEF AllOf
  <2>5. pc = "evidence" => EvidenceBinds(read')
    BY <1>1, <1>2, <2>1, <2>2, <2>3, OneHistoryPasses DEF AllOf, Operations
  <2>6. pc = "journal" => JournalBinds(read')
    BY <1>1, <2>1, <2>3, OneHistoryPasses DEF AllOf
  <2>7. pc = "sidecars" => SidecarsBind(read') /\ MayPublish(origin.environment)
    BY <1>1, <1>2, <2>1, <2>2, <2>3, OneHistoryPasses DEF AllOf
  <2>8. pc' \in {"dossier", "journal", "gates", "recommit", "sidecars"}
    BY <2>1, <2>4, <2>5, <2>6, <2>7
  <2>9. QED
    BY <2>3, <2>8 DEF Known, AllOf
<1>10. CASE CompareDossier
  <2>1. Reads({}, disk["tag"] = None, "accepted") /\ pc = "dossier"
    BY <1>1, <1>10 DEF CompareDossier
  <2>2. /\ pc' = "accepted" /\ UNCHANGED <<origin, op>>
        /\ \A f \in Files : read'[f] = read[f]
    BY <2>1 DEF Reads
  <2>3. \A f \in Files : AllOf({f}) => AllOf({f})'
    BY <2>2 DEF AllOf
  <2>4. op # "preview"
    BY <1>1, <2>1 DEF Path
  <2>5. QED
    BY <1>1, <2>1, <2>2, <2>4 DEF Known, AllOf, Files, State, Candidate
<1>11. CASE CheckDossier
  BY <1>1, <1>11 DEF CheckDossier
<1>12. QED
  BY <1>3, <1>4, <1>5, <1>6, <1>7, <1>8, <1>9, <1>10, <1>11 DEF Step

LEMMA HonestInvariance == Spec => []HonestInv
<1>1. Init => HonestInv
  <2> SUFFICES ASSUME Init PROVE HonestInv
    OBVIOUS
  <2>1. /\ origin \in Lineages /\ op \in Operations /\ disturbed = 0
        /\ pc = IF op = "audit" THEN "record" ELSE "manifest"
    BY DEF Init
  <2>2. /\ \A f \in State \cup Candidate : disk[f] = origin
        /\ \A f \in Dossier : disk[f] = disk["tag"]
    BY DEF Init, Files, State, Candidate, Dossier
  <2>3. Path /\ Known
    BY <2>1, Passed DEF Path, Known, PastManifest
  <2>4. QED
    BY <2>1, <2>2, <2>3 DEF HonestInv, Undisturbed
<1>2. HonestInv /\ [Next]_vars => HonestInv'
  <2> SUFFICES ASSUME HonestInv, [Next]_vars PROVE HonestInv'
    OBVIOUS
  <2>1. CASE Step
    <3>1. UNCHANGED <<disk, disturbed, origin, op>>
      BY <2>1 DEF Step, ReadRecord, LoadManifest, LoadCommit, LoadBundle, ReadFiles,
                  ReadEvidence, ReadJournal, CheckGates, ReadSidecars, RecheckCommit,
                  RecheckBundle, CompareDossier, CheckDossier, Reads
    <3>2. Path'
      BY <2>1, <3>1 DEF Step, ReadRecord, LoadManifest, LoadCommit, LoadBundle, ReadFiles,
                  ReadEvidence, ReadJournal, CheckGates, ReadSidecars, RecheckCommit,
                  RecheckBundle, CompareDossier, CheckDossier, Reads, At, Path, HonestInv
    <3>3. Entitled' <=> Entitled
      BY <3>1 DEF Entitled, MayPublish
    <3>4. QED
      BY <2>1, <3>1, <3>2, <3>3, HonestStep DEF HonestInv, Undisturbed
  <2>2. CASE \E f \in Files : Disturb(f)
    <3>1. disturbed' = disturbed + 1 /\ UNCHANGED <<origin, op, pc, read>>
      BY <2>2 DEF Disturb
    <3>2. disturbed' \in Nat /\ disturbed' # 0
      BY <3>1 DEF HonestInv
    <3>3. QED
      BY <3>1, <3>2 DEF HonestInv, Path, Undisturbed
  <2>3. CASE UNCHANGED vars
    <3>1. UNCHANGED <<disk, disturbed, origin, op, pc, read>>
      BY <2>3 DEF vars
    <3>2. Entitled' <=> Entitled
      BY <3>1 DEF Entitled, MayPublish
    <3>3. QED
      BY <3>1, <3>2 DEF HonestInv, Path, Undisturbed, Known, AllOf
  <2>4. QED
    BY <2>1, <2>2, <2>3 DEF Next
<1>3. QED
  BY <1>1, <1>2, PTL DEF Spec

\* For every set of histories: a candidate whose files all come from one of them, and are
\* not touched meanwhile, is accepted by every preview, by the publications that this
\* process approved for and, without a dossier, by the audit.
THEOREM HonestyIsRewarded == Spec => []HonestIsAccepted
<1>1. HonestInv => HonestIsAccepted
  BY DEF HonestInv, Undisturbed, HonestIsAccepted
<1>2. QED
  BY <1>1, HonestInvariance, PTL

=============================================================================
