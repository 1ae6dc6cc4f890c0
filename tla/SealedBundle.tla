----------------------------- MODULE SealedBundle -----------------------------
(***************************************************************************)
(* Sealed bundles (scripts/preview-evidence/bundle.ts).  The job that      *)
(* builds a Worker has no credentials; it seals what it built, and the job *)
(* that has them verifies the seal before it uploads anything.  Between    *)
(* the two the files travel through an artifact that other jobs write too. *)
(*                                                                         *)
(* A tree is a function from names to files.  A file is                    *)
(*   [kind, mode, bytes, what]                                             *)
(* and its hash is what it holds: SHA-256 has no collisions here.          *)
(***************************************************************************)
EXTENDS Naturals, FiniteSets, FiniteSetsExt

CONSTANTS
  Config,         \* the name of dist/server/wrangler.json
  Secrets,        \* names like .env, .dev.vars.local, .npmrc
  Trees,          \* what builds leave in dist and drizzle
  Identities,     \* what jobs ask to seal, or expect of a seal
  MaxFiles, MaxFileBytes, MaxTotalBytes,   \* BundleLimits
  MaxDocument,    \* the largest configuration or profile that is read
  ManifestRoom,   \* the files whose description fits in a document
  None

Roles == {"base", "candidate", "release"}
Targets == {"preview", "production"}

\* Only a release goes to production.
ValidIdentity(id) ==
  /\ id.role \in Roles /\ id.target \in Targets
  /\ id.target = "production" => id.role = "release"

\* readRegularFile: a link, a special file or an odd mode is refused.
Regular(file) == file.kind = "file" /\ file.mode \in {420, 493} /\ file.bytes <= MaxFileBytes

\* collectBundleFiles: all of dist and drizzle, or nothing.
Collectable(tree) ==
  /\ \A name \in DOMAIN tree : name \notin Secrets /\ Regular(tree[name])
  /\ Cardinality(DOMAIN tree) <= MaxFiles
  /\ MapThenSumSet(LAMBDA name : tree[name].bytes, DOMAIN tree) <= MaxTotalBytes

Inventory(tree) ==
  [name \in DOMAIN tree |->
     [bytes |-> tree[name].bytes, mode |-> tree[name].mode, sha256 |-> tree[name].what]]

\* loadDeploymentProfile: the file is the one announced, and it is a profile of
\* the Worker that the target names.
ApprovedProfile(id) ==
  LET profile == id.profile
  IN /\ profile = id.profileSha256
     /\ profile.worker = id.target /\ profile.databaseName = id.target
     /\ profile.indexable = (id.target = "production")
     /\ profile.previewUrls = (id.target = "preview")

\* validateGeneratedTopology: the configuration that the build generated says
\* what the profile says and has no binding, route or trigger of its own.
GeneratedFor(config, profile) ==
  /\ \A field \in {"worker", "compatibility", "database", "indexable"} :
       config[field] = profile[field]
  /\ config.bindings = "approved"

\* The topology of the manifest is put together from the profile.
Topology(profile) ==
  [worker |-> profile.worker, database |-> profile.database, indexable |-> profile.indexable]

\* What both sides ask of a tree: its configuration can be read and is right.
Configured(tree, profile) ==
  /\ Config \in DOMAIN tree /\ Regular(tree[Config])
  /\ tree[Config].bytes <= MaxDocument
  /\ GeneratedFor(tree[Config].what, profile)

\* manifestWithDigest: the seal is the hash of everything else.
Sealed(role, sha, profile, topology, files) ==
  LET unsigned == [role |-> role, sourceSha |-> sha, profileSha256 |-> profile,
                   topology |-> topology, files |-> files]
  IN [signed |-> unsigned, bundleSha256 |-> unsigned]

ManifestOf(tree, id) ==
  Sealed(id.role, id.sourceSha, id.profileSha256, Topology(id.profile), Inventory(tree))

\* createSealedBundle.  Nothing here looks at the size of the manifest.
Seal(tree, id) ==
  IF ValidIdentity(id) /\ ApprovedProfile(id) /\ Configured(tree, id.profile) /\ Collectable(tree)
  THEN ManifestOf(tree, id) ELSE None

\* parseBundleManifest, which reads a document like the others.
Readable(manifest) == Cardinality(DOMAIN manifest.signed.files) <= ManifestRoom

\* Mutant of IsExpected: the commit is not compared.
IsOfRole(manifest, id) ==
  manifest.signed.role = id.role /\ manifest.signed.profileSha256 = id.profileSha256

\* The manifest is that of the bundle that the job expects.
IsExpected(manifest, id) ==
  /\ manifest.signed.role = id.role
  /\ manifest.signed.sourceSha = id.sourceSha
  /\ manifest.signed.profileSha256 = id.profileSha256

\* assertSealedRoot and the directory of the manifest: nothing else is there.
NothingElse(root) == ~root.extra

\* verifySealedBundle: everything is read and put together again.
Verify(root, id) ==
  LET manifest == root.manifest
  IN /\ ValidIdentity(id) /\ NothingElse(root)
     /\ Readable(manifest) /\ IsExpected(manifest, id)
     /\ ApprovedProfile(id)
     /\ Configured(root.tree, id.profile) /\ Collectable(root.tree)
     /\ Inventory(root.tree) = manifest.signed.files
     /\ Topology(id.profile) = manifest.signed.topology
     /\ LET m == manifest.signed
            rebuilt == Sealed(m.role, m.sourceSha, m.profileSha256, Topology(id.profile),
                              Inventory(root.tree))
        IN rebuilt.bundleSha256 = manifest.bundleSha256

-----------------------------------------------------------------------------
(***************************************************************************)
(* Properties                                                              *)
(***************************************************************************)
Root(tree, manifest, extra) == [tree |-> tree, manifest |-> manifest, extra |-> extra]

\* The bundles that exist: a tree and the manifest that was sealed for it.
Bundles ==
  {b \in [tree : Trees, id : Identities] : Seal(b.tree, b.id) # None}

\* What a verifier accepts is one bundle that was sealed, file by file, for the
\* role, commit, profile and target that it expects: whatever mixture of the
\* files of two artifacts it is given, with a list of files put right or not.
\* And a bundle that was sealed is accepted where it is expected; the manifest of
\* a build with more files than a document describes is sealed and never read.
AcceptedIsSealed ==
  /\ \A b \in Bundles :
       LET sealed == Seal(b.tree, b.id)
       IN \A product \in Trees :
            \A root \in {Root(product, sealed, FALSE), Root(product, sealed, TRUE),
                         Root(product, [sealed EXCEPT !.signed.files = Inventory(product)], FALSE)} :
              \A id \in Identities :
                Verify(root, id) =>
                  /\ ~root.extra /\ root.tree = b.tree /\ root.manifest = sealed
                  /\ id.role = b.id.role /\ id.sourceSha = b.id.sourceSha
                  /\ id.target = b.id.target /\ id.profile = b.id.profile
  /\ \A b \in Bundles :
       Cardinality(DOMAIN b.tree) <= ManifestRoom =>
         Verify(Root(b.tree, Seal(b.tree, b.id), FALSE), b.id)

=============================================================================
