---------------------------- MODULE ChangePlanning ----------------------------
(***************************************************************************)
(* What a plan is made of (planning/, scripts/prepare-cloudflare-config.ts *)
(* and the profile that validation runs with).  The operator's profile is  *)
(* checked and copied clean, the request becomes a plan bound to that      *)
(* copy, and for each execution copy of the repository the profile is      *)
(* written again with paths that mean the same files there.                *)
(*                                                                         *)
(* A place is a sequence of directory names from the root of a checkout;   *)
(* the text of a path is [up, down]: how many ".." and what follows them.  *)
(* A hash is what it is the hash of.                                       *)
(***************************************************************************)
EXTENDS Naturals, Sequences, FiniteSets, SequencesExt

CONSTANT None

Common(a, b) == CHOOSE n \in 0 .. Len(a) :
  /\ IsPrefix(SubSeq(a, 1, n), b)
  /\ \A m \in n + 1 .. Len(a) : ~IsPrefix(SubSeq(a, 1, m), b)

\* path.relative and path.resolve.
Relative(from, to) ==
  [up |-> Len(from) - Common(from, to), down |-> SubSeq(to, Common(from, to) + 1, Len(to))]
Resolve(from, text) ==
  IF text.up > Len(from) THEN None ELSE SubSeq(from, 1, Len(from) - text.up) \o text.down

-----------------------------------------------------------------------------
(***************************************************************************)
(* prepare-cloudflare-config.ts.  An operator profile is                   *)
(*   [worker, main, assets, database, indexable, compatible, preview,      *)
(*    secret, env : name -> [database, indexable, extra]]                  *)
(* where a field of an environment may be None: not there.                 *)
(***************************************************************************)
\* isSafeRelativePath and rebaseProjectPath: below the project, and then named
\* from the directory of the copy.
Inside(text) == text.up = 0 /\ text.down # <<>>
Rebase(text, artifactRoot) == Relative(artifactRoot, text.down)

\* selectEnvironment: the chosen environment lies over the base.
Effective(config, environment) ==
  IF environment = None THEN config
  ELSE LET chosen == config.env[environment]
       IN [config EXCEPT
             !.database = IF chosen.database = None THEN @ ELSE chosen.database,
             !.indexable = IF chosen.indexable = None THEN @ ELSE chosen.indexable]

ValidDatabase(database, allowLocal) ==
  /\ database # None /\ Inside(database.migrations)
  /\ database.id = "local" => allowLocal

\* sanitizeProfile, for one of the purposes "publish", "preview" and "dry".
Sanitizable(config, purpose) ==
  /\ Inside(config.main) /\ Inside(config.assets)
  /\ ValidDatabase(config.database, purpose = "dry")
  /\ config.compatible
  /\ purpose = "preview" =>
       config.worker = "preview" /\ config.preview /\ config.indexable # TRUE

Clean(config, artifactRoot) ==
  [worker    |-> config.worker,
   main      |-> Rebase(config.main, artifactRoot),
   assets    |-> Rebase(config.assets, artifactRoot),
   database  |-> [config.database EXCEPT !.migrations = Rebase(@, artifactRoot)],
   indexable |-> config.indexable = TRUE]

\* sanitizeSelectedConfig: the base and what the environment makes of it.
Sanitized(config, environment, purpose, artifactRoot) ==
  LET effective == Effective(config, environment)
      base == Clean(config, artifactRoot)
  IN [base        |-> base,
      environment |-> environment,
      over        |-> IF environment = None THEN None
                      ELSE [database |-> Clean(effective, artifactRoot).database,
                            indexable |-> effective.indexable = TRUE],
      routing     |-> purpose = "preview"]

\* assertNoLiteralSecrets and assertNamedEnvironmentShape.
NoLiteralSecrets(config) == ~config.secret
NamedShape(config, environment) ==
  environment # None => environment \in DOMAIN config.env /\ ~config.env[environment].extra

\* prepareCloudflareConfigForPurpose: the copy it leaves, or None.
Prepare(config, environment, purpose, artifactRoot) ==
  IF /\ NoLiteralSecrets(config) /\ NamedShape(config, environment)
     /\ Sanitizable(config, IF environment # None /\ purpose = "preview"
                            THEN "publish" ELSE purpose)
     /\ Sanitizable(Effective(config, environment), purpose)
  THEN LET copy == Sanitized(config, environment, purpose, artifactRoot)
       IN [sha256      |-> copy,
           environment |-> environment,
           indexable   |-> Effective(config, environment).indexable = TRUE]
  ELSE None

\* writeSanitizedArtifact: a temporary is linked under the name of the hash and
\* removed.  Who finds that name taken uses what is there; if its writer died in
\* between, the file has two names for ever.
WriteArtifact(found, copy, died) ==
  IF found = None THEN [copy |-> copy, links |-> IF died THEN 2 ELSE 1]
  ELSE IF found.copy = copy THEN found ELSE None

-----------------------------------------------------------------------------
(***************************************************************************)
(* The publication of a plan (plan.ts).                                    *)
(***************************************************************************)
\* isWithin(.change-state, artifactRoot).
StateOwned(artifactRoot) == IsPrefix(<<".change-state">>, artifactRoot)

\* preparePlanningPublication.
Publication(adapter, config, environment, artifactRoot) ==
  LET chosen == IF adapter = "local" THEN None ELSE environment
      copy == Prepare(config, chosen, IF adapter = "local" THEN "dry" ELSE "publish", artifactRoot)
  IN IF \/ ~StateOwned(artifactRoot) \/ copy = None
        \/ adapter = "local" /\ copy.indexable
        \/ adapter = "cloudflare" /\ environment = None
     THEN None
     ELSE [adapter |-> adapter, configSha256 |-> copy.sha256,
           environment |-> chosen, siteIndexable |-> copy.indexable]

-----------------------------------------------------------------------------
(***************************************************************************)
(* createChangePlan.  A request is [changeId, inputSha256, kind, mode,     *)
(* target, content : [chrome, markup, empty], title, index, private,       *)
(* criteria]; a target is the sequence of its segments.  A path of the     *)
(* repository is [at, ext]; a directory has the extension "none".          *)
(***************************************************************************)
\* selectMode.
SelectMode(request) ==
  IF request.mode # "auto" THEN request.mode
  ELSE IF request.content.chrome THEN "hybrid"
  ELSE IF request.kind = "request" /\ ~request.content.markup THEN "blocks"
  ELSE "freeform"

\* selectCatalog: what the request mentions authorizes nothing more.
SelectCatalog(request) ==
  {"SiteLayout"} \cup IF request.title \/ ~request.content.empty THEN {"PageHero"} ELSE {}

\* outputPaths.  The page of /index is the page of /.
OutputPaths(changeId, target) ==
  [route      |-> [at |-> <<"src", "pages">> \o (IF target = <<>> THEN <<"index">> ELSE target),
                   ext |-> ".astro"],
   components |-> [at |-> <<"src", "components", "generated", changeId>>, ext |-> "none"],
   content    |-> [at |-> <<"src", "content", "generated", changeId>>, ext |-> ".json"],
   stylesheet |-> [at |-> <<"src", "styles", "generated", changeId>>, ext |-> ".css"],
   assets     |-> [at |-> <<"public", "generated", changeId>>, ext |-> "none"]]

\* readSourceManifest and routeExists.
Kinds == {"api", "asset", "gone", "page", "private-page", "redirect"}
ValidManifest(manifest) == \A route \in manifest : route.kind \in Kinds
RouteExists(target, manifest) ==
  \E route \in manifest : route.path = target /\ route.kind \in {"page", "private-page"}

\* defaultValidations.
Validations(existing, criteria) ==
  ({"policy", "build", "tests", "preview"}
     \cup IF existing THEN {"existing-route-visual-parity"} ELSE {}) \X {0}
    \cup {"acceptance-criterion"} \X (1 .. criteria)

ChangePlan(request, baseline, publication, manifest) ==
  IF ~ValidManifest(manifest) THEN None
  ELSE LET paths == OutputPaths(request.changeId, request.target)
           existing == RouteExists(request.target, manifest)
       IN [changeId      |-> request.changeId,
           baseline      |-> baseline,
           requestSha256 |-> request.inputSha256,
           mode          |-> SelectMode(request),
           target        |-> request.target,
           overwrites    |-> existing,
           files         |-> {<<paths.route, IF existing THEN "modify" ELSE "create">>}
                               \cup {<<paths[f], "create">> : f \in DOMAIN paths \ {"route"}},
           components    |-> SelectCatalog(request),
           islands       |-> {},
           dependencies  |-> {},
           validations   |-> Validations(existing, request.criteria),
           publication   |-> publication]

-----------------------------------------------------------------------------
(***************************************************************************)
(* The profile of an execution copy (plan.ts).                             *)
(***************************************************************************)
\* relativeExecutionPath: what the copy names, named from the root instead.
RelativeExecutionPath(text, profileDirectory) ==
  LET place == Resolve(profileDirectory, text)
  IN IF place \in {None, <<>>} THEN None ELSE Relative(<<>>, place)

\* normalizedDatabase.
NormalizedDatabase(database, profileDirectory) ==
  [database EXCEPT !.migrations = RelativeExecutionPath(@, profileDirectory)]

\* relocatableTemplate: nothing but what a plan may publish with.
Moved(copy, profileDirectory) ==
  [worker    |-> copy.base.worker,
   main      |-> RelativeExecutionPath(copy.base.main, profileDirectory),
   assets    |-> RelativeExecutionPath(copy.base.assets, profileDirectory),
   database  |-> NormalizedDatabase(copy.base.database, profileDirectory),
   indexable |-> copy.base.indexable]
MovedOver(copy, profileDirectory) ==
  [copy.over EXCEPT !.database = NormalizedDatabase(@, profileDirectory)]

Relocated(copy, profileDirectory) ==
  [base        |-> Moved(copy, profileDirectory),
   environment |-> copy.environment,
   over        |-> IF copy.environment = None THEN None ELSE MovedOver(copy, profileDirectory)]

Template(copy, profileDirectory, publication) ==
  LET moved == Moved(copy, profileDirectory)
      effective == IF publication.environment = None THEN moved
                   ELSE MovedOver(copy, profileDirectory)
  IN IF /\ ~copy.routing
        /\ copy.environment = publication.environment
        /\ publication.adapter = "cloudflare" <=> publication.environment # None
        /\ publication.siteIndexable = effective.indexable
        /\ None \notin {moved.main, moved.assets, moved.database.migrations,
                        effective.database.migrations}
     THEN Relocated(copy, profileDirectory)
     ELSE None

\* readPreparedPublication: a file of one name, with the bytes that were planned.
ReadPrepared(stored, sha256) == stored.links = 1 /\ stored.copy = sha256

\* createRelocatablePlanningPublication: `stored` is what the copy on disk is now.
Relocatable(publication, plan, profileDirectory, stored) ==
  IF publication = plan.publication /\ ReadPrepared(stored, publication.configSha256)
  THEN Template(stored.copy, profileDirectory, plan.publication) ELSE None

\* materializeRelocatablePlanningPublication: where the profile leads in a copy
\* of the repository.
Materialized(template, executionRoot) ==
  LET effective == IF template.environment = None THEN template.base ELSE template.over
  IN [main       |-> Resolve(executionRoot, template.base.main),
      assets     |-> Resolve(executionRoot, template.base.assets),
      migrations |-> Resolve(executionRoot, effective.database.migrations),
      database   |-> effective.database.id,
      indexable  |-> effective.indexable]
=============================================================================
