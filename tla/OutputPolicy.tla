----------------------------- MODULE OutputPolicy -----------------------------
(***************************************************************************)
(* validation/output-policy.ts: what the output of an agent may be.  The   *)
(* agent is free to write anything; what it wrote is parsed, never run,    *)
(* and compared with the plan that a person approved.                      *)
(* Outputs, pages and their nodes are as in AgentOutput.                   *)
(***************************************************************************)
EXTENDS AgentOutput

CONSTANTS
  Requests,      \* normalized requests
  Profiles,      \* what operators prepare: [adapter, config, environment, root]
  Manifests,     \* what the manifest of routes may hold
  Roots,         \* where copies of the repository are made
  Variants(_),   \* what an agent that does not follow the plan may leave
  Depth          \* bound: how deep the nodes of a page are nested

-----------------------------------------------------------------------------
(***************************************************************************)
(* Paths and the inventory.                                                *)
(***************************************************************************)
ForbiddenSegments == {".git", "node_modules", ".agent-input", ".agent-output", ".env.local"}
ForbiddenNames ==
  {".env", ".npmrc", ".dev.vars"} \X {"none"}
    \cup {"astro.config", "vite.config"} \X {".js", ".mjs", ".ts"}
    \cup {"eslint.config"} \X {".js", ".mjs"}
    \cup {"package", "package-lock", "tsconfig", "wrangler"} \X {".json"}
    \cup {"wrangler"} \X {".jsonc", ".toml"}
    \cup {<<"yarn", ".lock">>, <<"pnpm-lock", ".yaml">>}
ForbiddenConfig(path) ==
  \/ Range(Front(path.at)) \cap ForbiddenSegments # {}
  \/ path.ext = "none" /\ Last(path.at) \in ForbiddenSegments
  \/ Last(path.at) \in {".env", ".env.local"}
  \/ <<Last(path.at), path.ext>> \in ForbiddenNames

Dependencies == {[at |-> <<"package">>, ext |-> ".json"], [at |-> <<"package-lock">>, ext |-> ".json"]}
SafeRelativePath(path) == path.at # <<>> /\ ".." \notin Range(path.at)
IsDescendant(root, path) == IsStrictPrefix(root.at, path.at)
Planned(plan) == {file[1] : file \in plan.files}

\* outputPathAllowed.
OutputPathAllowed(path, plan) ==
  /\ SafeRelativePath(path)
  /\ IF path \in Dependencies
     THEN plan.dependencies # {} /\ Dependencies \subseteq Planned(plan)
     ELSE /\ ~ForbiddenConfig(path)
          /\ \/ path \in Planned(plan)
             \/ IsDescendant(Expected(plan).components, path)
             \/ IsDescendant(Expected(plan).assets, path)

\* The inventory lists each path once, and has the hash of each.
ExactInventory(output) ==
  IsInjective(output.files) /\ Range(output.files) = DOMAIN output.sha256

\* readInventoryFile: what is there is what the inventory says.
ReadInventoryFile(output, path) ==
  /\ path \in DOMAIN output.tree /\ output.tree[path].regular
  /\ output.tree[path].bytes = output.sha256[path]

-----------------------------------------------------------------------------
(***************************************************************************)
(* Imports.                                                                *)
(***************************************************************************)
\* canonicalImportExpectations: each module and the one binding it may be imported as.
Default(module, local) ==
  [module |-> module, bindings |-> {[kind |-> "default", imported |-> "default", local |-> local]}]
Island(name) ==
  [module |-> Islands[name],
   bindings |-> {[kind |-> "named", imported |-> name, local |-> name]}]
Expectations(plan) ==
  IF plan.mode = "blocks"
  THEN {Default(Renderer, "GeneratedBlockPage"), Default(Expected(plan).content, "page")}
  ELSE {[module |-> Expected(plan).stylesheet, bindings |-> {}]}
         \cup {Default(Components[name], name) : name \in plan.components}
         \cup {Island(name) : name \in plan.islands}

\* resolvedLocalImport, of a specifier [form, target, canonical]: the target of
\* a relative one that stays in the tree, canonically written or not.
Local(specifier) == specifier.form = "local" /\ specifier.target # None

\* importMatches.
ImportMatches(record, expected) ==
  /\ ~record.typeOnly /\ ~record.attributes /\ record.specifier.canonical
  /\ record.bindings = expected
  /\ record.sideEffect <=> expected = {}

Approved(record, plan) ==
  /\ Local(record.specifier)
  /\ \E expected \in Expectations(plan) :
       record.specifier.target = expected.module /\ ImportMatches(record, expected.bindings)

\* sourceImports and validateImports: imports only, each of them approved.
ValidImports(page, plan) ==
  page.parses /\ ~page.code /\ \A record \in page.imports : Approved(record, plan)

\* resolvedCanonicalBindings.
Bound(page, plan, name) ==
  {record.specifier.target : record \in
     {r \in page.imports : Approved(r, plan) /\ \E b \in r.bindings : b.local = name}}

\* requiredRouteImports.
RequiredImports(page, plan) ==
  LET paths == Expected(plan)
      required == IF plan.mode = "blocks" THEN {Renderer, paths.content}
                  ELSE {Components["SiteLayout"], paths.stylesheet}
  IN \A module \in required :
       \E record \in page.imports : Approved(record, plan) /\ record.specifier.target = module

-----------------------------------------------------------------------------
(***************************************************************************)
(* Elements, components and their attributes [name, kind, value].          *)
(***************************************************************************)
\* isApprovedGeneratedLink (content/block-catalog.ts) and what may be fetched.
ApprovedLinks == {"/page", "https://comunidadsolar.es/page", "#part", "mailto:a@b", "tel:1"}
ApprovedResources == {"/page", "https://comunidadsolar.es/page"}
NavigationOnly == {"mailto:a@b", "tel:1"}

Handlers == {"onclick", "onload"}
Hydration == {"client:load", "client:visible"}
ActiveUrls == {"href", "src", "srcset", "poster", "ping"}
ApprovedElements == {"p", "a", "img", "section", "h1"}

\* What each prop of a component may be.
Props ==
  [SiteLayout     |-> [page |-> {"inicio", "blog"}],
   PageHero       |-> [title |-> {"text"}, image |-> ApprovedResources],
   SectionHeading |-> [title |-> {"text"}, align |-> {"left", "center"}],
   ButtonLink     |-> [href |-> ApprovedLinks, kind |-> {"primary", "ghost"}]]

\* validateCanonicalComponentProps: known, static, given once.
ValidProps(node) ==
  /\ \A i, j \in DOMAIN node.attributes :
       node.attributes[i].name = node.attributes[j].name => i = j
  /\ \A attribute \in Range(node.attributes) :
       /\ attribute.name \in DOMAIN Props[node.name] /\ attribute.kind = "quoted"
       /\ attribute.value \in Props[node.name][attribute.name]

\* validateTags, for each attribute of a node.
ValidAttribute(attribute, node) ==
  /\ \/ attribute.kind \in {"quoted", "empty"}
     \/ /\ node.type = "component" /\ node.name = "GeneratedBlockPage"
        /\ attribute.kind = "shorthand" /\ attribute.name = "page"
  /\ attribute.name \notin Handlers \cup {"set:html", "style", "srcdoc", "http-equiv"}
  /\ attribute.name \in ActiveUrls =>
       /\ attribute.name \notin {"ping", "srcset"} /\ attribute.kind = "quoted"
       /\ attribute.value \in ApprovedLinks
       /\ attribute.value \in NavigationOnly => attribute.name = "href"

\* validateTags, for a component: bound to the module that the plan approves.
ValidComponent(node, page, plan) ==
  LET target == Bound(page, plan, node.name)
      renderer == plan.mode = "blocks" /\ node.name = "GeneratedBlockPage"
                    /\ target = {Renderer}
      component == node.name \in DOMAIN Components \cap plan.components
                     /\ target = {Components[node.name]}
      island == node.name \in DOMAIN Islands \cap plan.islands
                  /\ target = {Islands[node.name]}
  IN /\ renderer \/ component \/ island
     /\ component => ValidProps(node)
     /\ (\E attribute \in Range(node.attributes) : attribute.name \in Hydration) =>
          plan.mode = "hybrid" /\ island

\* The nodes, level after level.
Below(nodes) == UNION {Range(node.children) : node \in nodes}
Nodes(page) ==
  LET level[n \in 0 .. Depth] == IF n = 0 THEN Range(page.roots) ELSE Below(level[n - 1])
  IN UNION {level[n] : n \in 0 .. Depth}

\* validateTags.
ValidTags(page, plan) ==
  \A node \in Nodes(page) :
    /\ node.type # "expression"
    /\ \A attribute \in Range(node.attributes) : ValidAttribute(attribute, node)
    /\ node.type = "element" => node.name \in ApprovedElements
    /\ node.type = "component" => ValidComponent(node, page, plan)

\* significantRootChildren and validateModeStructure.
ModeStructure(page, plan) ==
  /\ Len(page.roots) = 1 /\ page.roots[1].type = "component"
  /\ IF plan.mode = "blocks"
     THEN /\ page.roots[1].name = "GeneratedBlockPage" /\ page.roots[1].children = <<>>
          /\ page.roots[1].attributes = <<[name |-> "page", kind |-> "shorthand", value |-> "none"]>>
     ELSE page.roots[1].name = "SiteLayout"

\* validateAstroSource: the only page there may be is the planned one.
ValidPage(page, path, plan) ==
  /\ path = Expected(plan).route
  /\ ValidImports(page, plan) /\ ValidTags(page, plan)
  /\ ModeStructure(page, plan) /\ RequiredImports(page, plan)

-----------------------------------------------------------------------------
(***************************************************************************)
(* The other files.                                                        *)
(***************************************************************************)
\* validateGeneratedCss: rules under the class of the change, and nothing that
\* fetches.
ValidCss(sheet, path, plan) ==
  /\ path = Expected(plan).stylesheet /\ plan.mode # "blocks"
  /\ ~sheet.active /\ sheet.scopes = {plan.changeId}

\* inertPublicAssetMatches: what the name says is what the bytes are.
Inert == {".png", ".webp", ".woff2"}
ValidAsset(asset, path) ==
  path.ext \in Inert /\ asset.kind = "asset" /\ asset.type = path.ext

\* validateScriptSource and validateDependencies: no script, no package file.
Refused(path) == path.ext \in {".ts", ".tsx", ".js"} \/ path \in Dependencies

ValidFile(bytes, path, plan) ==
  /\ ~bytes.secret /\ ~Refused(path) /\ ~IsDescendant(Expected(plan).components, path)
  /\ IsDescendant(Expected(plan).assets, path) => ValidAsset(bytes, path)
  /\ path.ext = ".astro" => bytes.kind = "page" /\ ValidPage(bytes, path, plan)
  /\ path.ext = ".css" => bytes.kind = "css" /\ ValidCss(bytes, path, plan)

Areas == {"socios", "equipo", "manganafer"}

\* Mutant of CommonContent: the hash of the page need only look like one.
AnyHash(content, plan, routeHash) ==
  /\ content.changeId = plan.changeId /\ content.mode = plan.mode
  /\ content.target = plan.target
  /\ plan.publication.siteIndexable \/ ~content.index
  /\ IF content.private THEN content.area \in Areas ELSE content.area = None
  /\ content.private => ~content.index
  /\ content.blocks # None <=> plan.mode = "blocks"

\* validateCommonContent: the definition is of this plan and of this page.
CommonContent(content, plan, routeHash) ==
  /\ content.changeId = plan.changeId /\ content.mode = plan.mode
  /\ content.target = plan.target /\ content.contentSha256 = routeHash
  /\ plan.publication.siteIndexable \/ ~content.index
  /\ IF content.private THEN content.area \in Areas ELSE content.area = None
  /\ content.private => ~content.index
  /\ content.blocks # None <=> plan.mode = "blocks"

\* validateBlockPage (content/block-catalog.ts).
BlockTypes == {"hero", "feature", "cta", "steps", "faq", "trust"}
ValidBlocks(content) ==
  /\ content.blocks # {}
  /\ \A block \in content.blocks : block.type \in BlockTypes /\ block.href \in ApprovedLinks

\* validateOutputPolicy.
OutputAccepted(output, plan) ==
  LET paths == Expected(plan)
  IN /\ ExactInventory(output)
     /\ \A path \in DOMAIN output.sha256 :
          /\ OutputPathAllowed(path, plan)
          /\ ReadInventoryFile(output, path)
          /\ ValidFile(output.sha256[path], path, plan)
     /\ {paths.route, paths.content} \subseteq DOMAIN output.sha256
     /\ plan.mode # "blocks" => paths.stylesheet \in DOMAIN output.sha256
     /\ LET content == output.sha256[paths.content]
        IN /\ content.kind = "content"
           /\ CommonContent(content, plan, output.sha256[paths.route])
           /\ plan.mode = "blocks" => ValidBlocks(content)

-----------------------------------------------------------------------------
(***************************************************************************)
(* Properties                                                              *)
(***************************************************************************)
PublicationOf(p) == Publication(p.adapter, p.config, p.environment, p.root)
Prepared == {p \in Profiles : PublicationOf(p) # None}
PlansOf(p) == {ChangePlan(r, "b", PublicationOf(p), m) : r \in Requests, m \in Manifests} \ {None}
AcceptedOf(plan) ==
  {output \in {HonestOutput(plan)} \cup Variants(plan) : OutputAccepted(output, plan)}

\* Nothing but the page, its definition, its stylesheet and pictures or fonts of
\* the change itself.  A file in place of one of the two planned directories is
\* not a file of those directories and passes.
OfTheChange(output, plan) ==
  LET paths == Expected(plan) IN
  \A path \in DOMAIN output.sha256 \ {paths[f] : f \in DOMAIN paths} :
    /\ IsStrictPrefix(<<"public", "generated", plan.changeId>>, path.at)
    /\ output.tree[path].bytes.type \in Inert

\* A component of the page is the site's own of that name, whatever else is
\* imported, and is not hydrated; no attribute is a handler.  (A client: directive
\* on an element passes: it means nothing there.)
SiteComponents(page, plan) ==
  \A node \in Nodes(page) :
    /\ node.type = "component" =>
         {record.specifier.target : record \in
            {r \in page.imports : \E b \in r.bindings : b.local = node.name}}
         = {IF node.name = "GeneratedBlockPage" THEN Renderer ELSE Components[node.name]}
    /\ \A attribute \in Range(node.attributes) :
         attribute.name \notin Handlers
           \cup IF node.type = "component" THEN Hydration ELSE {}

\* Where the profile leads, seen from a copy of the repository.
Intended(p, root) ==
  LET config == Effective(p.config, IF p.adapter = "local" THEN None ELSE p.environment)
  IN [main |-> root \o config.main.down, assets |-> root \o config.assets.down,
      migrations |-> root \o config.database.migrations.down,
      database |-> config.database.id, indexable |-> config.indexable = TRUE]

\* From the operator's profile to the output that is accepted: an accepted page
\* is the planned one, with the definition written for exactly that page, of
\* files of its own change, of the site's own components, and is indexed only if
\* the operator's profile publishes an indexed site and the page is public; an
\* output that follows the plan is accepted in each mode, unless the name of the
\* change makes its definition a file that no output may have; and what a plan
\* publishes with is the operator's profile, wherever the repository is copied
\* and whatever took the place of the copy that was prepared; only a copy whose
\* writer died before it removed its temporary is prepared and never used.
OutputIsPlanned ==
  /\ \A p \in Prepared : \A plan \in PlansOf(p) :
       /\ <<plan.changeId, ".json">> \notin ForbiddenNames =>
            OutputAccepted(HonestOutput(plan), plan)
       /\ \A output \in AcceptedOf(plan) :
            LET page == output.tree[Expected(plan).route].bytes
                content == output.tree[Expected(plan).content].bytes
            IN /\ OfTheChange(output, plan) /\ SiteComponents(page, plan)
               /\ content.contentSha256 = page
               /\ content.index =>
                    p.adapter = "cloudflare" /\ Intended(p, <<>>).indexable /\ ~content.private
  /\ \A p \in Prepared, q \in Prepared, died \in BOOLEAN, root \in Roots :
       \A plan \in PlansOf(p) :
         LET copy == PublicationOf(p).configSha256
             found == WriteArtifact(None, PublicationOf(q).configSha256, died)
             template == Relocatable(PublicationOf(p), plan, p.root, found)
         IN /\ template # None <=> WriteArtifact(found, copy, FALSE) # None /\ ~died
            /\ template # None => Materialized(template, root) = Intended(p, root)

=============================================================================
