------------------------------ MODULE AgentOutput ------------------------------
(***************************************************************************)
(* The modules of the site that a generated page may use, and what an      *)
(* agent leaves that follows its plan: the page, the JSON definition of    *)
(* its content and, unless the page is made of blocks, its stylesheet.     *)
(* The agent is not part of the repository; what it must write is read     *)
(* from what validation/output-policy.ts accepts.                          *)
(*                                                                         *)
(* An output is [files, sha256, tree]: the inventory (paths in the order   *)
(* they were listed, and a hash for each) and the staged tree, path ->     *)
(* [regular, bytes].  Bytes are [kind, ...]: a page of Astro, the JSON     *)
(* definition of the content, a stylesheet, a script, or an asset with the *)
(* type its first bytes say.  A page is [parses, secret, code, imports,    *)
(* roots]; an import is [specifier, bindings, sideEffect, typeOnly,        *)
(* attributes]; a node is [type, name, attributes, children].              *)
(***************************************************************************)
EXTENDS ChangePlanning

\* canonicalComponentModules, canonicalIslandModules and the block renderer.
Components ==
  [SiteLayout     |-> [at |-> <<"src", "layouts", "SiteLayout">>, ext |-> ".astro"],
   PageHero       |-> [at |-> <<"src", "components", "site", "PageHero">>, ext |-> ".astro"],
   SectionHeading |-> [at |-> <<"src", "components", "site", "SectionHeading">>, ext |-> ".astro"],
   ButtonLink     |-> [at |-> <<"src", "components", "site", "ButtonLink">>, ext |-> ".astro"]]
Islands ==
  [BlogFilter |-> [at |-> <<"src", "components", "islands", "BlogFilter">>, ext |-> "none"]]
Renderer == [at |-> <<"src", "components", "blocks", "GeneratedBlockPage">>, ext |-> ".astro"]

-----------------------------------------------------------------------------
(***************************************************************************)
(* The page.                                                               *)
(***************************************************************************)
Attribute(name, kind, value) == [name |-> name, kind |-> kind, value |-> value]
Node(type, name, attributes, children) ==
  [type |-> type, name |-> name, attributes |-> attributes, children |-> children]
Binding(kind, imported, local) == {[kind |-> kind, imported |-> imported, local |-> local]}
Import(form, target, bindings) ==
  [specifier |-> [form |-> form, target |-> target, canonical |-> TRUE], bindings |-> bindings,
   sideEffect |-> bindings = {}, typeOnly |-> FALSE, attributes |-> FALSE]
Named(name, target) == Import("local", target, Binding("default", "default", name))

PageOf(imports, roots) ==
  [kind |-> "page", secret |-> FALSE, parses |-> TRUE, code |-> FALSE, imports |-> imports,
   roots |-> roots]
Anchor(value) == Node("element", "a", <<Attribute("href", "quoted", value)>>, <<>>)
Title == Attribute("title", "quoted", "text")
Hero == Node("component", "PageHero", <<Title>>, <<>>)
Blocks == Node("component", "GeneratedBlockPage", <<Attribute("page", "shorthand", "none")>>, <<>>)
LaidOut(children) ==
  Node("component", "SiteLayout", <<Attribute("page", "quoted", "blog")>>, children)

\* expectedPaths: derived again, not read from the plan.
Expected(plan) == OutputPaths(plan.changeId, plan.target)

HonestPage(plan) ==
  IF plan.mode = "blocks"
  THEN PageOf({Named("GeneratedBlockPage", Renderer), Named("page", Expected(plan).content)},
              <<Blocks>>)
  ELSE LET common == {Named("SiteLayout", Components["SiteLayout"]),
                      Import("local", Expected(plan).stylesheet, {})}
       IN IF "PageHero" \in plan.components
          THEN PageOf(common \cup {Named("PageHero", Components["PageHero"])},
                      <<LaidOut(<<Hero, Anchor("/page"), Anchor("mailto:a@b")>>)>>)
          ELSE PageOf(common, <<LaidOut(<<Anchor("/page"), Anchor("mailto:a@b")>>)>>)

-----------------------------------------------------------------------------
(***************************************************************************)
(* The other files, and the output.                                        *)
(***************************************************************************)
HeroBlock == {[type |-> "hero", href |-> "/page"]}
Definition(plan, page, open, private, area) ==
  [kind |-> "content", secret |-> FALSE, changeId |-> plan.changeId, mode |-> plan.mode,
   target |-> plan.target, contentSha256 |-> page, index |-> open, private |-> private,
   area |-> area,
   blocks |-> IF plan.mode = "blocks" THEN HeroBlock ELSE None]

Sheet(active, scopes) == [kind |-> "css", secret |-> FALSE, active |-> active, scopes |-> scopes]

Listed(files, bytes) ==
  [files |-> files, sha256 |-> bytes,
   tree |-> [path \in DOMAIN bytes |-> [regular |-> TRUE, bytes |-> bytes[path]]]]

HonestFiles(plan) ==
  IF plan.mode = "blocks" THEN <<Expected(plan).route, Expected(plan).content>>
  ELSE <<Expected(plan).route, Expected(plan).content, Expected(plan).stylesheet>>

HonestBytes(plan) ==
  [path \in Range(HonestFiles(plan)) |->
     IF path = Expected(plan).route THEN HonestPage(plan)
     ELSE IF path = Expected(plan).content
     THEN Definition(plan, HonestPage(plan), FALSE, FALSE, None)
     ELSE Sheet(FALSE, {plan.changeId})]

HonestOutput(plan) == Listed(HonestFiles(plan), HonestBytes(plan))
=============================================================================
