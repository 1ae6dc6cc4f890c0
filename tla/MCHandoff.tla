------------------------------- MODULE MCHandoff -------------------------------
(***************************************************************************)
(* Three paths: a page the plan creates, a list it extends, and a file of  *)
(* the site it must leave alone.  And the requests, the profiles and the   *)
(* outputs, of an agent that follows its plan and of one that does not,    *)
(* that PlannedOutputs asks about.                                         *)
(***************************************************************************)
EXTENDS PlannedOutputs

ThePaths == <<"list", "page", "site">>
InBaseline == {"list", "site"}
Planned == {"list", "page"}
Alike == Permutations(Versions)

-----------------------------------------------------------------------------
Request(changeId, kind, mode, target, content, title) ==
  [changeId |-> changeId, inputSha256 |-> "r", kind |-> kind, mode |-> mode, target |-> target,
   content |-> content, title |-> title, criteria |-> 1]
Text(chrome, markup, empty) == [chrome |-> chrome, markup |-> markup, empty |-> empty]
Plain == Text(FALSE, FALSE, FALSE)
ChangeRequests ==
  {Request("c", "request", "auto", <<"a">>, Plain, TRUE),
   Request("c", "page", "auto", <<"a">>, Text(FALSE, TRUE, FALSE), TRUE),
   Request("c", "page", "auto", <<>>, Text(TRUE, TRUE, FALSE), TRUE),
   Request("c", "page", "blocks", <<"a", "b">>, Plain, TRUE),
   Request("d", "request", "hybrid", <<"a">>, Plain, FALSE),
   Request("d", "request", "freeform", <<"a">>, Text(FALSE, FALSE, TRUE), FALSE),
   Request("package", "page", "freeform", <<"a">>, Plain, TRUE)}
RouteManifests ==
  {{[path |-> <<"a">>, kind |-> kind]} : kind \in {"page", "redirect", "other"}}

Below(path) == [up |-> 0, down |-> path]
Database(id, place) == [id |-> id, migrations |-> Below(place)]
Environment(database, indexable, extra) ==
  [database |-> database, indexable |-> indexable, extra |-> extra]
OperatorConfig ==
  [worker |-> "site", main |-> Below(<<"dist", "server">>),
   assets |-> Below(<<".change-state", "client">>), database |-> Database("local", <<"drizzle">>),
   indexable |-> None, compatible |-> TRUE, preview |-> FALSE, secret |-> FALSE,
   env |-> [live |-> Environment(Database("d1", <<"drizzle", "live">>), TRUE, FALSE),
            test |-> Environment(Database("d2", <<"drizzle">>), None, FALSE),
            base |-> Environment(None, TRUE, FALSE),
            odd |-> Environment(Database("d1", <<"drizzle">>), TRUE, TRUE)]]
Configs ==
  {OperatorConfig, [OperatorConfig EXCEPT !.indexable = TRUE],
   [OperatorConfig EXCEPT !.database.id = "d3"], [OperatorConfig EXCEPT !.secret = TRUE],
   [OperatorConfig EXCEPT !.main.up = 1], [OperatorConfig EXCEPT !.compatible = FALSE]}
PublicationProfiles ==
  [adapter : {"local", "cloudflare"}, config : Configs,
   environment : {None, "live", "test", "base", "odd"},
   root : {<<".change-state", "c">>, <<"tmp">>}]
CopyRoots == {<<>>, <<"copies", "x">>}

-----------------------------------------------------------------------------
(* What an agent may write instead.                                           *)
LOCAL INSTANCE AgentOutput

OtherAttributes ==
  {Attribute(name, "quoted", "x") :
     name \in {"onclick", "set:html", "style", "srcdoc", "src", "client:load", "class"}}
  \cup {Attribute("href", "quoted", value) : value \in {"#part", "https://else", "javascript:"}}
  \cup {Attribute("src", "quoted", "tel:1"), Attribute("title", "expression", "x")}
OtherNodes ==
  {Node("element", "p", <<a>>, <<>>) : a \in OtherAttributes}
  \cup {Node("component", "PageHero", <<a>>, <<>>) : a \in OtherAttributes}
  \cup {Node("component", "PageHero", <<Title, Title>>, <<>>),
        Node("component", "PageHero", <<Attribute("image", "quoted", "/page")>>, <<>>),
        Node("component", "ButtonLink", <<Attribute("href", "quoted", "/page")>>, <<>>),
        Node("component", "BlogFilter", <<Attribute("client:load", "empty", "none")>>, <<>>),
        Node("element", "script", <<>>, <<>>),
        Node("element", "section", <<>>, <<Node("expression", "none", <<>>, <<>>)>>)}
OtherImports(plan) ==
  {Named("PageHero", Components["ButtonLink"]), Named("ButtonLink", Components["ButtonLink"]),
   Named("SiteLayout", Components["PageHero"]), Import("local", None, Binding("default", "default", "x")),
   Import("package", None, Binding("namespace", "*", "PageHero")),
   Import("local", Components["PageHero"], Binding("named", "PageHero", "PageHero")),
   Import("local", Expected([plan EXCEPT !.changeId = "e"]).stylesheet, {}),
   [Named("PageHero", Components["PageHero"]) EXCEPT !.typeOnly = TRUE],
   [Named("PageHero", Components["PageHero"]) EXCEPT !.specifier.canonical = FALSE]}
OtherPages(plan) ==
  LET page == HonestPage(plan) IN
  {[page EXCEPT !.secret = TRUE], [page EXCEPT !.parses = FALSE], [page EXCEPT !.code = TRUE],
   [page EXCEPT !.roots = @ \o @], [page EXCEPT !.roots = @[1].children]}
  \cup {[page EXCEPT !.imports = @ \ {i}] : i \in page.imports}
  \cup {[page EXCEPT !.imports = @ \cup {i}] : i \in OtherImports(plan)}
  \cup {[page EXCEPT !.roots[1].children = Append(@, n)] : n \in OtherNodes}
  \cup {[page EXCEPT !.imports = @ \cup {Named("ButtonLink", Components["ButtonLink"])},
                     !.roots[1].children = Append(@, n)] : n \in OtherNodes}

Definitions(plan, page) ==
  LET d == Definition(plan, page, FALSE, FALSE, None)
  IN {Definition(plan, page, open, private, area) :
        open \in BOOLEAN, private \in BOOLEAN, area \in {None, "socios", "other"}}
     \cup {[d EXCEPT !.contentSha256 = None], [d EXCEPT !.changeId = "e"],
           [d EXCEPT !.mode = "hybrid"], [d EXCEPT !.target = <<"e">>], [d EXCEPT !.secret = TRUE],
           [d EXCEPT !.blocks = None], [d EXCEPT !.blocks = {[type |-> "html", href |-> "/page"]}],
           [d EXCEPT !.blocks = {[type |-> "cta", href |-> "https://else"]}]}

Asset(type) == [kind |-> "asset", secret |-> FALSE, type |-> type]
OutputOf(files) == Listed(SetToSeq(DOMAIN files), files)
FilesOf(plan, page, definition) ==
  LET paths == Expected(plan)
      sheet == IF plan.mode = "blocks" THEN <<>>
               ELSE paths.stylesheet :> Sheet(FALSE, {plan.changeId})
  IN paths.route :> page @@ paths.content :> definition @@ sheet
MoreFiles(plan) ==
  LET paths == Expected(plan)
      In(directory, names, ext) == [at |-> directory.at \o names, ext |-> ext]
  IN {<<In(paths.assets, <<"x">>, ext), Asset(type)>> :
        ext \in {".png", ".woff2", ".svg", ".js"}, type \in {".png", ".woff2", ".svg"}}
     \cup {<<In(paths.assets, names, ".png"), Asset(".png")>> :
             names \in {<<"..", "x">>, <<".env.local", "x">>, <<"d", "x">>}}
     \cup {<<In(paths.components, <<"X">>, ".astro"), HonestPage(plan)>>,
           <<paths.assets, Asset(".png")>>, <<paths.components, Asset(".js")>>,
           <<Components["PageHero"], HonestPage(plan)>>,
           <<[at |-> <<"public", "generated", "cc", "x">>, ext |-> ".png"], Asset(".png")>>,
           <<[at |-> <<"package">>, ext |-> ".json"], Asset(".js")>>,
           <<paths.stylesheet, Sheet(FALSE, {"e"})>>, <<paths.stylesheet, Sheet(TRUE, {plan.changeId})>>}

OtherOutputs(plan) ==
  LET honest == HonestBytes(plan)
      page == HonestPage(plan)
      output == OutputOf(honest)
      somewhere == Expected(plan).route
  IN {OutputOf(FilesOf(plan, page, d)) : d \in Definitions(plan, page)}
     \cup {OutputOf(FilesOf(plan, p, Definition(plan, p, open, FALSE, None))) :
             p \in OtherPages(plan), open \in BOOLEAN}
     \cup {OutputOf(FilesOf(plan, p, Definition(plan, page, FALSE, FALSE, None))) :
             p \in OtherPages(plan)}
     \cup {OutputOf(more[1] :> more[2] @@ honest) : more \in MoreFiles(plan)}
     \cup {OutputOf([path \in DOMAIN honest \ {gone} |-> honest[path]]) : gone \in DOMAIN honest}
     \cup {[output EXCEPT !.files = Append(@, somewhere)], [output EXCEPT !.files = Tail(@)],
           [output EXCEPT !.tree[somewhere].regular = FALSE],
           [output EXCEPT !.tree[somewhere].bytes = CHOOSE p \in OtherPages(plan) : TRUE]}
=============================================================================
