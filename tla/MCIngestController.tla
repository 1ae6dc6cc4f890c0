------------------------- MODULE MCIngestController -------------------------
(* Instances of IngestController for TLC: p1 and p2 approve in production, p3 *)
(* in a fixture.  And packages that a change may be made from.                *)
EXTENDS SuppliedRequests, TLC, SequencesExt

CONSTANTS p1, p2, p3

Production == [p \in {p1, p2} |-> "production"]
Mixed == [p \in {p1, p3} |-> IF p = p3 THEN "test" ELSE "production"]

-----------------------------------------------------------------------------
(***************************************************************************)
(* Packages: part of one page, what it leads to import after import and    *)
(* its metadata, with at most one entry more, which may have to be refused.*)
(* Two spellings of one segment are written n and n+, and .Git is .git; the*)
(* archive itself is too long in one case and hides a secret in another.   *)
(***************************************************************************)
Segments ==
  (".tsx" :> {"page.tsx", "b.tsx", ".h.tsx"}) @@ (".ts" :> {"a.ts", "A.ts", "n.ts", "n+.ts"}) @@
  (".json" :> {"page-meta.json"}) @@ (".yaml" :> {"Page-Meta.yaml"}) @@ (".css" :> {"c.css"}) @@
  (".png" :> {"i.png"}) @@ (".sh" :> {"x.sh"}) @@ ("" :> {"lib", "Lib", "n", "n+", ".Git"})
Names == UNION Range(Segments)

ExtensionOf == [s \in Names |-> CHOOSE e \in DOMAIN Segments : s \in Segments[e]]
Composed == [s \in Names |-> CASE s = "n+" -> "n" [] s = "n+.ts" -> "n.ts" [] OTHER -> s]
Caseless == [s \in Names |->
  CASE s = "Lib" -> "lib" [] s = "A.ts" -> "a.ts" [] s = "Page-Meta.yaml" -> "page-meta.yaml"
    [] s = ".Git" -> ".git" [] OTHER -> s]

Plain == [size |-> 1, utf8 |-> TRUE, secret |-> FALSE, is |-> {}, imports |-> {},
          dynamic |-> FALSE, meta |-> None]
Source == [Plain EXCEPT !.is = {".ts", ".tsx", ".css"}]
Told(id, declared) == [Plain EXCEPT !.meta =
  [changeId |-> id, content |-> FALSE, valid |-> TRUE, entrypoint |-> declared]]
Entry(path, bytes) ==
  [path |-> path, type |-> "file", links |-> 1, executable |-> FALSE, bytes |-> bytes]

PageFiles ==
  {Entry(<<"page-meta.json">>, Told("one", <<"page.tsx">>)),
   Entry(<<"page.tsx">>, [Source EXCEPT !.imports = {<<"lib", "a.ts">>}]),
   Entry(<<"lib", "a.ts">>, [Source EXCEPT !.imports = {<<"lib", "b.tsx">>, <<"page.tsx">>}]),
   Entry(<<"lib", "b.tsx">>, [Source EXCEPT !.imports = {<<"n.ts">>}, !.size = 2]),
   Entry(<<"n+.ts">>, [Source EXCEPT !.size = 3])}

Nested == Entry(<<"n", "n.ts">>, Source)
Directory == [Entry(<<"n+">>, Plain) EXCEPT !.type = "directory"]
Other ==
  {Entry(<<"lib", "A.ts">>, Source), Entry(<<"Lib", "c.css">>, Source),
   Entry(<<"c.css">>, Source), Entry(<<"c.css">>, [Source EXCEPT !.secret = TRUE]),
   Entry(<<"c.css">>, [Source EXCEPT !.utf8 = FALSE]), Entry(<<"c.css">>, Plain),
   Entry(<<"lib", "c.css">>, [Source EXCEPT !.size = 9]),
   Entry(<<"i.png">>, [Plain EXCEPT !.is = {".png"}, !.size = 4]),
   Nested, Entry(<<"n+", "c.css">>, Source),
   Entry(<<".h.tsx">>, Source), Entry(<<".Git", "c.css">>, Source), Entry(<<"x.sh">>, Source),
   Entry(<<"b.tsx">>, [Source EXCEPT !.dynamic = TRUE]),
   Entry(<<"lib", "a.ts">>, [Source EXCEPT !.dynamic = TRUE]),
   Entry(<<"lib", "a.ts">>, [Source EXCEPT !.imports = {None}]),
   Entry(<<"lib", "a.ts">>, [Source EXCEPT !.imports = {<<"lib", "b.tsx">>}, !.size = 2]),
   Entry(<<"Page-Meta.yaml">>, Told("two", <<"page.tsx">>)),
   [Entry(<<"c.css">>, Source) EXCEPT !.links = 2],
   [Entry(<<"c.css">>, Source) EXCEPT !.executable = TRUE],
   [Entry(<<"c.css">>, Source) EXCEPT !.type = "link"],
   Directory}

Supplied ==
  {[form |-> form, entries |-> SetToSeq(most \cup more),
    archive |-> [Plain EXCEPT !.size = IF more = {Directory} THEN 9 ELSE 1, !.secret = more = {Nested}]] :
     form \in {"directory", "archive", "file"},
     most \in SUBSET PageFiles, more \in {{}} \cup {{entry} : entry \in Other}}

Given == {None} \cup {[bytes |-> Told("two", <<"page.tsx">>), ext |-> ".json", path |-> <<"page-meta.json">>],
                      [bytes |-> [Told("one", <<"page.tsx">>) EXCEPT !.secret = TRUE],
                       ext |-> ".json", path |-> <<>>]}
Asked == {[bytes |-> Told("one", None), ext |-> ".json"], [bytes |-> Told("two", None), ext |-> ".md"],
          [bytes |-> [Told("two", None) EXCEPT !.meta.content = TRUE], ext |-> ".md"]}
=============================================================================
