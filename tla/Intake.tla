-------------------------------- MODULE Intake --------------------------------
(***************************************************************************)
(* What a change is made from (importers/ and receiveRequest of the        *)
(* controller).  A person supplies a request, or a page as a file, a       *)
(* directory or an archive; it is read as inert bytes, never run, and      *)
(* becomes one normalized request, and everything that was supplied is     *)
(* kept beside it.                                                         *)
(*                                                                         *)
(* A path is a sequence of segments.  An entry of a package is [path,      *)
(* type, links, executable, bytes].  Bytes are [size, utf8, secret, is,    *)
(* imports, dynamic, meta]: the types their content allows, where the      *)
(* local imports of a source lead (None when out of the package), whether  *)
(* one of them is not literal, and what they say when read as metadata.  A *)
(* hash is what it is the hash of.                                         *)
(***************************************************************************)
EXTENDS Naturals, Sequences, FiniteSets, SequencesExt

CONSTANTS
  None,
  Packages,    \* what may be supplied: [form, entries, archive]
  Beside,      \* metadata beside it: [bytes, ext, path in the package], or None
  Nfc, Key,    \* Nfc[s]: a segment normalized; Key[s]: without its case
  ExtOf,       \* its extension
  Hidden,      \* segments that begin with a dot
  Requests,    \* requests that may be supplied: [bytes, ext]
  MaxEntries, MaxRequest, MaxFile, MaxImage, MaxTotal, MaxArchive, MaxContent

PageExtensions == {".html", ".md", ".astro", ".tsx"}
SourceExtensions == {".astro", ".tsx", ".ts", ".js"}
TextExtensions == SourceExtensions \cup {".html", ".md", ".css", ".svg", ".json", ".yaml"}
ImageExtensions == {".png", ".svg"}
ExecutableExtensions == {".sh", ".exe"}
MediaTypes == SourceExtensions \cup {".css", ".json"} \cup ImageExtensions

Ext(path) == ExtOf[Last(path)]

-----------------------------------------------------------------------------
(***************************************************************************)
(* archive.ts: the paths of a package.                                     *)
(***************************************************************************)
\* assertSafePackagePath.
SafePath(path) ==
  /\ path # <<>> /\ Ext(path) \notin ExecutableExtensions
  /\ \A n \in DOMAIN path :
       /\ path[n] \notin {"", ".", ".."}
       /\ Key[Nfc[path[n]]] \notin {".git", "node_modules"}
       /\ path[n] \in Hidden => n = Len(path) /\ Ext(path) \in PageExtensions

Normalized(path) == [n \in DOMAIN path |-> Nfc[path[n]]]
Components(path) == {SubSeq(path, 1, n) : n \in DOMAIN path}

\* packagePathsMayCollide: on a file system that ignores case.
MayCollide(left, right) ==
  [n \in DOMAIN left |-> Key[Nfc[left[n]]]] = [n \in DOMAIN right |-> Key[Nfc[right[n]]]]

\* A walk names what a directory holds by the normalized path of the directory.
Registered(package) ==
  [n \in DOMAIN package.entries |->
     LET path == package.entries[n].path
     IN IF package.form = "directory" THEN Append(Normalized(Front(path)), Last(path)) ELSE path]

\* assertComponentIsUnique, then assertEntryIsUnique.
UniquePaths(paths) ==
  \A m, n \in DOMAIN paths :
    /\ \A c \in Components(paths[m]), d \in Components(paths[n]) : c # d => ~MayCollide(c, d)
    /\ m # n => ~MayCollide(paths[m], paths[n])

-----------------------------------------------------------------------------
(***************************************************************************)
(* archive.ts: the files of a package.                                     *)
(***************************************************************************)
LimitFor(path) == IF Ext(path) \in ImageExtensions THEN MaxImage ELSE MaxFile

\* assertNoSuppliedSecretsBytes, then assertTextIsSafe.
Inert(path, bytes) == ~bytes.secret /\ (Ext(path) \in TextExtensions => bytes.utf8)

\* readRegularFileAtMost.
RegularAtMost(entry, limit) ==
  entry.type = "file" /\ entry.links = 1 /\ ~entry.executable /\ entry.bytes.size <= limit

\* The entry of an archive: readZipEntryAtMost; it has no links to count.
ZipEntryAtMost(entry, limit) ==
  entry.type = "file" /\ ~entry.executable /\ entry.bytes.size <= limit

\* collectFiles: in the order of the entries.
WithFile(files, entry) == IF entry.type = "directory" THEN files ELSE Append(files, entry)
FilesOf(entries) ==
  LET after[n \in 0 .. Len(entries)] ==
        IF n = 0 THEN <<>> ELSE WithFile(after[n - 1], entries[n])
  IN after[Len(entries)]
TotalSize(files) == FoldLeft(LAMBDA total, entry : total + entry.bytes.size, 0, files)

WithinLimits(package, files) ==
  Len(package.entries) <= MaxEntries /\ TotalSize(files) <= MaxTotal

DirectoryAccepted(package, files) ==
  /\ WithinLimits(package, files)
  /\ \A n \in DOMAIN files : RegularAtMost(files[n], LimitFor(files[n].path))

ZipAccepted(package, files) ==
  /\ package.archive.size <= MaxArchive /\ ~package.archive.secret
  /\ WithinLimits(package, files)
  /\ \A n \in DOMAIN files : ZipEntryAtMost(files[n], LimitFor(files[n].path))

FileAccepted(package, files) ==
  Len(package.entries) = 1 /\ Len(files) = 1 /\ RegularAtMost(files[1], LimitFor(files[1].path))

\* readSuppliedPackage: the files, each [path, bytes], or None.
Read(package) ==
  LET files == FilesOf(package.entries)
  IN IF /\ \A n \in DOMAIN package.entries : SafePath(package.entries[n].path)
        /\ UniquePaths(Registered(package))
        /\ \A n \in DOMAIN files : Inert(files[n].path, files[n].bytes)
        /\ CASE package.form = "directory" -> DirectoryAccepted(package, files)
             [] package.form = "archive"   -> ZipAccepted(package, files)
             [] package.form = "file"      -> FileAccepted(package, files)
     THEN [n \in DOMAIN files |-> [path |-> Normalized(files[n].path), bytes |-> files[n].bytes]]
     ELSE None

BytesOf(files) ==
  [path \in {files[n].path : n \in DOMAIN files} |->
     files[CHOOSE n \in DOMAIN files : files[n].path = path].bytes]

\* What is kept of it: the files, and the archive before them.
RawFiles(package, files) ==
  (IF package.form = "archive" THEN <<<<package.archive, ".zip">>>> ELSE <<>>)
    \o [n \in DOMAIN files |-> <<files[n].bytes, Ext(files[n].path)>>]

-----------------------------------------------------------------------------
(***************************************************************************)
(* page.ts: metadata, the entrypoint and what it imports.                  *)
(***************************************************************************)
\* parseMarkdownFrontmatter: the body is its content.
Frontmatter(meta) == IF meta.content THEN None ELSE [meta EXCEPT !.content = TRUE]

\* parseMetadataValue, parseInput of request.ts.
Parsed(bytes, ext) ==
  IF ~bytes.utf8 \/ bytes.meta = None \/ ext \notin {".json", ".yaml", ".md"} THEN None
  ELSE IF ext = ".md" THEN Frontmatter(bytes.meta) ELSE bytes.meta

\* parseMetadata: it may not replace what the page has.
ParseMetadata(bytes, ext, packagePath) ==
  LET input == Parsed(bytes, ext)
  IN IF bytes.secret \/ input = None THEN None
     ELSE IF input.content THEN None ELSE [input |-> input, packagePath |-> packagePath]

\* packagePathForExternalMetadata.
PackagePath(package, beside, files) ==
  IF package.form = "directory" /\ \E n \in DOMAIN files : files[n].path = beside.path
  THEN beside.path ELSE <<>>

\* loadMetadata.
LoadMetadata(package, beside, files) ==
  IF beside # None
  THEN IF beside.bytes.size > MaxRequest THEN None
       ELSE ParseMetadata(beside.bytes, beside.ext, PackagePath(package, beside, files))
  ELSE LET found == {n \in DOMAIN files : Len(files[n].path) = 1 /\
                       Key[files[n].path[1]] \in {"page-meta.json", "page-meta.yaml", "page-meta.md"}}
           file == files[CHOOSE n \in found : TRUE]
       IN IF Cardinality(found) # 1 THEN None
          ELSE ParseMetadata(file.bytes, Ext(file.path), file.path)

\* selectEntrypoint: the path of the page, or None.
SelectEntrypoint(paths, declared) ==
  LET candidates == {path \in paths : Ext(path) \in PageExtensions}
      hidden == {path \in paths : Range(path) \cap Hidden # {}}
      chosen == IF declared # None THEN candidates \cap {declared} ELSE candidates
  IN IF /\ Cardinality(chosen) = 1
        /\ hidden # {} => declared # None /\ hidden = {declared}
     THEN CHOOSE path \in chosen : TRUE ELSE None

\* staticImportSpecifiers, resolveLocalImport: where a file leads.
ImportsOf(path, bytes) == IF Ext(path) \in SourceExtensions THEN bytes.imports ELSE {}

\* Mutant of Reached: what an import imports is not looked at.
Direct(entrypoint, files) == ImportsOf(entrypoint, files[entrypoint])

\* inventoryLocalSourceImports: what the page leads to, import after import.
Further(paths, files) ==
  paths \cup UNION {ImportsOf(path, files[path]) : path \in paths \cap DOMAIN files}
Reached(entrypoint, files) ==
  LET after[n \in 0 .. Cardinality(DOMAIN files)] ==
        IF n = 0 THEN ImportsOf(entrypoint, files[entrypoint]) ELSE Further(after[n - 1], files)
  IN after[Cardinality(DOMAIN files)]

\* What stops it: an import out of the package or of nothing, or a computed one.
Importable(entrypoint, reached, files) ==
  /\ reached \subseteq DOMAIN files
  /\ \A path \in reached \cup {entrypoint} :
       Ext(path) \in SourceExtensions => ~files[path].dynamic

\* hasMagicBytes, hasSafeSvgBytes.
HasMagic(path, bytes) == Ext(path) \in bytes.is

\* inventoryAssets.
Assets(paths, entrypoint, packagePath, reached) ==
  {path \in paths \ {packagePath, entrypoint} : Ext(path) \in PageExtensions => path \in reached}

\* extractContent, extractSafeHtmlBody: a body without what would run.
Content(path, bytes) == [of |-> bytes, sanitized |-> Ext(path) = ".html"]

\* normalizeRequestInput: the hash is of all the rest.
Request(kind, input, content, assets) ==
  IF content.of.size <= MaxContent /\ input.valid
  THEN LET data == [kind |-> kind, changeId |-> input.changeId, content |-> content,
                    assets |-> assets]
       IN [data |-> data, inputSha256 |-> data]
  ELSE None

\* importPage: [request, raw], or None.
ImportPage(package, beside) ==
  LET read == Read(package) IN
  IF read = None THEN None ELSE
  LET metadata == LoadMetadata(package, beside, read) IN
  IF metadata = None THEN None ELSE
  LET bytes == BytesOf(read)
      entrypoint == SelectEntrypoint(DOMAIN bytes, metadata.input.entrypoint) IN
  IF entrypoint = None THEN None ELSE
  LET reached == Reached(entrypoint, bytes)
      assets == Assets(DOMAIN bytes, entrypoint, metadata.packagePath, reached)
      request == Request("page", metadata.input, Content(entrypoint, bytes[entrypoint]),
                         [path \in assets |-> bytes[path]])
  IN IF /\ Importable(entrypoint, reached, bytes) /\ request # None
        /\ \A path \in assets : Ext(path) \in MediaTypes /\ HasMagic(path, bytes[path])
     THEN [request |-> request,
           raw |-> RawFiles(package, read) \o
                     IF beside = None THEN <<>> ELSE <<<<beside.bytes, beside.ext>>>>]
     ELSE None

\* importRequest: one file; what it says its assets are is taken as it is.
ImportRequest(bytes, ext) ==
  LET input == IF bytes.size <= MaxRequest THEN Parsed(bytes, ext) ELSE None
      request == IF input = None THEN None
                 ELSE Request("request", input, [of |-> bytes, sanitized |-> FALSE], <<>>)
  IN IF request = None THEN None ELSE [request |-> request, raw |-> <<<<bytes, ext>>>>]

-----------------------------------------------------------------------------
(***************************************************************************)
(* common.ts and the controller: what is kept.  An intake is [raw,         *)
(* request, state, failed].  A raw file is named by the request, its own   *)
(* content and its extension, and is TRUE while it is what was written,    *)
(* with the mode it was given.  It is written beside, then linked: what a  *)
(* death leaves of it has a name nobody reads.                             *)
(***************************************************************************)
RawNames(imported) ==
  [n \in DOMAIN imported.raw |-> <<imported.request.inputSha256, imported.raw[n]>>]

\* writeRawArtifact: what is there already must be the same.
Holding(raw, name, same) ==
  [kept \in DOMAIN raw \cup {name} |-> IF kept = name THEN same ELSE raw[kept]]
WriteRaw(intake, name) ==
  CASE name \notin DOMAIN intake.raw -> [intake EXCEPT !.raw = Holding(@, name, TRUE)]
    [] name \in DOMAIN intake.raw /\ intake.raw[name] -> intake
    [] OTHER -> [intake EXCEPT !.failed = TRUE]

\* The steps of receiveRequest after it reads the package under the lock.
Step(intake, step) ==
  CASE intake.failed -> intake
    [] ~intake.failed /\ step[1] = "raw"     -> WriteRaw(intake, step[2])
    [] ~intake.failed /\ step[1] = "request" -> [intake EXCEPT !.request = step[2]]
    [] ~intake.failed /\ step[1] = "state"   -> [intake EXCEPT !.state = step[2]]

Steps(imported) ==
  [n \in DOMAIN imported.raw |-> <<"raw", RawNames(imported)[n]>>]
    \o <<<<"request", imported.request>>, <<"state", "received">>, <<"state", "normalized">>>>

Taken(intake, steps, died) ==
  LET after[n \in 0 .. died] == IF n = 0 THEN intake ELSE Step(after[n - 1], steps[n])
  IN after[died]

\* receiveRequest.  The package is read before the change is locked, and again
\* under the lock: only the change has to be the same.  It dies after `died` steps.
Receive(intake, before, under, died) ==
  IF \/ before = None \/ under = None \/ intake.state # "none"
     \/ under.request.data.changeId # before.request.data.changeId
  THEN intake
  ELSE Taken(intake, Steps(under), died)

-----------------------------------------------------------------------------
(***************************************************************************)
(* What a request owes to what was supplied.                               *)
(***************************************************************************)
Pages == {page \in Packages \X Beside : ImportPage(page[1], page[2]) # None}

IsMetadata(path, beside) ==
  \/ Len(path) = 1 /\ Key[path[1]] \in {"page-meta.json", "page-meta.yaml", "page-meta.md"}
  \/ beside # None /\ beside.path = path

\* Whatever the page leads to in three imports is an asset, with its own hash.
ClosedUnderImports(package, beside) ==
  LET bytes == BytesOf(Read(package))
      data == ImportPage(package, beside).request.data
  IN \E page \in DOMAIN bytes :
       LET Kept(path) == path \in DOMAIN bytes /\
                           \/ path = page \/ IsMetadata(path, beside)
                           \/ path \in DOMAIN data.assets /\ data.assets[path] = bytes[path]
       IN /\ bytes[page] = data.content.of
          /\ \A one \in ImportsOf(page, bytes[page]) : Kept(one) /\
               \A two \in ImportsOf(one, bytes[one]) : Kept(two) /\
                 \A three \in ImportsOf(two, bytes[two]) : Kept(three)

\* A file system that ignores case keeps its paths apart.
PathsStayApart(package) ==
  \A c, d \in UNION {Components(path) : path \in DOMAIN BytesOf(Read(package))} :
    [n \in DOMAIN c |-> Key[c[n]]] = [n \in DOMAIN d |-> Key[d[n]]] => c = d

\* The same files make the same request however they are supplied.
FormsAgree(package, beside) ==
  \A page \in Pages :
    page[1].entries = package.entries /\ page[2] = beside /\ beside = None =>
      ImportPage(page[1], beside).request = ImportPage(package, beside).request

\* Nothing that is kept of a page holds what looks like a credential.
NoSecretKept(package, beside) ==
  LET raw == ImportPage(package, beside).raw IN \A n \in DOMAIN raw : ~raw[n][1].secret

\* A request stands only on what is kept beside it, wherever the process dies,
\* and a repetition completes what has no state, and replaces nothing.
KeptBeside(before, under, again, died) ==
  LET fresh == [raw |-> <<>>, request |-> None, state |-> "none", failed |-> FALSE]
      first == Receive(fresh, before, under, died)
      last  == Receive(first, again, again, Len(Steps(again)))
  IN /\ first.request # None =>
          first.request = under.request /\ Range(RawNames(under)) \subseteq DOMAIN first.raw
     /\ first.state # "none" => first.request # None /\ last = first
     /\ first.state = "none" =>
          /\ last.request = again.request /\ last.state = "normalized"
          /\ Range(RawNames(again)) \cup DOMAIN first.raw \subseteq DOMAIN last.raw
     /\ first # fresh =>
          under.request.data.changeId = before.request.data.changeId

\* A kept file that is not what was written stops the change before it has a request.
SpoiltIsRefused(under) ==
  \A n \in DOMAIN under.raw :
    LET spoilt == [raw |-> Holding(<<>>, RawNames(under)[n], FALSE), request |-> None,
                   state |-> "none", failed |-> FALSE]
        last == Receive(spoilt, under, under, Len(Steps(under)))
    IN last.failed /\ last.request = None /\ last.state = "none"

Imports == {ImportPage(page[1], page[2]) : page \in Pages}
             \cup ({ImportRequest(given.bytes, given.ext) : given \in Requests} \ {None})

\* A person supplies a page in whatever form and the process may die at any
\* step: the request has every file the page leads to, under a hash of its own
\* and a path no other can take, nothing that looks like a credential is kept,
\* and a request is never stored before all that it was made from.
RequestIsSupplied ==
  /\ \A page \in Pages :
       /\ ClosedUnderImports(page[1], page[2]) /\ PathsStayApart(page[1])
       /\ FormsAgree(page[1], page[2]) /\ NoSecretKept(page[1], page[2])
  /\ \A id \in {import.request.data.changeId : import \in Imports} :
       LET before == CHOOSE import \in Imports : import.request.data.changeId = id
       IN \A under, again \in Imports : \A died \in 0 .. Len(Steps(under)) :
            KeptBeside(before, under, again, died)
  /\ \A under \in Imports : SpoiltIsRefused(under)
===============================================================================
