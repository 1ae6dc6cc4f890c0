----------------------------- MODULE PlannedOutputs -----------------------------
(***************************************************************************)
(* The hand-off with the rules of planning/ and of                         *)
(* validation/output-policy.ts: the plans that requests and the profiles   *)
(* of operators lead to, and what may be accepted for each.  What they     *)
(* promise depends on no variable, so it is stated of the initial states,  *)
(* where TLC evaluates it once.                                            *)
(***************************************************************************)
EXTENDS Handoff

CONSTANTS
  Requests,      \* normalized requests
  Profiles,      \* what operators prepare: [adapter, config, environment, root]
  Manifests,     \* what the manifest of routes may hold
  Roots,         \* where copies of the repository are made
  Variants(_),   \* what an agent that does not follow the plan may leave
  Depth          \* bound: how deep the nodes of a page are nested

Policy == INSTANCE OutputPolicy

\* request-input.schema.json: the name of a change and the segments of its route
\* begin with a letter or a digit.
PlainName(name) == name \notin Policy!ForbiddenSegments \cup {".env", ".."}
ASSUME RequestsArePlain ==
  \A r \in Requests :
    /\ r.target \in Seq(Range(r.target))
    /\ \A name \in {r.changeId} \cup Range(r.target) : PlainName(name)

\* The configuration that a profile publishes with, and the places it names.
Chosen(p) ==
  Policy!Effective(p.config, IF p.adapter = "local" THEN None ELSE p.environment)
Places(p) ==
  {p.config.main.down, p.config.assets.down, p.config.database.migrations.down,
   Chosen(p).database.migrations.down}

ASSUME ProfilesAreWhole ==
  \A p \in Policy!Prepared :
    /\ p.adapter \in {"local", "cloudflare"}
    /\ {"main", "assets", "database", "indexable"} \subseteq DOMAIN p.config
    /\ {"id", "migrations"} \subseteq DOMAIN p.config.database
    /\ {"id", "migrations"} \subseteq DOMAIN Chosen(p).database
    /\ \A place \in {p.root} \cup Places(p) : place \in Seq(Range(place))

ASSUME BoundsAre ==
  Depth \in Nat /\ \A root \in Roots : root \in Seq(Range(root))

\* None is no path, no module, no list of blocks, and no profile or copy of one.
ASSUME NoneIsNothing ==
  /\ \A r \in Requests : None \notin Range(Policy!OutputPaths(r.changeId, r.target))
  /\ None \notin Range(Policy!Components) \cup {Policy!Renderer} /\ None # Policy!HeroBlock
  /\ \A p \in Policy!Prepared :
       LET prepared == Policy!PublicationOf(p).configSha256
       IN /\ \A place \in Places(p) : None \notin {place, Policy!Relative(<<>>, place)}
          /\ \A died \in BOOLEAN : None # Policy!WriteArtifact(None, prepared, died)
          /\ None # Policy!Relocated(prepared, p.root)

\* What is accepted is what was planned, of the change's own files, for a profile
\* that leads where the operator's does (planning/, output-policy.ts).
OutputIsPlanned == Init => Policy!OutputIsPlanned
=============================================================================
