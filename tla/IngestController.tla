---------------------------- MODULE IngestController ----------------------------
(***************************************************************************)
(* The operations of the ingestion controller on one change                *)
(* (src/src/ingest/controller.ts) with the two human gates                 *)
(* (approvals/service.ts) and the sealed candidates (candidate/            *)
(* manifest.ts).                                                           *)
(*                                                                         *)
(* Every operation runs under the lock that ExclusiveLock promises and     *)
(* moves the state that ChangeLifecycle promises; both are used here as    *)
(* ChangeLock and ChangeStore implement them.  Because of the lock only    *)
(* the main branch moves under a running operation, so what an operation   *)
(* reads at its start is one step with its first write, and each later     *)
(* write is a step: a process may die or a write fail between any two.     *)
(* A failed first write is the operation that did not start.               *)
(* Contents are reduced to what binds them: a plan is the commit it was    *)
(* made for, a candidate the commit it was built on.                       *)
(***************************************************************************)
EXTENDS ChangeDomain

CONSTANTS
  Procs,        \* controller processes
  Mortal,       \* the processes that may die
  EnvOf,        \* the environment a process approves in: "production", "test"
  None,         \* no such file, nobody
  Faults,       \* what may fail: "agent", "write", "directories"
  MaxMain,      \* bound: commits the main branch goes through
  MaxAttempts   \* bound: attempts of the change

Commits == 1 .. MaxMain
Attempts == 1 .. MaxAttempts
Environments == {"production", "test"}
Gates == {1, 2}

\* gate-1.json and gate-2.json.
Approvals ==
  [env : Environments, baseline : Commits \cup {None}, attempt : Attempts \cup {None}]

ASSUME ControllerConstants ==
  /\ Mortal \subseteq Procs
  /\ EnvOf \in [Procs -> Environments]
  /\ None \notin Procs \cup Nat \cup Approvals
  /\ Faults \subseteq {"agent", "write", "directories"}
  /\ MaxMain \in Nat \ {0}
  /\ MaxAttempts \in Nat \ {0}

VARIABLES
  status, checkpoint, attempt,  \* the record of the change: see ChangeLifecycle
  owner, gone,                  \* its lock: see ExclusiveLock
  main,         \* the commit refs/heads/main names
  request,      \* request.json exists
  plan,         \* plan.json: its baseline commit, or None
  approval,     \* approval[g]: gate-g.json, or None
  provenance,   \* provenance[g]: gate-g.provenance.json, or None
  attempts,     \* attempts[k]: the status in attempts/attempt-k.json, or None
  directories,  \* the attempts that have candidate directories
  sealed,       \* sealed[k]: the baseline of the sealed candidate k, or None
  candidate,    \* candidate.json: the attempt of the candidate, or None
  pc,           \* pc[p]: what p does next
  confirmed,    \* history: what humans confirmed, and in which process
  disrupted     \* history: a write or the making of directories has failed

lifeVars == <<status, checkpoint, attempt>>
lockVars == <<owner, gone>>
gateVars == <<approval, provenance>>
attemptVars == <<attempts, directories, sealed, candidate>>
fileVars == <<request, plan, gateVars, attemptVars>>
historyVars == <<confirmed, disrupted>>
vars == <<lifeVars, lockVars, main, fileVars, pc, historyVars>>

Life == INSTANCE ChangeLifecycle
Lock == INSTANCE ExclusiveLock WITH Callers <- Procs

Labels == {"idle", "receive", "mark", "confirm1", "confirm2", "sign1", "sign2",
           "agent", "directories", "seal", "candidate", "complete", "generated",
           "fail", "fault", "preview", "release", "failed"}

Init ==
  /\ Life!Init
  /\ Lock!Init
  /\ main = 1
  /\ request = FALSE
  /\ plan = None
  /\ approval = [g \in Gates |-> None]
  /\ provenance = [g \in Gates |-> None]
  /\ attempts = [k \in Attempts |-> None]
  /\ directories = {}
  /\ sealed = [k \in Attempts |-> None]
  /\ candidate = None
  /\ pc = [p \in Procs |-> "idle"]
  /\ confirmed = {}
  /\ disrupted = FALSE

At(p, label) == pc[p] = label
Goto(p, label) == pc' = [pc EXCEPT ![p] = label]

\* An operation begins: the lock is taken and the next step is known.
Enter(p, label) == At(p, "idle") /\ Lock!Take(p) /\ Goto(p, label)

\* A step that fails with an error that the operation does not handle.
Fails(kind, p) ==
  kind \in Faults /\ Goto(p, IF kind = "agent" THEN "release" ELSE "failed")

\* A step of generate that fails: the attempt is to be recorded as failed.
Throws(kind, p) == kind \in Faults /\ Goto(p, IF kind = "agent" THEN "fail" ELSE "fault")

SetAttempt(value) == attempts' = [attempts EXCEPT ![attempt] = value]

-----------------------------------------------------------------------------
(***************************************************************************)
(* receiveRequest and plan.                                                *)
(***************************************************************************)
Receive(p) ==
  /\ status = NoState
  /\ Enter(p, "receive")
  /\ request' = TRUE
  /\ UNCHANGED <<lifeVars, main, plan, gateVars, attemptVars, historyVars>>

\* Mutant of MarkReceived: normalization is left to another call.
ReceiveOnly(p) ==
  /\ At(p, "receive")
  /\ Life!Receive
  /\ Goto(p, "release")
  /\ UNCHANGED <<lockVars, main, fileVars, historyVars>>

MarkReceived(p) ==
  /\ At(p, "receive")
  /\ \/ Life!Receive /\ Goto(p, "mark")
     \/ Fails("write", p) /\ UNCHANGED lifeVars
  /\ UNCHANGED <<lockVars, main, fileVars, historyVars>>

\* The transition an operation ends with.
Mark(p) ==
  /\ At(p, "mark")
  /\ \/ Life!Advance /\ Goto(p, "release")
     \/ Fails("write", p) /\ UNCHANGED lifeVars
  /\ UNCHANGED <<lockVars, main, fileVars, historyVars>>

Plan(p) ==
  /\ status = "normalized"
  /\ Enter(p, "mark")
  /\ plan' = main
  /\ UNCHANGED <<lifeVars, main, request, gateVars, attemptVars, historyVars>>

-----------------------------------------------------------------------------
(***************************************************************************)
(* approve.  The baseline is compared with main before the human is asked. *)
(* The approval and its provenance, signed with a key private to the       *)
(* process, are two files.                                                 *)
(***************************************************************************)
\* verifyApproval of the two gates.
Gate1Holds(baseline) ==
  /\ approval[1] # None
  /\ approval[1].baseline = baseline
  /\ approval[1].baseline = plan

Gate2Holds(baseline) ==
  /\ approval[2] # None
  /\ approval[2].baseline = baseline
  /\ approval[2].baseline = sealed[attempt]
  /\ approval[2].attempt = attempt

\* loadCandidate, verifyCandidateArtifact and verifyCandidateEvidence: the sealed
\* candidate is there and the attempt carries its validations.
CandidateUsable ==
  /\ sealed[attempt] # None
  /\ attempts[attempt] \in {"generated", "validated"}

AskGate1(p) ==
  /\ status = "planned"
  /\ plan = main
  /\ Enter(p, "confirm1")
  /\ UNCHANGED <<lifeVars, main, fileVars, historyVars>>

\* Mutant of AskGate2: a fixture approval opens Gate 2 of production.
AskGate2AnyEnvironment(p) ==
  /\ status = "validated"
  /\ CandidateUsable
  /\ plan = main
  /\ Gate1Holds(main)
  /\ sealed[attempt] = plan
  /\ Enter(p, "confirm2")
  /\ UNCHANGED <<lifeVars, main, fileVars, historyVars>>

AskGate2(p) ==
  /\ status = "validated"
  /\ CandidateUsable
  /\ plan = main
  /\ Gate1Holds(main)
  /\ approval[1].env = EnvOf[p]
  /\ sealed[attempt] = plan
  /\ Enter(p, "confirm2")
  /\ UNCHANGED <<lifeVars, main, fileVars, historyVars>>

NewApproval(p, g) ==
  IF g = 1
    THEN [env |-> EnvOf[p], baseline |-> plan, attempt |-> None]
    ELSE [env |-> EnvOf[p], baseline |-> sealed[attempt], attempt |-> attempt]

Confirm(p, g) ==
  /\ At(p, IF g = 1 THEN "confirm1" ELSE "confirm2")
  /\ \/ /\ approval' = [approval EXCEPT ![g] = NewApproval(p, g)]
        /\ confirmed' = confirmed \cup {<<p, g, NewApproval(p, g)>>}
        /\ UNCHANGED disrupted
        /\ Goto(p, IF g = 1 THEN "sign1" ELSE "sign2")
     \/ Goto(p, "release") /\ UNCHANGED <<approval, historyVars>>
  /\ UNCHANGED <<lifeVars, lockVars, main, request, plan, provenance, attemptVars>>

Sign(p, g) ==
  /\ At(p, IF g = 1 THEN "sign1" ELSE "sign2")
  /\ \/ /\ provenance' = [provenance EXCEPT
                            ![g] = [signer |-> p, subject |-> approval[g]]]
        /\ Goto(p, "mark")
     \/ Fails("write", p) /\ UNCHANGED provenance
  /\ UNCHANGED <<lifeVars, lockVars, main, request, plan, approval, attemptVars,
                 historyVars>>

-----------------------------------------------------------------------------
(***************************************************************************)
(* generate.  After the first write every error leads to "fail", where the *)
(* attempt is recorded as failed; the change stays gate1_approved.         *)
(***************************************************************************)
Generate(p) ==
  /\ status = "gate1_approved"
  /\ Gate1Holds(main)
  /\ Enter(p, "agent")
  /\ SetAttempt("running")
  /\ UNCHANGED <<lifeVars, main, request, plan, gateVars, directories, sealed,
                 candidate, historyVars>>

\* Workspace, agent run, output policy and preliminary validation.
RunAgent(p) ==
  /\ At(p, "agent")
  /\ Goto(p, "directories") \/ Throws("agent", p)
  /\ UNCHANGED <<lifeVars, lockVars, main, fileVars, historyVars>>

\* Mutants of MakeDirectories: existing directories are used again; and the part
\* of generate that fails most often runs when they exist.
ReuseDirectories(p) ==
  /\ At(p, "directories")
  /\ directories' = directories \cup {attempt}
  /\ Goto(p, "seal")
  /\ UNCHANGED <<lifeVars, lockVars, main, request, plan, gateVars, attempts,
                 sealed, candidate, historyVars>>

BuildInDirectories(p) ==
  /\ At(p, "directories")
  /\ IF attempt \in directories
       THEN Goto(p, "fail")
       ELSE Goto(p, "seal") \/ Throws("agent", p)
  /\ directories' = directories \cup {attempt}
  /\ UNCHANGED <<lifeVars, lockVars, main, request, plan, gateVars, attempts,
                 sealed, candidate, historyVars>>

\* candidateDirectories: the directories of the attempt must be new.  When it
\* stops half-way what it made stays.
MakeDirectories(p) ==
  /\ At(p, "directories")
  /\ \/ /\ attempt \notin directories
        /\ directories' = directories \cup {attempt}
        /\ Goto(p, "seal") \/ Throws("directories", p)
     \/ /\ attempt \in directories
        /\ Goto(p, "fail")
        /\ UNCHANGED directories
  /\ UNCHANGED <<lifeVars, lockVars, main, request, plan, gateVars, attempts,
                 sealed, candidate, historyVars>>

\* Manifest, provenance and candidate ref; an error removes the directories and
\* everything in them.
Seal(p) ==
  /\ At(p, "seal")
  /\ \/ /\ sealed' = [sealed EXCEPT ![attempt] = plan]
        /\ Goto(p, "candidate")
        /\ UNCHANGED directories
     \/ /\ Throws("write", p)
        /\ directories' = directories \ {attempt}
        /\ sealed' = [sealed EXCEPT ![attempt] = None]
  /\ UNCHANGED <<lifeVars, lockVars, main, request, plan, gateVars, attempts,
                 candidate, historyVars>>

WriteCandidate(p) ==
  /\ At(p, "candidate")
  /\ \/ candidate' = attempt /\ Goto(p, "complete")
     \/ Throws("write", p) /\ UNCHANGED candidate
  /\ UNCHANGED <<lifeVars, lockVars, main, request, plan, gateVars, attempts,
                 directories, sealed, historyVars>>

CompleteAttempt(p) ==
  /\ At(p, "complete")
  /\ \/ SetAttempt("generated") /\ Goto(p, "generated")
     \/ Throws("write", p) /\ UNCHANGED attempts
  /\ UNCHANGED <<lifeVars, lockVars, main, request, plan, gateVars, directories,
                 sealed, candidate, historyVars>>

MarkGenerated(p) ==
  /\ At(p, "generated")
  /\ \/ Life!Advance /\ Goto(p, "release")
     \/ Throws("write", p) /\ UNCHANGED lifeVars
  /\ UNCHANGED <<lockVars, main, fileVars, historyVars>>

\* The error itself is thrown on whether or not it could be recorded.
FailAttempt(p) ==
  /\ \/ /\ At(p, "fail") \/ At(p, "fault")
        /\ SetAttempt("failed")
        /\ Goto(p, IF At(p, "fault") THEN "failed" ELSE "release")
     \/ /\ At(p, "fail") \/ At(p, "fault")
        /\ Fails("write", p)
        /\ UNCHANGED attempts
  /\ UNCHANGED <<lifeVars, lockVars, main, request, plan, gateVars, directories,
                 sealed, candidate, historyVars>>

-----------------------------------------------------------------------------
(***************************************************************************)
(* validate, publishLocal, and the state changes the store exports.        *)
(***************************************************************************)
\* Mutant of Validate: the attempt is not recorded as validated.
ValidateStateOnly(p) ==
  /\ status = "generated"
  /\ CandidateUsable
  /\ Enter(p, "mark")
  /\ UNCHANGED <<lifeVars, main, fileVars, historyVars>>

Validate(p) ==
  /\ status = "generated"
  /\ CandidateUsable
  /\ sealed[attempt] = plan
  /\ Enter(p, "mark")
  /\ SetAttempt("validated")
  /\ UNCHANGED <<lifeVars, main, request, plan, gateVars, directories, sealed,
                 candidate, historyVars>>

\* Mutant of Provenance: the signature of any controller process is accepted.
AnySigner(p, g) == provenance[g] # None /\ provenance[g].subject = approval[g]

\* verifyPersistedApprovalProvenance in process p.
Provenance(p, g) ==
  /\ provenance[g] # None
  /\ provenance[g].signer = p
  /\ provenance[g].subject = approval[g]

\* assertCandidateLocalPublication: candidatePublicationState and the baseline.
PublicationHolds(p) ==
  /\ status = "gate2_approved"
  /\ CandidateUsable /\ attempts[attempt] = "validated"
  /\ sealed[attempt] = plan
  /\ candidate = attempt
  /\ Gate1Holds(plan) /\ Gate2Holds(plan)
  /\ \A g \in Gates : Provenance(p, g)
  /\ approval[1].env = approval[2].env
  /\ main = plan

Publish(p) ==
  /\ PublicationHolds(p)
  /\ Enter(p, "preview")
  /\ UNCHANGED <<lifeVars, main, fileVars, historyVars>>

\* The preview ran and was stopped; the record is compared and nothing written.
FinishPublish(p) ==
  /\ At(p, "preview")
  /\ Goto(p, "release")
  /\ UNCHANGED <<lifeVars, lockVars, main, fileVars, historyVars>>

Release(p) ==
  /\ At(p, "release") \/ At(p, "failed")
  /\ Lock!Release(p)
  /\ Goto(p, "idle")
  /\ disrupted' = (disrupted \/ At(p, "failed"))
  /\ UNCHANGED <<lifeVars, main, fileVars, confirmed>>

\* transition to rejected or failed, and retryChange: whole calls of the store.
Abandon ==
  /\ owner = None
  /\ Life!Abandon
  /\ UNCHANGED <<lockVars, main, fileVars, pc, historyVars>>

Retry ==
  /\ owner = None
  /\ attempt < MaxAttempts
  /\ Life!Retry
  /\ UNCHANGED <<lockVars, main, fileVars, pc, historyVars>>

-----------------------------------------------------------------------------
\* Somebody commits to main; a controller dies; its lock is recovered.
MainAdvances ==
  /\ main < MaxMain
  /\ main' = main + 1
  /\ UNCHANGED <<lifeVars, lockVars, fileVars, pc, historyVars>>

Crash(p) ==
  /\ p \in Mortal \ gone
  /\ Lock!Die({p})
  /\ Goto(p, "idle")
  /\ UNCHANGED <<lifeVars, main, fileVars, historyVars>>

Recover ==
  /\ Lock!Free
  /\ UNCHANGED <<lifeVars, main, fileVars, pc, historyVars>>

Operation(p) ==
  \/ Receive(p) \/ MarkReceived(p) \/ Mark(p) \/ Plan(p)
  \/ AskGate1(p) \/ AskGate2(p)
  \/ \E g \in Gates : Confirm(p, g) \/ Sign(p, g)
  \/ Generate(p) \/ RunAgent(p) \/ MakeDirectories(p) \/ Seal(p)
  \/ WriteCandidate(p) \/ CompleteAttempt(p) \/ MarkGenerated(p) \/ FailAttempt(p)
  \/ Validate(p) \/ Publish(p) \/ FinishPublish(p) \/ Release(p)

Next ==
  \/ \E p \in Procs : Operation(p) \/ Crash(p)
  \/ Abandon \/ Retry \/ MainAdvances \/ Recover

Spec == Init /\ [][Next]_vars

(***************************************************************************)
(* Operators keep calling the operation the state asks for, the human who  *)
(* is asked often enough confirms once, and the agent does not fail for    *)
(* ever.  A running operation goes on.                                     *)
(***************************************************************************)
Begin(p) ==
  \/ Receive(p) \/ Plan(p) \/ AskGate1(p) \/ Generate(p) \/ Validate(p) \/ AskGate2(p)

Fairness ==
  /\ WF_vars(\E p \in Procs : ~At(p, "idle") /\ Operation(p))
  /\ SF_vars(\E p \in Procs : Begin(p))
  /\ SF_vars(\E p \in Procs : RunAgent(p) /\ At(p, "directories")')
  /\ SF_vars(\E p \in Procs, g \in Gates : Confirm(p, g) /\ ~At(p, "release")')

FairSpec == Spec /\ Fairness

-----------------------------------------------------------------------------
(***************************************************************************)
(* audit, as far as one change directory goes.                             *)
(***************************************************************************)
AuditAccepts ==
  /\ status # NoState
  /\ request
  /\ status \notin {"received", "failed", "rejected"} => plan # None
  /\ status \in {"generated", "validated", "gate2_approved", "published"} =>
       /\ CandidateUsable
       /\ candidate = attempt
       /\ sealed[attempt] = plan
       /\ attempts[attempt] = IF status = "generated" THEN "generated"
                                                     ELSE "validated"
       /\ Gate1Holds(plan)
  /\ status \in {"gate2_approved", "published"} => Gate2Holds(sealed[attempt])

-----------------------------------------------------------------------------
(***************************************************************************)
(* Properties                                                              *)
(***************************************************************************)
\* The state never claims more than the files prove: whatever dies, fails, is
\* retried or moves, an approved change has the approval of its own plan, a
\* generated one a sealed candidate of its own attempt, and gate2_approved a
\* second approval of exactly that candidate in the same environment.
StateIsProved ==
  /\ status \in {"gate1_approved", "generated", "validated", "gate2_approved"} =>
       Gate1Holds(plan)
  /\ status \in {"generated", "validated", "gate2_approved"} =>
       sealed[attempt] = plan /\ candidate = attempt
  /\ status \in {"validated", "gate2_approved"} => attempts[attempt] = "validated"
  /\ status = "gate2_approved" =>
       Gate2Holds(plan) /\ approval[1].env = approval[2].env

\* What was promised stays: no operation rewrites plan.json once Gate 1 was
\* confirmed for it, also not in a later attempt; and a sealed candidate is never
\* touched again, by a later attempt, by the cleanup of a failed one, or by a
\* repeated generate.
PromisedStays ==
  [][/\ approval[1] # None => plan' = plan
     /\ \A k \in Attempts : sealed[k] # None => sealed'[k] = sealed[k]]_vars

\* Only what humans confirmed in this very process is published: both
\* confirmations, of this plan and of this candidate, and never an approval
\* left by another attempt, another process or before a crash.
PublishedWasConfirmed ==
  \A p \in Procs :
    At(p, "preview") =>
      /\ <<p, 1, [env |-> EnvOf[p], baseline |-> plan, attempt |-> None]>>
           \in confirmed
      /\ <<p, 2, [env |-> EnvOf[p], baseline |-> plan, attempt |-> attempt]>>
           \in confirmed

\* No controller has died, and all that failed is the agent.
Undisturbed == gone = {} /\ ~disrupted

\* audit never reports a change nobody is working on, unless it is still to be
\* planned.  For controllers that do not die and writes that do not fail.
RestIsAuditable ==
  Undisturbed /\ owner = None /\ status \notin {NoState, "normalized"} => AuditAccepts

\* A change that waits to be generated can be: its attempt has no directories
\* that candidateDirectories would refuse.  For controllers that do not die and
\* writes that do not fail.
GenerateNotBlocked ==
  Undisturbed /\ owner = None /\ status = "gate1_approved" => attempt \notin directories

\* No change is left in between: with controllers that do not die and writes that
\* do not fail, one that was received is approved for publication, rejected, or
\* failed, unless main moves away from the commit it was planned on.
NoLimbo ==
  status = "received" ~>
    \/ status \in {"gate2_approved", "rejected", "failed"}
    \/ plan # None /\ plan # main
    \/ ~Undisturbed
=============================================================================
