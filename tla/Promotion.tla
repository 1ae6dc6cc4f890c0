------------------------------- MODULE Promotion -------------------------------
(***************************************************************************)
(* Promotion of a sealed candidate to the protected main branch            *)
(* (promoteCandidate in promotion.ts, promoteCandidateWithDossier in       *)
(* candidate/manifest.ts) in a controller checkout that operators and other *)
(* promotions use at the same time.  Promotions take no lock.              *)
(*                                                                         *)
(* A commit is the sequence of labels that lead to it from the approved    *)
(* baseline; the checkout is HEAD (attached to main, or a commit), the     *)
(* commit whose content the index and the files have, and the edits that   *)
(* nobody has committed.  One git command is one step.                     *)
(***************************************************************************)
EXTENDS Sequences, FiniteSets, SequencesExt

CONSTANTS
  Promoters,    \* calls of promoteCandidate
  CandidateOf,  \* the candidate each of them promotes
  Authorized,   \* the candidates both gates approved in production
  Others,       \* bound: the commits of other people
  Edits,        \* bound: the edits of other people, "shared" or "apart"
  Mortal,       \* the promotions whose process may die
  Faults,       \* what may fail: "git", "lateRef", "write", "log"
  None          \* the label of a checkout that is no commit

Candidates == {CandidateOf[p] : p \in Promoters}
Labels == Candidates \cup Promoters \cup Others \cup {None}
Commits == Seq(Labels)

ASSUME PromotionConstants ==
  /\ Authorized \subseteq Candidates
  /\ Mortal \subseteq Promoters
  /\ Edits \subseteq {"shared", "apart"}
  /\ Faults \subseteq {"git", "lateRef", "write", "log"}
  /\ None \notin Promoters \cup Others
  /\ Promoters \cap Others = {}
  /\ Candidates \cap (Promoters \cup Others \cup {None}) = {}

VARIABLES
  main,       \* refs/heads/main
  attached,   \* HEAD is a symbolic reference to main
  head,       \* the commit of a detached HEAD
  tree,       \* the commit in the index and the files of the checkout
  edits,      \* what operators have changed there and not committed
  worktrees,  \* the promotions that have a private worktree
  events,     \* publication-events.ndjson of the candidates
  pc,         \* pc[p]: what p does next
  target,     \* target[p]: the commit p wants the checkout to follow
  published,  \* published[p]: mainPublished
  outcome,    \* outcome[p]: what p tells its caller
  seenEvents  \* seenEvents[p]: the log as p has read it

checkoutVars == <<attached, head, tree, edits>>
callVars == <<target, published, outcome>>
logVars == <<events, seenEvents>>
vars == <<main, checkoutVars, worktrees, logVars, pc, callVars>>

Main == INSTANCE ProtectedMain

Base == Main!Base
Dossier(p) == Main!Dossier(p)
Mixed == <<None>>

At(p, label) == pc[p] = label
Goto(p, label) == pc' = [pc EXCEPT ![p] = label]

Init ==
  /\ main = Base
  /\ attached = TRUE
  /\ head = Base
  /\ tree = Base
  /\ edits = {}
  /\ worktrees = {}
  /\ events = <<>>
  /\ pc = [p \in Promoters |-> "check"]
  /\ target = [p \in Promoters |-> Base]
  /\ published = [p \in Promoters |-> FALSE]
  /\ outcome = [p \in Promoters |-> "none"]
  /\ seenEvents = [p \in Promoters |-> <<>>]

-----------------------------------------------------------------------------
(***************************************************************************)
(* Git in the controller checkout.                                         *)
(***************************************************************************)
HeadCommit == IF attached THEN main ELSE head

\* git status prints nothing.
Clean == tree = HeadCommit /\ edits = {}

\* Mutant of CanCheckout: the checkout is forced.
CanForceCheckout(c) == TRUE

\* A checkout without --force refuses to write over an uncommitted edit.
CanCheckout(c) ==
  c # HeadCommit /\ tree # c => "shared" \notin edits

\* What the index holds after a checkout of c.  Where it already agreed with c,
\* or where HEAD did, it is kept; an index that is behind both mixes the two or
\* makes the command fail.
CheckedOut(c) ==
  IF c = HeadCommit THEN {tree}
  ELSE IF tree \in {c, HeadCommit} THEN {c}
  ELSE {c, Mixed}

\* git checkout --detach c.  Edits that the command can write over are gone.
Detach(c) ==
  /\ CanCheckout(c)
  /\ tree' \in CheckedOut(c)
  /\ edits' = IF c # HeadCommit /\ tree # c THEN edits \ {"shared"} ELSE edits
  /\ attached' = FALSE
  /\ head' = c

\* assertCandidateMainBaseline.
AtBaseline == attached /\ main = Base /\ Clean

-----------------------------------------------------------------------------
(***************************************************************************)
(* Before main moves: the checks, the private worktree, the dossier.       *)
(***************************************************************************)
\* assertCandidatePromotion: both gates, in production, and the baseline.
Check(p) ==
  /\ At(p, "check")
  /\ Goto(p, IF CandidateOf[p] \in Authorized /\ AtBaseline
             THEN "worktree" ELSE "readEvents")
  /\ UNCHANGED <<main, checkoutVars, worktrees, logVars, callVars>>

\* A failure removes what was made; the removal may fail as well.
CreateWorktree(p) ==
  /\ At(p, "worktree")
  /\ \/ Goto(p, "commit") /\ worktrees' = worktrees \cup {p}
     \/ "git" \in Faults /\ Goto(p, "readEvents") /\ UNCHANGED worktrees
     \/ "git" \in Faults /\ Goto(p, "readEvents") /\ worktrees' = worktrees \cup {p}
  /\ UNCHANGED <<main, checkoutVars, logVars, callVars>>

\* The seven files are written, staged, committed and verified in private.
CommitDossier(p) ==
  /\ At(p, "commit")
  /\ \/ Goto(p, "recheck")
     \/ Faults \cap {"git", "write"} # {} /\ Goto(p, "cleanup")
  /\ UNCHANGED <<main, checkoutVars, worktrees, logVars, callVars>>

Recheck(p) ==
  /\ At(p, "recheck")
  /\ Goto(p, IF AtBaseline THEN "lease" ELSE "cleanup")
  /\ UNCHANGED <<main, checkoutVars, worktrees, logVars, callVars>>

-----------------------------------------------------------------------------
(***************************************************************************)
(* advanceProtectedMainWithLease: git update-ref with the expected value.  *)
(***************************************************************************)
\* Mutant of Lease: main is set without an expected value.
UnconditionalLease(p) ==
  /\ At(p, "lease")
  /\ main' = Dossier(p)
  /\ published' = [published EXCEPT ![p] = TRUE]
  /\ Goto(p, "lookup")
  /\ UNCHANGED <<checkoutVars, worktrees, logVars, target, outcome>>

\* Mutant of Lease: a reference that did not move counts as published.
UncheckedLease(p) ==
  /\ At(p, "lease")
  /\ main' = IF main = Base THEN Dossier(p) ELSE main
  /\ published' = [published EXCEPT ![p] = TRUE]
  /\ Goto(p, "lookup")
  /\ UNCHANGED <<checkoutVars, worktrees, logVars, target, outcome>>

\* "lateRef": the command dies after the reference has moved.
Lease(p) ==
  /\ At(p, "lease")
  /\ \/ /\ main = Base
        /\ main' = Dossier(p)
        /\ published' = [published EXCEPT ![p] = TRUE]
     \/ /\ main # Base \/ "git" \in Faults
        /\ UNCHANGED <<main, published>>
     \/ /\ main = Base
        /\ "lateRef" \in Faults
        /\ main' = Dossier(p)
        /\ UNCHANGED published
  /\ Goto(p, "lookup")
  /\ UNCHANGED <<checkoutVars, worktrees, logVars, target, outcome>>

-----------------------------------------------------------------------------
(***************************************************************************)
(* publishedControllerReconciliation after a lease, and                    *)
(* restoreControllerMainCheckout after a lost one: the same commands, back *)
(* to the baseline and forward to main.  Published, a failure is pending;  *)
(* lost, it is ignored.                                                    *)
(***************************************************************************)
\* The step of a reconciliation that cannot go on.
Settle(p) ==
  /\ outcome' = [outcome EXCEPT ![p] = IF published[p] THEN "pending" ELSE @]
  /\ Goto(p, IF published[p] THEN "readEvents" ELSE "cleanup")

GitFails(p) == "git" \in Faults /\ Settle(p) /\ UNCHANGED checkoutVars

LookUpMain(p) ==
  /\ At(p, "lookup")
  /\ target' = [target EXCEPT ![p] = main]
  /\ IF published[p] /\ main # Dossier(p)
       THEN Settle(p)
       ELSE Goto(p, "rewind") /\ UNCHANGED outcome
  /\ UNCHANGED <<main, checkoutVars, worktrees, logVars, published>>

Rewind(p) ==
  /\ At(p, "rewind")
  /\ \/ Detach(Base) /\ Goto(p, "follow") /\ UNCHANGED outcome
     \/ ~CanCheckout(Base) /\ Settle(p) /\ UNCHANGED checkoutVars
     \/ GitFails(p)
  /\ UNCHANGED <<main, worktrees, logVars, target, published>>

Follow(p) ==
  /\ At(p, "follow")
  /\ \/ Detach(target[p]) /\ Goto(p, "relook") /\ UNCHANGED outcome
     \/ ~CanCheckout(target[p]) /\ Settle(p) /\ UNCHANGED checkoutVars
     \/ GitFails(p)
  /\ UNCHANGED <<main, worktrees, logVars, target, published>>

LookAgain(p) ==
  /\ At(p, "relook")
  /\ IF main # target[p]
       THEN Settle(p)
       ELSE Goto(p, "attach") /\ UNCHANGED outcome
  /\ UNCHANGED <<main, checkoutVars, worktrees, logVars, target, published>>

Attach(p) ==
  /\ At(p, "attach")
  /\ \/ /\ attached' = TRUE
        /\ head' = Base
        /\ Goto(p, IF published[p] THEN "verify" ELSE "cleanup")
        /\ UNCHANGED <<tree, edits, outcome>>
     \/ GitFails(p)
  /\ UNCHANGED <<main, worktrees, logVars, target, published>>

\* assertControllerMainAtDossier.
Verify(p) ==
  /\ At(p, "verify")
  /\ IF attached /\ main = Dossier(p) /\ Clean
       THEN outcome' = [outcome EXCEPT ![p] = "complete"] /\ Goto(p, "cleanup")
       ELSE Settle(p)
  /\ UNCHANGED <<main, checkoutVars, worktrees, logVars, target, published>>

-----------------------------------------------------------------------------
(***************************************************************************)
(* The end: the worktree goes, and what went wrong is written down.  A     *)
(* pending reconciliation is recorded before, a failure after, because     *)
(* promoteCandidate records it for whatever was thrown.                    *)
(***************************************************************************)
CleanUp(p) ==
  /\ At(p, "cleanup")
  /\ \/ worktrees' = worktrees \ {p}
     \/ "git" \in Faults /\ UNCHANGED worktrees
  /\ Goto(p, IF published[p] THEN "done" ELSE "readEvents")
  /\ UNCHANGED <<main, checkoutVars, logVars, callVars>>

\* recordCandidatePublicationEvent reads the whole log ...
ReadEvents(p) ==
  /\ At(p, "readEvents")
  /\ seenEvents' = [seenEvents EXCEPT ![p] = events]
  /\ Goto(p, "writeEvents")
  /\ UNCHANGED <<main, checkoutVars, worktrees, events, callVars>>

\* ... and replaces it by a longer one.  Its failure is ignored.
WriteEvents(p) ==
  /\ At(p, "writeEvents")
  /\ \/ events' = Append(seenEvents[p],
                         <<p, IF published[p] THEN "pending" ELSE "failure">>)
     \/ "log" \in Faults /\ UNCHANGED events
  /\ IF published[p]
       THEN Goto(p, "cleanup") /\ UNCHANGED outcome
       ELSE Goto(p, "done") /\ outcome' = [outcome EXCEPT ![p] = "failed"]
  /\ UNCHANGED <<main, checkoutVars, worktrees, seenEvents, target, published>>

-----------------------------------------------------------------------------
(***************************************************************************)
(* Everybody else.                                                         *)
(***************************************************************************)
Die(p) ==
  /\ p \in Mortal
  /\ pc[p] \notin {"done", "dead"}
  /\ Goto(p, "dead")
  /\ UNCHANGED <<main, checkoutVars, worktrees, logVars, callVars>>

\* A commit from another clone or worktree moves only the reference.
MoveMain(n) ==
  /\ n \notin Range(main)
  /\ main' = Append(main, n)
  /\ UNCHANGED <<checkoutVars, worktrees, logVars, pc, callVars>>

\* An operator commits in the checkout, seeing that it shows main.
CommitHere(n) ==
  /\ n \notin Range(main)
  /\ attached /\ tree = main /\ edits # {}
  /\ main' = Append(main, n)
  /\ tree' = main'
  /\ edits' = {}
  /\ UNCHANGED <<attached, head, worktrees, logVars, pc, callVars>>

EditHere(e) ==
  /\ e \notin edits
  /\ edits' = edits \cup {e}
  /\ UNCHANGED <<main, attached, head, tree, worktrees, logVars, pc, callVars>>

PromotionStep(p) ==
  \/ Check(p) \/ CreateWorktree(p) \/ CommitDossier(p) \/ Recheck(p)
  \/ Lease(p) \/ LookUpMain(p) \/ Rewind(p) \/ Follow(p) \/ LookAgain(p)
  \/ Attach(p) \/ Verify(p) \/ CleanUp(p) \/ ReadEvents(p) \/ WriteEvents(p)

Next ==
  \/ \E p \in Promoters : PromotionStep(p) \/ Die(p)
  \/ \E n \in Others : MoveMain(n) \/ CommitHere(n)
  \/ \E e \in Edits : EditHere(e)

Spec == Init /\ [][Next]_vars

-----------------------------------------------------------------------------
(***************************************************************************)
(* Properties.                                                             *)
(***************************************************************************)
\* What a promotion tells its caller is what happened to main, whatever failed
\* after the lease and whoever moved main since: a dossier that was published is
\* never reported as a failure (nor the other way round).
OutcomeIsHonest ==
  \A p \in Promoters :
    /\ outcome[p] = "failed" => ~IsPrefix(Dossier(p), main)
    /\ outcome[p] \in {"complete", "pending"} => IsPrefix(Dossier(p), main)

\* Neither a reconciliation nor a recovery of the checkout loses an edit that an
\* operator has not committed: an edit goes only into a commit.
EditsSurvive == [][edits \subseteq edits' \/ main' # main]_vars

\* main follows ProtectedMain: nobody's commit is lost, a candidate appears only
\* with its dossier, and only when it was authorized.
ProtectsMain == Main!Spec
=============================================================================
