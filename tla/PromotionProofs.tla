---------------------------- MODULE PromotionProofs ----------------------------
(***************************************************************************)
(* Theorems about promotion to the protected main branch, for any number   *)
(* of promotions, of commits and edits of other people, and of deaths.     *)
(*                                                                         *)
(* Promotions take no lock, so a call knows little of main once its lease  *)
(* is over.  What it needs is that main only grows: whoever moved main     *)
(* first cannot be undone, and whoever lost cannot win later.              *)
(***************************************************************************)
EXTENDS Promotion, SequenceTheorems, TLAPS

PcLabels ==
  {"check", "worktree", "commit", "recheck", "lease", "lookup", "rewind", "follow",
   "relook", "attach", "verify", "cleanup", "readEvents", "writeEvents", "done", "dead"}

Records == Promoters \X {"pending", "failure"}

TypeOK ==
  /\ main \in Commits
  /\ attached \in BOOLEAN /\ head \in Commits /\ tree \in Commits
  /\ edits \subseteq Edits
  /\ worktrees \subseteq Promoters
  /\ events \in Seq(Records)
  /\ pc \in [Promoters -> PcLabels]
  /\ target \in [Promoters -> Commits]
  /\ published \in [Promoters -> BOOLEAN]
  /\ outcome \in [Promoters -> {"none", "complete", "pending", "failed"}]
  /\ seenEvents \in [Promoters -> Seq(Records)]

\* Main holds the dossier of p.
Holds(p) == IsPrefix(Dossier(p), main)

\* A call that passed assertCandidatePromotion has a candidate that both gates
\* approved; nothing later in the call looks again.
Leasing == {"worktree", "commit", "recheck", "lease"}
Cleared == \A p \in Promoters : pc[p] \in Leasing => CandidateOf[p] \in Authorized

\* mainPublished is set by the lease that moved main, and only after "lease"; only
\* a call that has it verifies the checkout.
PublishedHolds ==
  \A p \in Promoters :
    /\ published[p] => Holds(p)
    /\ pc[p] = "verify" => published[p]
    /\ published[p] => pc[p] \notin Leasing \cup {"check"}

\* What a call reports follows mainPublished; a failure is its last step.
OutcomeFollows ==
  \A p \in Promoters :
    /\ outcome[p] \in {"complete", "pending"} => published[p]
    /\ outcome[p] = "failed" => ~published[p] /\ pc[p] = "done"

IInv == TypeOK /\ Cleared /\ PublishedHolds /\ OutcomeFollows

\* A lease that moved main was always seen to do so.
HoldsPublished == \A p \in Promoters : Holds(p) => published[p]

-----------------------------------------------------------------------------
(***************************************************************************)
(* Commits.                                                                *)
(***************************************************************************)

\* A commit holds the dossier of p when its first two labels are that.
LEMMA DossierFirst ==
  ASSUME NEW p \in Promoters, NEW c \in Commits
  PROVE  IsPrefix(Dossier(p), c)
           <=> Len(c) >= 2 /\ c[1] = CandidateOf[p] /\ c[2] = p
<1> DEFINE d == <<CandidateOf[p], p>>
<1>1. Dossier(p) = d /\ d \in Commits /\ Len(d) = 2
  BY DEF Dossier, Main!Dossier, Commits, Labels, Candidates
<1>2. SubSeq(d, 1, 2) = d
  BY <1>1, SubSeqFull DEF Commits
<1>3. ASSUME Len(c) >= 2
      PROVE  SubSeq(c, 1, 2) = d <=> c[1] = CandidateOf[p] /\ c[2] = p
  <2>1. /\ SubSeq(c, 1, 2) \in Commits /\ Len(SubSeq(c, 1, 2)) = 2
        /\ SubSeq(c, 1, 2)[1] = c[1] /\ SubSeq(c, 1, 2)[2] = c[2]
    <3>1. \A i \in 1 .. 2 : c[i] \in Labels
      BY <1>3 DEF Commits
    <3>2. QED
      BY <3>1, SubSeqProperties DEF Commits
  <2>2. d[1] = CandidateOf[p] /\ d[2] = p
    OBVIOUS
  <2>3. ASSUME c[1] = d[1], c[2] = d[2] PROVE SubSeq(c, 1, 2) = d
    <3>1. \A i \in 1 .. 2 : SubSeq(c, 1, 2)[i] = d[i]
      BY <2>1, <2>3
    <3>2. QED
      BY <1>1, <2>1, <3>1, SeqEqual DEF Commits
  <2>4. QED
    BY <2>1, <2>2, <2>3
<1>4. QED
  BY <1>1, <1>2, <1>3 DEF IsPrefix, Commits

\* The promotion that made a dossier is the only one whose dossier it is, and a
\* commit of somebody else makes none.
LEMMA DossierIsOwn ==
  ASSUME NEW p \in Promoters
  PROVE  /\ Dossier(p) \in Commits /\ IsPrefix(Dossier(p), Dossier(p))
         /\ ~IsPrefix(Dossier(p), Base)
         /\ \A q \in Promoters : IsPrefix(Dossier(q), Dossier(p)) => q = p
         /\ \A c \in Commits, n \in Others :
              IsPrefix(Dossier(p), Append(c, n)) <=> IsPrefix(Dossier(p), c)
<1>1. Dossier(p) = <<CandidateOf[p], p>> /\ Dossier(p) \in Commits
  BY DEF Dossier, Main!Dossier, Commits, Labels, Candidates
<1>2. Base \in Commits /\ Len(Base) = 0
  BY DEF Base, Main!Base, Commits
<1>3. ASSUME NEW c \in Commits, NEW n \in Others
      PROVE  IsPrefix(Dossier(p), Append(c, n)) <=> IsPrefix(Dossier(p), c)
  <2>1. Append(c, n) \in Commits /\ n # p
    BY PromotionConstants DEF Commits, Labels
  <2>2. /\ Len(Append(c, n)) = Len(c) + 1
        /\ \A i \in 1 .. Len(c) : Append(c, n)[i] = c[i]
        /\ Append(c, n)[Len(c) + 1] = n
        /\ Len(c) \in Nat
    BY DEF Commits, Labels
  <2>3. Append(c, n)[2] = p => Len(c) >= 2 \/ Len(c) = 0
    BY <2>1, <2>2
  <2>4. Len(c) >= 2 => Append(c, n)[1] = c[1] /\ Append(c, n)[2] = c[2]
    BY <2>2
  <2>5. CASE Len(c) >= 2
    <3>1. Len(Append(c, n)) >= 2
      BY <2>2, <2>5
    <3>2. /\ IsPrefix(Dossier(p), Append(c, n))
               <=> Append(c, n)[1] = CandidateOf[p] /\ Append(c, n)[2] = p
          /\ IsPrefix(Dossier(p), c) <=> c[1] = CandidateOf[p] /\ c[2] = p
      BY <2>1, <2>5, <3>1, DossierFirst
    <3>3. QED
      BY <2>4, <2>5, <3>2
  <2>6. CASE ~(Len(c) >= 2)
    <3>1. ~(Len(Append(c, n)) >= 2 /\ Append(c, n)[2] = p)
      BY <2>2, <2>3, <2>6
    <3>2. QED
      BY <2>1, <2>6, <3>1, DossierFirst
  <2>7. QED
    BY <2>5, <2>6
<1>4. IsPrefix(Dossier(p), Dossier(p)) /\ ~IsPrefix(Dossier(p), Base)
  BY <1>1, <1>2, DossierFirst
<1>5. ASSUME NEW q \in Promoters, IsPrefix(Dossier(q), Dossier(p)) PROVE q = p
  <2>1. Dossier(p)[2] = q
    BY <1>1, <1>5, DossierFirst
  <2>2. QED
    BY <1>1, <2>1
<1>6. QED
  BY <1>1, <1>3, <1>4, <1>5

-----------------------------------------------------------------------------
(***************************************************************************)
(* Type correctness.                                                       *)
(***************************************************************************)

\* The commands in the checkout keep it a checkout of commits.
LEMMA DetachType ==
  ASSUME TypeOK, NEW c \in Commits, Detach(c)
  PROVE  attached' \in BOOLEAN /\ head' \in Commits /\ tree' \in Commits
         /\ edits' \subseteq Edits
<1>1. Mixed \in Commits
  BY DEF Mixed, Commits, Labels
<1>2. QED
  BY <1>1 DEF Detach, CheckedOut, TypeOK

\* Steps before the lease, and those of the reconciliation and of the end.
LEMMA StepType ==
  ASSUME TypeOK, NEW p \in Promoters, PromotionStep(p) \/ Die(p)
  PROVE  TypeOK'
<1> USE DEF TypeOK, At, Goto, PcLabels
<1>1. CASE Check(p)
  BY <1>1 DEF Check, checkoutVars, logVars, callVars
<1>2. CASE CreateWorktree(p)
  BY <1>2 DEF CreateWorktree, checkoutVars, logVars, callVars
<1>3. CASE CommitDossier(p)
  BY <1>3 DEF CommitDossier, checkoutVars, logVars, callVars
<1>4. CASE Recheck(p)
  BY <1>4 DEF Recheck, checkoutVars, logVars, callVars
<1>5. CASE Lease(p)
  BY <1>5, DossierIsOwn DEF Lease, checkoutVars, logVars
<1>6. CASE LookUpMain(p)
  BY <1>6 DEF LookUpMain, Settle, checkoutVars, logVars
<1>7. CASE Rewind(p)
  <2>1. Base \in Commits
    BY DEF Base, Main!Base, Commits
  <2>2. CASE Detach(Base) /\ Goto(p, "follow") /\ UNCHANGED outcome
    BY <1>7, <2>1, <2>2, DetachType DEF Rewind, logVars
  <2>3. CASE Settle(p) /\ UNCHANGED checkoutVars
    BY <1>7, <2>3 DEF Rewind, Settle, checkoutVars, logVars
  <2>4. QED
    BY <1>7, <2>2, <2>3 DEF Rewind, GitFails
<1>8. CASE Follow(p)
  <2>1. target[p] \in Commits
    OBVIOUS
  <2>2. CASE Detach(target[p]) /\ Goto(p, "relook") /\ UNCHANGED outcome
    BY <1>8, <2>1, <2>2, DetachType DEF Follow, logVars
  <2>3. CASE Settle(p) /\ UNCHANGED checkoutVars
    BY <1>8, <2>3 DEF Follow, Settle, checkoutVars, logVars
  <2>4. QED
    BY <1>8, <2>2, <2>3 DEF Follow, GitFails
<1>9. CASE LookAgain(p)
  BY <1>9 DEF LookAgain, Settle, checkoutVars, logVars
<1>10. CASE Attach(p)
  <2>1. Base \in Commits
    BY DEF Base, Main!Base, Commits
  <2>2. QED
    BY <1>10, <2>1 DEF Attach, GitFails, Settle, checkoutVars, logVars
<1>11. CASE Verify(p)
  BY <1>11 DEF Verify, Settle, checkoutVars, logVars
<1>12. CASE CleanUp(p)
  BY <1>12 DEF CleanUp, checkoutVars, logVars, callVars
<1>13. CASE ReadEvents(p)
  BY <1>13 DEF ReadEvents, checkoutVars, callVars
<1>14. CASE WriteEvents(p)
  <2>1. <<p, IF published[p] THEN "pending" ELSE "failure">> \in Records
    BY DEF Records
  <2>2. Append(seenEvents[p], <<p, IF published[p] THEN "pending" ELSE "failure">>)
          \in Seq(Records)
    BY <2>1
  <2>3. QED
    BY <1>14, <2>2 DEF WriteEvents, checkoutVars
<1>15. CASE Die(p)
  BY <1>15 DEF Die, checkoutVars, logVars, callVars
<1>16. QED
  BY <1>1, <1>2, <1>3, <1>4, <1>5, <1>6, <1>7, <1>8, <1>9, <1>10, <1>11, <1>12,
     <1>13, <1>14, <1>15 DEF PromotionStep

\* What everybody else does moves main by one commit, or edits.
LEMMA OthersStep ==
  ASSUME TypeOK,
         \/ \E n \in Others : MoveMain(n) \/ CommitHere(n)
         \/ \E e \in Edits : EditHere(e)
         \/ UNCHANGED vars
  PROVE  /\ TypeOK'
         /\ UNCHANGED <<pc, published, outcome>>
         /\ main' = main \/ \E n \in Others : main' = Append(main, n)
<1>1. ASSUME NEW n \in Others, MoveMain(n) \/ CommitHere(n)
      PROVE  TypeOK' /\ UNCHANGED <<pc, published, outcome>> /\ main' = Append(main, n)
  <2>1. Append(main, n) \in Commits
    BY DEF TypeOK, Commits, Labels
  <2>2. QED
    BY <1>1, <2>1 DEF MoveMain, CommitHere, TypeOK, checkoutVars, logVars, callVars
<1>2. ASSUME NEW e \in Edits, EditHere(e)
      PROVE  TypeOK' /\ UNCHANGED <<pc, published, outcome, main>>
  BY <1>2 DEF EditHere, TypeOK, logVars, callVars
<1>3. CASE UNCHANGED vars
  BY <1>3 DEF vars, TypeOK, checkoutVars, logVars, callVars
<1>4. QED
  BY <1>1, <1>2, <1>3

-----------------------------------------------------------------------------
(***************************************************************************)
(* What a step of a promotion does to main and to what it reports.         *)
(***************************************************************************)

\* Main moves only from the baseline, to the dossier of the call that leases; the
\* call becomes published in that step or not at all.
LEMMA MainStep ==
  ASSUME TypeOK, NEW p \in Promoters, PromotionStep(p) \/ Die(p)
  PROVE  /\ \A q \in Promoters \ {p} :
              pc'[q] = pc[q] /\ published'[q] = published[q] /\ outcome'[q] = outcome[q]
         /\ \/ main' = main /\ published' = published
            \/ Lease(p) /\ main = Base /\ main' = Dossier(p)
<1> USE DEF At, Goto
<1>1. CASE Lease(p)
  BY <1>1 DEF Lease, TypeOK
<1>2. CASE ~Lease(p)
  <2>1. main' = main /\ published' = published
    BY <1>2
       DEF PromotionStep, Check, CreateWorktree, CommitDossier, Recheck, LookUpMain,
           Rewind, Follow, LookAgain, Attach, Verify, CleanUp, ReadEvents, WriteEvents,
           Die, callVars
  <2>2. \A q \in Promoters \ {p} : pc'[q] = pc[q]
    BY <1>2
       DEF PromotionStep, Check, CreateWorktree, CommitDossier, Recheck, LookUpMain,
           Rewind, Follow, LookAgain, Attach, Verify, CleanUp, ReadEvents, WriteEvents,
           Die, Settle, GitFails, TypeOK
  <2>3. \A q \in Promoters \ {p} : outcome'[q] = outcome[q]
    BY <1>2
       DEF PromotionStep, Check, CreateWorktree, CommitDossier, Recheck, LookUpMain,
           Rewind, Follow, LookAgain, Attach, Verify, CleanUp, ReadEvents, WriteEvents,
           Die, Settle, GitFails, TypeOK, callVars
  <2>4. QED
    BY <2>1, <2>2, <2>3
<1>3. QED
  BY <1>1, <1>2

\* Main never loses a dossier.
LEMMA HoldsStays ==
  ASSUME TypeOK, [Next]_vars, NEW q \in Promoters, Holds(q)
  PROVE  Holds(q)'
<1>1. ASSUME NEW p \in Promoters, PromotionStep(p) \/ Die(p) PROVE Holds(q)'
  <2>1. main # Base
    BY DossierIsOwn DEF Holds
  <2>2. QED
    BY <1>1, <2>1, MainStep DEF Holds
<1>2. CASE \/ \E n \in Others : MoveMain(n) \/ CommitHere(n)
           \/ \E e \in Edits : EditHere(e)
           \/ UNCHANGED vars
  <2>1. CASE main' = main
    BY <2>1 DEF Holds
  <2>2. ASSUME NEW n \in Others, main' = Append(main, n) PROVE Holds(q)'
    BY <2>2, DossierIsOwn DEF Holds, TypeOK
  <2>3. QED
    BY <1>2, <2>1, <2>2, OthersStep
<1>3. QED
  BY <1>1, <1>2 DEF Next

-----------------------------------------------------------------------------
(***************************************************************************)
(* The invariant is inductive.                                             *)
(***************************************************************************)

\* Every reachable state satisfies the invariant, whatever may fail.
THEOREM Invariance == Spec => []IInv
<1>1. Init => IInv
  <2> SUFFICES ASSUME Init PROVE IInv
    OBVIOUS
  <2>1. Base \in Commits
    BY DEF Base, Main!Base, Commits
  <2>2. TypeOK
    BY <2>1 DEF Init, TypeOK, PcLabels
  <2>3. QED
    BY <2>2 DEF Init, IInv, Cleared, Leasing, PublishedHolds, OutcomeFollows
<1>2. ASSUME IInv, [Next]_vars PROVE IInv'
  <2>1. ASSUME NEW p \in Promoters, PromotionStep(p) \/ Die(p) PROVE IInv'
    <3>1. TypeOK'
      BY <1>2, <2>1, StepType DEF IInv
    <3>2. Cleared'
      <4>1. pc'[p] \in Leasing => CandidateOf[p] \in Authorized
        BY <1>2, <2>1
           DEF IInv, TypeOK, Cleared, Leasing, At, Goto, PromotionStep, Check,
               CreateWorktree, CommitDossier, Recheck, Lease, LookUpMain, Rewind, Follow,
               LookAgain, Attach, Verify, CleanUp, ReadEvents, WriteEvents, Die, Settle,
               GitFails
      <4>2. QED
        BY <1>2, <2>1, <4>1, MainStep DEF IInv, Cleared
    <3>3. PublishedHolds'
      <4>1. ASSUME NEW q \in Promoters, published'[q] PROVE Holds(q)'
        <5>1. CASE published[q]
          BY <1>2, <5>1, HoldsStays DEF IInv, PublishedHolds
        <5>2. CASE ~published[q]
          <6>1. Lease(p) /\ main' = Dossier(p)
            BY <1>2, <2>1, <4>1, <5>2, MainStep DEF IInv
          <6>2. q = p
            BY <1>2, <4>1, <5>2, <6>1 DEF Lease, IInv, TypeOK
          <6>3. QED
            BY <6>1, <6>2, DossierIsOwn DEF Holds
        <5>3. QED
          BY <5>1, <5>2
      <4>2. /\ published'[p] => pc'[p] \notin Leasing \cup {"check"}
            /\ pc'[p] = "verify" => published'[p]
        BY <1>2, <2>1
           DEF IInv, TypeOK, PublishedHolds, Leasing, At, Goto, PromotionStep, Check,
               CreateWorktree, CommitDossier, Recheck, Lease, LookUpMain, Rewind, Follow,
               LookAgain, Attach, Verify, CleanUp, ReadEvents, WriteEvents, Die, Settle,
               GitFails, callVars
      <4>3. QED
        BY <1>2, <2>1, <4>1, <4>2, MainStep DEF IInv, PublishedHolds
    <3>4. OutcomeFollows'
      <4>1. /\ outcome'[p] \in {"complete", "pending"} => published'[p]
            /\ outcome'[p] = "failed" => ~published'[p] /\ pc'[p] = "done"
        <5> USE <1>2 DEF IInv, TypeOK, OutcomeFollows, PublishedHolds, Leasing, At, Goto
        <5>1. CASE \/ Check(p) \/ CreateWorktree(p) \/ CommitDossier(p) \/ Recheck(p)
                   \/ Lease(p) \/ CleanUp(p) \/ ReadEvents(p) \/ Die(p)
          BY <5>1
             DEF Check, CreateWorktree, CommitDossier, Recheck, Lease, CleanUp,
                 ReadEvents, Die, callVars
        <5>2. CASE \/ LookUpMain(p) \/ Rewind(p) \/ Follow(p) \/ LookAgain(p) \/ Attach(p)
          BY <5>2 DEF LookUpMain, Rewind, Follow, LookAgain, Attach, Settle, GitFails
        <5>3. CASE Verify(p)
          BY <5>3 DEF Verify, Settle
        <5>4. CASE WriteEvents(p)
          BY <5>4 DEF WriteEvents
        <5>5. QED
          BY <2>1, <5>1, <5>2, <5>3, <5>4 DEF PromotionStep
      <4>2. QED
        BY <1>2, <2>1, <4>1, MainStep DEF IInv, OutcomeFollows
    <3>5. QED
      BY <3>1, <3>2, <3>3, <3>4 DEF IInv
  <2>2. CASE \/ \E n \in Others : MoveMain(n) \/ CommitHere(n)
             \/ \E e \in Edits : EditHere(e)
             \/ UNCHANGED vars
    <3>1. TypeOK' /\ UNCHANGED <<pc, published, outcome>>
      BY <1>2, <2>2, OthersStep DEF IInv
    <3>2. PublishedHolds'
      BY <1>2, <3>1, HoldsStays DEF IInv, PublishedHolds
    <3>3. QED
      BY <1>2, <3>1, <3>2 DEF IInv, Cleared, OutcomeFollows
  <2>3. QED
    BY <1>2, <2>1, <2>2 DEF Next
<1>3. QED
  BY <1>1, <1>2, PTL DEF Spec

-----------------------------------------------------------------------------
(***************************************************************************)
(* Theorems.                                                               *)
(***************************************************************************)

\* What a promotion reports is what happened to main, unless an update of the
\* reference takes effect and fails.
THEOREM ReportsAreHonest ==
  ASSUME "lateRef" \notin Faults PROVE Spec => []OutcomeIsHonest
<1>1. Init => HoldsPublished
  BY DossierIsOwn DEF Init, HoldsPublished, Holds
<1>2. IInv /\ HoldsPublished /\ [Next]_vars => HoldsPublished'
  <2> SUFFICES ASSUME IInv, HoldsPublished, [Next]_vars, NEW q \in Promoters, Holds(q)'
               PROVE  published'[q]
    BY DEF HoldsPublished
  <2>1. ASSUME NEW p \in Promoters, PromotionStep(p) \/ Die(p) PROVE published'[q]
    <3>1. CASE main' = main /\ published' = published
      BY <3>1 DEF HoldsPublished, Holds
    <3>2. CASE Lease(p) /\ main = Base /\ main' = Dossier(p)
      <4>1. q = p
        BY <3>2, DossierIsOwn DEF Holds
      <4>2. main' # main
        BY <3>2, DossierIsOwn DEF Holds
      <4>3. QED
        BY <3>2, <4>1, <4>2 DEF Lease, IInv, TypeOK
    <3>3. QED
      BY <2>1, <3>1, <3>2, MainStep DEF IInv
  <2>2. CASE \/ \E n \in Others : MoveMain(n) \/ CommitHere(n)
             \/ \E e \in Edits : EditHere(e)
             \/ UNCHANGED vars
    <3>1. CASE main' = main /\ published' = published
      BY <3>1 DEF HoldsPublished, Holds
    <3>2. ASSUME NEW n \in Others, main' = Append(main, n), published' = published
          PROVE  published'[q]
      BY <3>2, DossierIsOwn DEF IInv, TypeOK, HoldsPublished, Holds
    <3>3. QED
      BY <2>2, <3>1, <3>2, OthersStep DEF IInv
  <2>3. QED
    BY <2>1, <2>2 DEF Next
<1>3. IInv /\ HoldsPublished => OutcomeIsHonest
  BY DEF IInv, HoldsPublished, PublishedHolds, OutcomeFollows, Holds, OutcomeIsHonest
<1>4. QED
  BY <1>1, <1>2, <1>3, Invariance, PTL DEF Spec

\* Success and a pending reconciliation are honest in any case: the dossier is
\* in main and stays there.
THEOREM SuccessIsTrue ==
  Spec => []\A p \in Promoters : outcome[p] \in {"complete", "pending"} => Holds(p)
<1>1. IInv => \A p \in Promoters : outcome[p] \in {"complete", "pending"} => Holds(p)
  BY DEF IInv, OutcomeFollows, PublishedHolds
<1>2. QED
  BY <1>1, Invariance, PTL

\* No command of a promotion writes over an edit that nobody has committed.
THEOREM EditsKept == Spec => EditsSurvive
<1>1. TypeOK /\ [Next]_vars => edits \subseteq edits' \/ main' # main
  <2> SUFFICES ASSUME TypeOK, [Next]_vars PROVE edits \subseteq edits' \/ main' # main
    OBVIOUS
  <2>1. ASSUME NEW c, Detach(c) PROVE edits \subseteq edits'
    BY <2>1 DEF Detach, CanCheckout
  <2>2. ASSUME NEW p \in Promoters, PromotionStep(p) \/ Die(p) PROVE edits \subseteq edits'
    BY <2>1, <2>2
       DEF PromotionStep, Check, CreateWorktree, CommitDossier, Recheck, Lease,
           LookUpMain, Rewind, Follow, LookAgain, Attach, Verify, CleanUp, ReadEvents,
           WriteEvents, Die, Settle, GitFails, checkoutVars
  <2>3. ASSUME NEW n \in Others, MoveMain(n) \/ CommitHere(n) PROVE main' # main
    <3>1. main' = Append(main, n) /\ Len(Append(main, n)) = Len(main) + 1
      BY <2>3 DEF MoveMain, CommitHere, TypeOK, Commits
    <3>2. Len(main) \in Nat
      BY DEF TypeOK, Commits
    <3>3. QED
      BY <3>1, <3>2
  <2>4. ASSUME NEW e \in Edits, EditHere(e) PROVE edits \subseteq edits'
    BY <2>4 DEF EditHere
  <2>5. CASE UNCHANGED vars
    BY <2>5 DEF vars, checkoutVars
  <2>6. QED
    BY <2>2, <2>3, <2>4, <2>5 DEF Next
<1>2. IInv => TypeOK
  BY DEF IInv
<1>3. QED
  BY <1>1, <1>2, Invariance, PTL DEF Spec, EditsSurvive

\* As everybody else sees main, it only grows, and a candidate enters it with its
\* dossier, in one step, on the approved baseline, and only if it was authorized:
\* every step is a step of ProtectedMain or leaves main alone.
THEOREM MainRefinement == Spec => ProtectsMain
<1>1. Init => Main!Init
  BY DEF Init, Main!Init, Base
<1>2. IInv /\ [Next]_vars => [Main!Publish \/ Main!Commit]_main
  <2> SUFFICES ASSUME IInv, [Next]_vars PROVE [Main!Publish \/ Main!Commit]_main
    OBVIOUS
  <2>1. ASSUME NEW p \in Promoters, PromotionStep(p) \/ Die(p)
        PROVE  main' = main \/ Main!Publish
    <3>1. CASE Lease(p) /\ main = Base /\ main' = Dossier(p)
      <4>1. CandidateOf[p] \in Authorized
        BY <3>1 DEF IInv, Cleared, Leasing, Lease, At
      <4>2. QED
        BY <3>1, <4>1 DEF Main!Publish, Base, Dossier
    <3>2. QED
      BY <2>1, <3>1, MainStep DEF IInv
  <2>2. CASE \/ \E n \in Others : MoveMain(n) \/ CommitHere(n)
             \/ \E e \in Edits : EditHere(e)
             \/ UNCHANGED vars
    BY <2>2, OthersStep DEF IInv, Main!Commit
  <2>3. QED
    BY <2>1, <2>2 DEF Next
<1>3. QED
  BY <1>1, <1>2, Invariance, PTL DEF Spec, ProtectsMain, Main!Spec

=============================================================================
