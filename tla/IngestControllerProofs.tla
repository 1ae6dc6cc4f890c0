------------------------- MODULE IngestControllerProofs -------------------------
(***************************************************************************)
(* Theorems about IngestController, for any processes, deaths, faults and  *)
(* bounds: the state never claims what the files do not prove, only what   *)
(* humans confirmed in the process is published, what was promised stays,  *)
(* and a request owes what Intake says to what was supplied.               *)
(***************************************************************************)
EXTENDS SuppliedRequests, FiniteSetTheorems, SequenceTheorems, WellFoundedInduction, TLAPS

Outcomes == {"running", "generated", "validated", "failed"}
Provenances == [signer : Procs, subject : Approvals]

TypeOK ==
  /\ status \in ChangeStates \cup {NoState}
  /\ checkpoint \in Checkpoints
  /\ attempt \in Attempts
  /\ owner \in Procs \cup {None}
  /\ gone \subseteq Procs
  /\ main \in Commits
  /\ request \in BOOLEAN
  /\ plan \in Commits \cup {None}
  /\ approval \in [Gates -> Approvals \cup {None}]
  /\ provenance \in [Gates -> Provenances \cup {None}]
  /\ attempts \in [Attempts -> Outcomes \cup {None}]
  /\ directories \subseteq Attempts
  /\ sealed \in [Attempts -> Commits \cup {None}]
  /\ candidate \in Attempts \cup {None}
  /\ pc \in [Procs -> Labels]
  /\ confirmed \subseteq Procs \X Gates \X Approvals
  /\ disrupted \in BOOLEAN

\* Who is in an operation owns the change and lives.
Locked == \A p \in Procs : pc[p] # "idle" => owner = p /\ p \notin gone

\* Where the change can return to, and what that promises.
Ladder ==
  /\ status \in Checkpoints => checkpoint = status
  /\ status = NoState => checkpoint = "received"
  /\ checkpoint \in {"received", "normalized"} => approval[1] = None
  /\ checkpoint = "gate1_approved" => Gate1Holds(plan)

\* A sealed candidate has directories, so that no attempt can make them.
Seals == \A k \in Attempts : sealed[k] # None => k \in directories

\* A process signs only what was confirmed in it, and it is confirmed in one form.
Signed ==
  /\ \A g \in Gates : provenance[g] # None =>
       <<provenance[g].signer, g, provenance[g].subject>> \in confirmed
  /\ \A p \in Procs, g \in Gates, a \in Approvals : <<p, g, a>> \in confirmed =>
       a.env = EnvOf[p] /\ (g = 1 => a.attempt = None)

Gate2Proved == Gate2Holds(plan) /\ approval[1].env = approval[2].env

ConfirmedBy(p) ==
  /\ <<p, 1, [env |-> EnvOf[p], baseline |-> plan, attempt |-> None]>> \in confirmed
  /\ <<p, 2, [env |-> EnvOf[p], baseline |-> plan, attempt |-> attempt]>> \in confirmed

Generating ==
  {"agent", "directories", "seal", "candidate", "complete", "generated", "fail", "fault"}

\* What an operation has written and checked when it has come to a label.
Course(p) ==
  /\ pc[p] = "receive" => status = NoState
  /\ pc[p] = "mark" =>
       /\ status \in {"received", "normalized", "planned", "generated", "validated"}
       /\ status = "planned" => Gate1Holds(plan)
       /\ status = "generated" => attempts[attempt] = "validated"
       /\ status = "validated" => Gate2Proved
  /\ pc[p] = "confirm1" => status = "planned"
  /\ pc[p] = "sign1" =>
       status = "planned" /\ Gate1Holds(plan) /\ <<p, 1, approval[1]>> \in confirmed
  /\ pc[p] = "confirm2" => status = "validated" /\ approval[1].env = EnvOf[p]
  /\ pc[p] = "sign2" =>
       status = "validated" /\ Gate2Proved /\ <<p, 2, approval[2]>> \in confirmed
  /\ pc[p] \in Generating => status = "gate1_approved"
  /\ pc[p] = "seal" => attempt \in directories /\ sealed[attempt] = None
  /\ pc[p] \in {"candidate", "complete", "generated"} => sealed[attempt] = plan
  /\ pc[p] \in {"complete", "generated"} => candidate = attempt
  /\ pc[p] = "preview" => ConfirmedBy(p)

IInv ==
  /\ TypeOK /\ Locked /\ Ladder /\ Seals /\ Signed /\ StateIsProved
  /\ \A p \in Procs : Course(p)

-----------------------------------------------------------------------------
\* A step that p takes in an operation it goes on with or begins.
Moves(p, l) ==
  \/ pc[p] # "idle" /\ Goto(p, l) /\ UNCHANGED lockVars
  \/ Enter(p, l)

\* Nobody else is in an operation, before and after.
LEMMA Moving ==
  ASSUME TypeOK, Locked, NEW p \in Procs, NEW l \in Labels, Moves(p, l)
  PROVE  /\ pc' \in [Procs -> Labels] /\ pc'[p] = l
         /\ \A q \in Procs \ {p} : pc'[q] = "idle"
         /\ Locked' /\ owner' \in Procs \cup {None} /\ gone' = gone
<1>. USE ControllerConstants
<1>1. CASE pc[p] # "idle" /\ Goto(p, l) /\ UNCHANGED lockVars
  <2>1. owner = p /\ p \notin gone
    BY <1>1 DEF Locked
  <2>2. \A q \in Procs \ {p} : pc[q] = "idle"
    BY <2>1 DEF TypeOK, Locked
  <2>. QED  BY <1>1, <2>1, <2>2 DEF TypeOK, Locked, Goto, lockVars
<1>2. CASE Enter(p, l)
  <2>1. owner = None /\ p \notin gone /\ owner' = p /\ gone' = gone
    BY <1>2 DEF Enter, Lock!Take
  <2>2. \A q \in Procs \ {p} : pc[q] = "idle"
    BY <2>1 DEF TypeOK, Locked
  <2>. QED  BY <1>2, <2>1, <2>2 DEF TypeOK, Locked, Enter, Goto
<1>. QED  BY <1>1, <1>2 DEF Moves

\* What is left to show of a step of p: nothing is promised of idle processes.
LEMMA Whole ==
  ASSUME IInv, NEW p \in Procs, NEW l \in Labels, Moves(p, l),
         TypeOK', Ladder', Seals', Signed', StateIsProved', Course(p)'
  PROVE  IInv'
<1>1. Locked' /\ \A q \in Procs \ {p} : pc'[q] = "idle"
  BY Moving DEF IInv
<1>2. ASSUME NEW q \in Procs PROVE Course(q)'
  <2>1. CASE q = p
    BY <2>1
  <2>2. CASE q # p
    <3>1. pc'[q] = "idle"
      BY <1>1, <2>2
    <3>. QED  BY <3>1 DEF Course, Generating
  <2>. QED  BY <2>1, <2>2
<1>. QED  BY <1>1, <1>2 DEF IInv

\* A step that changes neither the change nor what it rests on.
LEMMA Kept ==
  ASSUME IInv, UNCHANGED <<lifeVars, plan, gateVars, attemptVars, confirmed>>,
         owner' \in Procs \cup {None}, gone' \subseteq Procs, main' \in Commits,
         request' \in BOOLEAN, pc' \in [Procs -> Labels], disrupted' \in BOOLEAN
  PROVE  TypeOK' /\ Ladder' /\ Seals' /\ Signed' /\ StateIsProved'
<1>. USE DEF IInv, lifeVars, gateVars, attemptVars
<1>1. TypeOK'
  BY DEF TypeOK
<1>2. Ladder'
  BY DEF Ladder, Gate1Holds
<1>3. Seals' /\ Signed'
  BY DEF Seals, Signed
<1>4. StateIsProved'
  BY DEF StateIsProved, Gate1Holds, Gate2Holds
<1>. QED  BY <1>1, <1>2, <1>3, <1>4

-----------------------------------------------------------------------------
\* The invariant: what an operation has written and checked when it comes to a
\* label, and what every checkpoint a change can return to promises.
THEOREM Invariance == Spec => []IInv
<1>1. Init => IInv
  <2>. SUFFICES ASSUME Init PROVE IInv
    OBVIOUS
  <2>. USE DEF Init, Life!Init, Lock!Init, NoState, Life!NoState
  <2>1. 1 \in Commits /\ 1 \in Attempts
    BY ControllerConstants DEF Commits, Attempts
  <2>2. TypeOK
    BY <2>1 DEF TypeOK, Checkpoints, Labels
  <2>3. Locked /\ Ladder /\ Seals /\ Signed
    BY DEF Locked, Ladder, Seals, Signed, Checkpoints, Gates
  <2>4. StateIsProved
    BY DEF StateIsProved
  <2>5. \A p \in Procs : Course(p)
    BY DEF Course, Generating
  <2>. QED  BY <2>2, <2>3, <2>4, <2>5 DEF IInv
<1>2. IInv /\ [Next]_vars => IInv'
  <2>. SUFFICES ASSUME IInv, [Next]_vars PROVE IInv'
    OBVIOUS
  <2>. USE DEF historyVars
  \* A step that moves nothing but the operation.
  <2>a. ASSUME NEW p \in Procs, NEW l \in Labels, Moves(p, l),
               UNCHANGED <<lifeVars, main, fileVars, historyVars>>, Course(p)'
        PROVE  IInv'
    <3>1. /\ pc' \in [Procs -> Labels] /\ owner' \in Procs \cup {None}
          /\ gone' \subseteq Procs
      BY <2>a, Moving DEF IInv, TypeOK
    <3>2. TypeOK' /\ Ladder' /\ Seals' /\ Signed' /\ StateIsProved'
      BY <2>a, <3>1, Kept DEF IInv, TypeOK, fileVars
    <3>. QED  BY <2>a, <3>2, Whole
  \* An operation ends with an error, or is to give the change back.
  <2>b. ASSUME NEW p \in Procs, pc[p] # "idle", NEW l \in {"release", "failed"},
               Goto(p, l), UNCHANGED <<lifeVars, lockVars, main, fileVars, historyVars>>
        PROVE  IInv'
    <3>1. l \in Labels /\ Moves(p, l)
      BY <2>b DEF Labels, Moves
    <3>2. pc'[p] = l
      BY <3>1, Moving DEF IInv
    <3>3. Course(p)'
      BY <3>2 DEF Course, Generating
    <3>. QED  BY <2>a, <2>b, <3>1, <3>3
  \* A step of generate fails and has written nothing.
  <2>c. ASSUME NEW p \in Procs, pc[p] \in Generating, NEW kind, Throws(kind, p),
               UNCHANGED <<lifeVars, lockVars, main, fileVars, historyVars>>
        PROVE  IInv'
    <3>1. PICK l \in {"fail", "fault"} : Goto(p, l)
      BY <2>c DEF Throws
    <3>2. l \in Labels /\ Moves(p, l)
      BY <2>c, <3>1 DEF Labels, Moves, Generating
    <3>3. pc'[p] = l
      BY <3>2, Moving DEF IInv
    <3>4. Course(p)'
      BY <2>c, <3>3 DEF IInv, Course, Generating, lifeVars
    <3>. QED  BY <2>a, <2>c, <3>2, <3>4
  \* A step that moves the change under the operation.
  <2>d. ASSUME NEW p \in Procs, NEW l \in Labels, pc[p] # "idle", Goto(p, l),
               UNCHANGED <<lockVars, main, fileVars, historyVars>>,
               status' \in ChangeStates, checkpoint' \in Checkpoints,
               UNCHANGED attempt, Ladder', StateIsProved', Course(p)'
        PROVE  IInv'
    <3>1. Moves(p, l)
      BY <2>d DEF Moves
    <3>2. TypeOK'
      BY <2>d, <3>1, Moving
      DEF IInv, TypeOK, fileVars, gateVars, attemptVars, lockVars
    <3>3. Seals' /\ Signed'
      BY <2>d DEF IInv, Seals, Signed, fileVars, gateVars, attemptVars
    <3>. QED  BY <2>d, <3>1, <3>2, <3>3, Whole
  <2>1. ASSUME NEW p \in Procs, Receive(p) PROVE IInv'
    <3>1. "receive" \in Labels /\ Moves(p, "receive")
      BY <2>1 DEF Labels, Moves, Receive
    <3>2. /\ pc' \in [Procs -> Labels] /\ pc'[p] = "receive"
          /\ owner' \in Procs \cup {None} /\ gone' \subseteq Procs
      BY <3>1, Moving DEF IInv, TypeOK
    <3>3. TypeOK' /\ Ladder' /\ Seals' /\ Signed' /\ StateIsProved'
      BY <2>1, <3>2, Kept DEF IInv, TypeOK, Receive
    <3>4. Course(p)'
      BY <2>1, <3>2 DEF Receive, Course, Generating, lifeVars
    <3>. QED  BY <3>1, <3>3, <3>4, Whole
  <2>2. ASSUME NEW p \in Procs, MarkReceived(p) PROVE IInv'
    <3>1. CASE Life!Receive /\ Goto(p, "mark")
      <4>1. /\ status = NoState /\ status' = "received"
            /\ UNCHANGED <<checkpoint, attempt, plan, approval, attempts, sealed,
                           candidate>>
        BY <2>2, <3>1
        DEF MarkReceived, Life!Receive, fileVars, gateVars, attemptVars, NoState,
            Life!NoState
      <4>2. checkpoint = "received" /\ approval[1] = None
        BY <4>1 DEF IInv, Ladder
      <4>3. "mark" \in Labels /\ pc[p] # "idle" /\ pc'[p] = "mark"
        BY <2>2, <3>1 DEF Labels, MarkReceived, At, IInv, TypeOK, Goto
      <4>4. Ladder' /\ StateIsProved' /\ Course(p)'
        BY <4>1, <4>2, <4>3
        DEF Ladder, StateIsProved, Course, Checkpoints, NoState, Generating
      <4>5. status' \in ChangeStates /\ checkpoint' \in Checkpoints
        BY <4>1, <4>2 DEF ChangeStates, Checkpoints
      <4>. QED  BY <2>2, <2>d, <3>1, <4>1, <4>3, <4>4, <4>5 DEF MarkReceived
    <3>2. CASE Fails("write", p) /\ UNCHANGED lifeVars
      BY <2>2, <2>b, <3>2 DEF MarkReceived, Fails, At
    <3>. QED  BY <2>2, <3>1, <3>2 DEF MarkReceived
  <2>3. ASSUME NEW p \in Procs, Mark(p) PROVE IInv'
    <3>1. CASE Life!Advance /\ Goto(p, "release")
      <4>1. /\ status' = Forward[status] /\ status \in DOMAIN Forward
            /\ checkpoint' = IF status' \in Checkpoints THEN status' ELSE checkpoint
            /\ UNCHANGED <<attempt, plan, approval, attempts, sealed, candidate>>
        BY <2>3, <3>1
        DEF Mark, Life!Advance, Life!Forward, Life!Checkpoints, Forward, Checkpoints,
            fileVars, gateVars, attemptVars
      <4>2. "release" \in Labels /\ pc[p] # "idle" /\ pc'[p] = "release"
        BY <2>3, <3>1 DEF Labels, Mark, At, IInv, TypeOK, Goto
      <4>3. Course(p)'
        BY <4>2 DEF Course, Generating
      <4>4. /\ status \in {"received", "normalized", "planned", "generated", "validated"}
            /\ status = "planned" => Gate1Holds(plan)
            /\ status = "generated" => attempts[attempt] = "validated"
            /\ status = "validated" => Gate2Proved
        BY <2>3 DEF IInv, Course, Mark, At
      <4>5. /\ status = "received" => status' = "normalized"
            /\ status = "normalized" => status' = "planned"
            /\ status = "planned" => status' = "gate1_approved"
            /\ status = "generated" => status' = "validated"
            /\ status = "validated" => status' = "gate2_approved"
        BY <4>1 DEF Forward
      <4>6. Ladder'
        BY <4>1, <4>4, <4>5 DEF IInv, Ladder, Checkpoints, NoState, Gate1Holds
      <4>7. StateIsProved'
        BY <4>1, <4>4, <4>5
        DEF IInv, StateIsProved, Gate2Proved, Gate1Holds, Gate2Holds
      <4>8. status' \in ChangeStates /\ checkpoint' \in Checkpoints
        BY <4>1, <4>4, <4>5 DEF IInv, TypeOK, ChangeStates, Checkpoints
      <4>. QED  BY <2>3, <2>d, <3>1, <4>1, <4>2, <4>3, <4>6, <4>7, <4>8 DEF Mark
    <3>2. CASE Fails("write", p) /\ UNCHANGED lifeVars
      BY <2>3, <2>b, <3>2 DEF Mark, Fails, At
    <3>. QED  BY <2>3, <3>1, <3>2 DEF Mark
  \* A step of generate, which leaves change, plan and approvals alone.
  <2>e. ASSUME NEW p \in Procs, NEW l \in Labels, Moves(p, l),
               status = "gate1_approved",
               UNCHANGED <<lifeVars, main, request, plan, gateVars, historyVars>>,
               attempts' \in [Attempts -> Outcomes \cup {None}],
               directories' \subseteq Attempts, candidate' \in Attempts \cup {None},
               sealed' \in [Attempts -> Commits \cup {None}], Seals', Course(p)'
        PROVE  IInv'
    <3>. USE <2>e DEF lifeVars, gateVars, historyVars, IInv
    <3>1. TypeOK'
      BY Moving DEF TypeOK
    <3>2. Ladder' /\ Signed' /\ StateIsProved'
      BY DEF Ladder, Signed, StateIsProved, Gate1Holds
    <3>. QED  BY <3>1, <3>2, Whole
  <2>4. ASSUME NEW p \in Procs, Plan(p) PROVE IInv'
    <3>1. "mark" \in Labels /\ Moves(p, "mark")
      BY <2>4 DEF Labels, Moves, Plan
    <3>2. /\ pc' \in [Procs -> Labels] /\ pc'[p] = "mark"
          /\ owner' \in Procs \cup {None} /\ gone' \subseteq Procs
      BY <3>1, Moving DEF IInv, TypeOK
    <3>3. TypeOK'
      BY <2>4, <3>2
      DEF IInv, TypeOK, Plan, lifeVars, gateVars, attemptVars, historyVars
    <3>4. /\ status = "normalized" /\ checkpoint = "normalized"
          /\ UNCHANGED <<lifeVars, gateVars, attemptVars, confirmed>>
      BY <2>4 DEF IInv, Ladder, Plan, Checkpoints
    <3>5. Ladder' /\ Seals' /\ Signed' /\ StateIsProved' /\ Course(p)'
      BY <3>2, <3>4
      DEF IInv, Ladder, Seals, Signed, StateIsProved, Course, Generating, NoState,
          lifeVars, gateVars, attemptVars
    <3>. QED  BY <3>1, <3>3, <3>5, Whole
  <2>5. ASSUME NEW p \in Procs, AskGate1(p) PROVE IInv'
    <3>1. "confirm1" \in Labels /\ Moves(p, "confirm1")
      BY <2>5 DEF Labels, Moves, AskGate1
    <3>2. pc'[p] = "confirm1"
      BY <3>1, Moving DEF IInv
    <3>3. Course(p)'
      BY <2>5, <3>2 DEF AskGate1, Course, Generating, lifeVars
    <3>. QED  BY <2>5, <2>a, <3>1, <3>3 DEF AskGate1
  <2>6. ASSUME NEW p \in Procs, AskGate2(p) PROVE IInv'
    <3>1. "confirm2" \in Labels /\ Moves(p, "confirm2")
      BY <2>6 DEF Labels, Moves, AskGate2
    <3>2. pc'[p] = "confirm2"
      BY <3>1, Moving DEF IInv
    <3>3. Course(p)'
      BY <2>6, <3>2 DEF AskGate2, Course, Generating, lifeVars, fileVars, gateVars
    <3>. QED  BY <2>6, <2>a, <3>1, <3>3 DEF AskGate2
  <2>7. ASSUME NEW p \in Procs, NEW g \in Gates, Confirm(p, g) PROVE IInv'
    <3>1. CASE Goto(p, "release") /\ UNCHANGED <<approval, historyVars>>
      BY <2>7, <2>b, <3>1 DEF Confirm, At, fileVars, gateVars
    <3>2. CASE /\ approval' = [approval EXCEPT ![g] = NewApproval(p, g)]
               /\ confirmed' = confirmed \cup {<<p, g, NewApproval(p, g)>>}
               /\ UNCHANGED disrupted
               /\ Goto(p, IF g = 1 THEN "sign1" ELSE "sign2")
      <4>. DEFINE l == IF g = 1 THEN "sign1" ELSE "sign2"
      <4>1. /\ l \in Labels /\ Moves(p, l)
            /\ pc[p] = IF g = 1 THEN "confirm1" ELSE "confirm2"
        BY <2>7, <3>2 DEF Labels, Moves, Confirm, At
      <4>2. /\ pc' \in [Procs -> Labels] /\ pc'[p] = l
            /\ owner' \in Procs \cup {None} /\ gone' \subseteq Procs
        BY <4>1, Moving DEF IInv, TypeOK
      <4>3. UNCHANGED <<lifeVars, main, request, plan, provenance, attemptVars,
                        disrupted>>
        BY <2>7, <3>2 DEF Confirm
      <4>4. /\ NewApproval(p, g) \in Approvals /\ NewApproval(p, g).env = EnvOf[p]
            /\ g = 1 => NewApproval(p, g).attempt = None
        BY ControllerConstants DEF IInv, TypeOK, NewApproval, Approvals
      <4>5. TypeOK'
        BY <3>2, <4>2, <4>3, <4>4
        DEF IInv, TypeOK, lifeVars, attemptVars, Gates
      <4>6. approval'[g] = NewApproval(p, g) /\ approval'[g] # None
        BY <3>2, <4>4, ControllerConstants DEF IInv, TypeOK
      <4>7. CASE g = 1
        <5>1. status = "planned" /\ checkpoint = "planned"
          BY <4>1, <4>7 DEF IInv, Course, Ladder, Checkpoints
        <5>2. Gate1Holds(plan)'
          BY <4>3, <4>6, <4>7 DEF Gate1Holds, NewApproval
        <5>3. Ladder' /\ StateIsProved' /\ Seals'
          BY <4>3, <5>1
          DEF IInv, Ladder, StateIsProved, Seals, lifeVars, attemptVars, NoState
        <5>4. Signed'
          BY <3>2, <4>3, <4>4 DEF IInv, Signed
        <5>5. Course(p)'
          BY <3>2, <4>2, <4>3, <4>6, <4>7, <5>1, <5>2 DEF Course, Generating, lifeVars
        <5>. QED  BY <4>1, <4>5, <5>3, <5>4, <5>5, Whole
      <4>8. CASE g = 2
        <5>0. pc[p] = "confirm2" /\ Course(p) /\ StateIsProved
          BY <4>1, <4>8 DEF IInv
        <5>1. /\ status = "validated" /\ approval[1].env = EnvOf[p]
              /\ sealed[attempt] = plan
          BY <5>0 DEF Course, StateIsProved
        <5>2. approval'[1] = approval[1]
          BY <3>2, <4>8 DEF IInv, TypeOK, Gates
        <5>3. Gate2Proved'
          BY <4>3, <4>4, <4>6, <4>8, <5>1, <5>2
          DEF Gate2Proved, Gate2Holds, NewApproval, lifeVars, attemptVars
        <5>4. Ladder' /\ StateIsProved' /\ Seals'
          BY <4>3, <5>1, <5>2
          DEF IInv, Ladder, StateIsProved, Seals, Gate1Holds, lifeVars, attemptVars,
              NoState
        <5>5. Signed'
          BY <3>2, <4>3, <4>4 DEF IInv, Signed
        <5>6. Course(p)'
          BY <3>2, <4>2, <4>3, <4>6, <4>8, <5>1, <5>3 DEF Course, Generating, lifeVars
        <5>. QED  BY <4>1, <4>5, <5>4, <5>5, <5>6, Whole
      <4>. QED  BY <4>7, <4>8 DEF Gates
    <3>. QED  BY <2>7, <3>1, <3>2 DEF Confirm
  <2>8. ASSUME NEW p \in Procs, NEW g \in Gates, Sign(p, g) PROVE IInv'
    <3>1. CASE Fails("write", p) /\ UNCHANGED provenance
      BY <2>8, <2>b, <3>1 DEF Sign, Fails, At, fileVars, gateVars
    <3>2. CASE /\ provenance' = [provenance EXCEPT
                                   ![g] = [signer |-> p, subject |-> approval[g]]]
               /\ Goto(p, "mark")
      <4>1. /\ "mark" \in Labels /\ Moves(p, "mark")
            /\ pc[p] = IF g = 1 THEN "sign1" ELSE "sign2"
        BY <2>8, <3>2 DEF Labels, Moves, Sign, At
      <4>2. /\ pc' \in [Procs -> Labels] /\ pc'[p] = "mark"
            /\ owner' \in Procs \cup {None} /\ gone' \subseteq Procs
        BY <4>1, Moving DEF IInv, TypeOK
      <4>3. UNCHANGED <<lifeVars, main, request, plan, approval, attemptVars,
                        historyVars>>
        BY <2>8 DEF Sign
      <4>4. /\ g = 1 => status = "planned" /\ Gate1Holds(plan)
            /\ g = 2 => status = "validated" /\ Gate2Proved
            /\ <<p, g, approval[g]>> \in confirmed
        <5>. Course(p)
          BY DEF IInv
        <5>1. CASE g = 1
          BY <4>1, <5>1 DEF Course
        <5>2. CASE g = 2
          BY <4>1, <5>2 DEF Course
        <5>. QED  BY <5>1, <5>2 DEF Gates
      <4>5. approval[g] \in Approvals
        BY <4>4 DEF IInv, TypeOK, Gates
      <4>6. TypeOK'
        BY <3>2, <4>2, <4>3, <4>5
        DEF IInv, TypeOK, Provenances, lifeVars, attemptVars
      <4>7. Ladder' /\ StateIsProved' /\ Seals'
        BY <4>3
        DEF IInv, Ladder, StateIsProved, Seals, Gate1Holds, Gate2Holds, lifeVars,
            attemptVars
      <4>8. Signed'
        BY <3>2, <4>3, <4>4 DEF IInv, Signed, TypeOK
      <4>9. Course(p)'
        BY <4>2, <4>3, <4>4
        DEF Course, Generating, Gate1Holds, Gate2Proved, Gate2Holds, Gates, lifeVars,
            attemptVars
      <4>. QED  BY <4>1, <4>6, <4>7, <4>8, <4>9, Whole
    <3>. QED  BY <2>8, <3>1, <3>2 DEF Sign
  <2>9. ASSUME NEW p \in Procs, Generate(p) PROVE IInv'
    <3>1. "agent" \in Labels /\ Moves(p, "agent")
      BY <2>9 DEF Labels, Moves, Generate
    <3>2. pc'[p] = "agent"
      BY <3>1, Moving DEF IInv
    <3>3. /\ attempts' \in [Attempts -> Outcomes \cup {None}]
          /\ UNCHANGED <<directories, sealed, candidate>>
      BY <2>9 DEF IInv, TypeOK, Generate, SetAttempt, Outcomes
    <3>4. Seals' /\ Course(p)'
      BY <2>9, <3>2, <3>3 DEF IInv, Seals, Course, Generating, Generate, lifeVars
    <3>. QED  BY <2>9, <2>e, <3>1, <3>3, <3>4 DEF IInv, TypeOK, Generate
  <2>10. ASSUME NEW p \in Procs, RunAgent(p) PROVE IInv'
    <3>1. CASE Goto(p, "directories")
      <4>1. "directories" \in Labels /\ Moves(p, "directories") /\ pc[p] = "agent"
        BY <2>10, <3>1 DEF Labels, Moves, RunAgent, At
      <4>2. pc'[p] = "directories"
        BY <4>1, Moving DEF IInv
      <4>3. Course(p)'
        BY <2>10, <4>1, <4>2 DEF IInv, Course, Generating, RunAgent, lifeVars
      <4>. QED  BY <2>10, <2>a, <4>1, <4>3 DEF RunAgent
    <3>2. CASE Throws("agent", p)
      BY <2>10, <2>c, <3>2 DEF RunAgent, At, Generating
    <3>. QED  BY <2>10, <3>1, <3>2 DEF RunAgent
  <2>11. ASSUME NEW p \in Procs, MakeDirectories(p) PROVE IInv'
    <3>1. pc[p] = "directories" /\ status = "gate1_approved"
      BY <2>11 DEF IInv, MakeDirectories, At, Course, Generating
    <3>2. PICK l \in {"seal", "fail", "fault"} :
            /\ Goto(p, l)
            /\ l = "seal" => attempt \notin directories /\ attempt \in directories'
      BY <2>11 DEF MakeDirectories, Throws
    <3>3. l \in Labels /\ Moves(p, l)
      BY <2>11, <3>1, <3>2 DEF Labels, Moves, MakeDirectories
    <3>4. pc'[p] = l
      BY <3>3, Moving DEF IInv
    <3>5. /\ directories \subseteq directories' /\ directories' \subseteq Attempts
          /\ UNCHANGED <<lifeVars, main, request, plan, gateVars, historyVars,
                         attempts, sealed, candidate>>
      BY <2>11 DEF IInv, TypeOK, MakeDirectories
    <3>6. Seals'
      BY <3>5 DEF IInv, Seals
    <3>7. Course(p)'
      BY <3>1, <3>2, <3>4, <3>5
      DEF IInv, TypeOK, Seals, Course, Generating, lifeVars
    <3>. QED  BY <2>e, <3>1, <3>3, <3>5, <3>6, <3>7 DEF IInv, TypeOK
  <2>12. ASSUME NEW p \in Procs, Seal(p) PROVE IInv'
    <3>1. /\ pc[p] = "seal" /\ status = "gate1_approved" /\ attempt \in Attempts
          /\ attempt \in directories /\ sealed[attempt] = None
      BY <2>12 DEF IInv, TypeOK, Seal, At, Course, Generating
    <3>2. PICK l \in {"candidate", "fail", "fault"} :
            /\ Goto(p, l)
            /\ \/ l = "candidate" /\ directories' = directories
                  /\ sealed' = [sealed EXCEPT ![attempt] = plan]
               \/ l # "candidate" /\ directories' = directories \ {attempt}
                  /\ sealed' = [sealed EXCEPT ![attempt] = None]
      BY <2>12 DEF Seal, Throws
    <3>3. l \in Labels /\ Moves(p, l)
      BY <2>12, <3>1, <3>2 DEF Labels, Moves, Seal
    <3>4. pc'[p] = l
      BY <3>3, Moving DEF IInv
    <3>5. UNCHANGED <<lifeVars, main, request, plan, gateVars, historyVars,
                      attempts, candidate>>
      BY <2>12 DEF Seal
    <3>6. /\ sealed' \in [Attempts -> Commits \cup {None}]
          /\ directories' \subseteq Attempts
      BY <3>1, <3>2 DEF IInv, TypeOK
    <3>7. Seals'
      BY <3>1, <3>2 DEF IInv, TypeOK, Seals
    <3>8. Course(p)'
      BY <3>1, <3>2, <3>4, <3>5 DEF IInv, TypeOK, Course, Generating, lifeVars
    <3>. QED  BY <2>e, <3>1, <3>3, <3>5, <3>6, <3>7, <3>8 DEF IInv, TypeOK
  <2>13. ASSUME NEW p \in Procs, WriteCandidate(p) PROVE IInv'
    <3>1. pc[p] = "candidate" /\ status = "gate1_approved" /\ sealed[attempt] = plan
      BY <2>13 DEF IInv, WriteCandidate, At, Course, Generating
    <3>2. CASE candidate' = attempt /\ Goto(p, "complete")
      <4>1. "complete" \in Labels /\ Moves(p, "complete")
        BY <2>13, <3>1, <3>2 DEF Labels, Moves, WriteCandidate
      <4>2. pc'[p] = "complete"
        BY <4>1, Moving DEF IInv
      <4>3. Seals' /\ Course(p)'
        BY <2>13, <3>1, <3>2, <4>2
        DEF IInv, Seals, Course, Generating, WriteCandidate, lifeVars
      <4>. QED  BY <2>13, <2>e, <3>1, <3>2, <4>1, <4>3 DEF IInv, TypeOK, WriteCandidate
    <3>3. CASE Throws("write", p) /\ UNCHANGED candidate
      BY <2>13, <2>c, <3>1, <3>3
      DEF WriteCandidate, Generating, fileVars, attemptVars, gateVars
    <3>. QED  BY <2>13, <3>2, <3>3 DEF WriteCandidate
  <2>14. ASSUME NEW p \in Procs, CompleteAttempt(p) PROVE IInv'
    <3>1. /\ pc[p] = "complete" /\ status = "gate1_approved"
          /\ sealed[attempt] = plan /\ candidate = attempt
      BY <2>14 DEF IInv, CompleteAttempt, At, Course, Generating
    <3>2. CASE SetAttempt("generated") /\ Goto(p, "generated")
      <4>1. "generated" \in Labels /\ Moves(p, "generated")
        BY <2>14, <3>1, <3>2 DEF Labels, Moves, CompleteAttempt
      <4>2. pc'[p] = "generated"
        BY <4>1, Moving DEF IInv
      <4>3. Seals' /\ Course(p)' /\ attempts' \in [Attempts -> Outcomes \cup {None}]
        BY <2>14, <3>1, <3>2, <4>2
        DEF IInv, TypeOK, Seals, Course, Generating, CompleteAttempt, SetAttempt,
            Outcomes, lifeVars
      <4>. QED  BY <2>14, <2>e, <3>1, <4>1, <4>3 DEF IInv, TypeOK, CompleteAttempt
    <3>3. CASE Throws("write", p) /\ UNCHANGED attempts
      BY <2>14, <2>c, <3>1, <3>3
      DEF CompleteAttempt, Generating, fileVars, attemptVars, gateVars
    <3>. QED  BY <2>14, <3>2, <3>3 DEF CompleteAttempt
  <2>15. ASSUME NEW p \in Procs, MarkGenerated(p) PROVE IInv'
    <3>1. /\ pc[p] = "generated" /\ status = "gate1_approved" /\ Gate1Holds(plan)
          /\ sealed[attempt] = plan /\ candidate = attempt
      BY <2>15 DEF IInv, MarkGenerated, At, Course, Generating, StateIsProved
    <3>2. CASE Life!Advance /\ Goto(p, "release")
      <4>1. /\ status' = "generated" /\ checkpoint' = checkpoint
            /\ UNCHANGED <<attempt, plan, approval, attempts, sealed, candidate>>
        BY <2>15, <3>1, <3>2
        DEF MarkGenerated, Life!Advance, Life!Forward, Life!Checkpoints, fileVars,
            gateVars, attemptVars
      <4>2. "release" \in Labels /\ pc[p] # "idle" /\ pc'[p] = "release"
        BY <3>1, <3>2 DEF Labels, IInv, TypeOK, Goto
      <4>3. Ladder' /\ StateIsProved' /\ Course(p)'
        BY <3>1, <4>1, <4>2
        DEF IInv, Ladder, StateIsProved, Gate1Holds, Course, Generating, Checkpoints,
            NoState
      <4>4. status' \in ChangeStates /\ checkpoint' \in Checkpoints
        BY <4>1 DEF IInv, TypeOK, ChangeStates
      <4>. QED  BY <2>15, <2>d, <3>2, <4>1, <4>2, <4>3, <4>4 DEF MarkGenerated
    <3>3. CASE Throws("write", p) /\ UNCHANGED lifeVars
      BY <2>15, <2>c, <3>1, <3>3 DEF MarkGenerated, Generating
    <3>. QED  BY <2>15, <3>2, <3>3 DEF MarkGenerated
  <2>16. ASSUME NEW p \in Procs, FailAttempt(p) PROVE IInv'
    <3>1. pc[p] \in {"fail", "fault"} /\ status = "gate1_approved"
      BY <2>16 DEF IInv, FailAttempt, At, Course, Generating
    <3>2. CASE /\ SetAttempt("failed")
               /\ Goto(p, IF At(p, "fault") THEN "failed" ELSE "release")
      <4>1. PICK l \in {"failed", "release"} : Goto(p, l)
        BY <3>2
      <4>2. l \in Labels /\ Moves(p, l)
        BY <2>16, <3>1, <4>1 DEF Labels, Moves, FailAttempt
      <4>3. pc'[p] = l
        BY <4>2, Moving DEF IInv
      <4>4. Seals' /\ Course(p)' /\ attempts' \in [Attempts -> Outcomes \cup {None}]
        BY <2>16, <3>2, <4>3
        DEF IInv, TypeOK, Seals, Course, Generating, FailAttempt, SetAttempt, Outcomes
      <4>. QED  BY <2>16, <2>e, <3>1, <4>2, <4>4 DEF IInv, TypeOK, FailAttempt
    <3>3. CASE Fails("write", p) /\ UNCHANGED attempts
      BY <2>16, <2>b, <3>1, <3>3 DEF FailAttempt, Fails, fileVars, attemptVars, gateVars
    <3>. QED  BY <2>16, <3>2, <3>3 DEF FailAttempt
  <2>17. ASSUME NEW p \in Procs, Validate(p) PROVE IInv'
    <3>1. "mark" \in Labels /\ Moves(p, "mark")
      BY <2>17 DEF Labels, Moves, Validate
    <3>2. /\ pc' \in [Procs -> Labels] /\ pc'[p] = "mark"
          /\ owner' \in Procs \cup {None} /\ gone' \subseteq Procs
      BY <3>1, Moving DEF IInv, TypeOK
    <3>3. /\ status = "generated" /\ attempts'[attempt] = "validated"
          /\ attempts' \in [Attempts -> Outcomes \cup {None}]
          /\ UNCHANGED <<lifeVars, main, request, plan, gateVars, directories, sealed,
                         candidate, historyVars>>
      BY <2>17 DEF IInv, TypeOK, Validate, SetAttempt, Outcomes
    <3>4. TypeOK'
      BY <3>2, <3>3 DEF IInv, TypeOK, lifeVars, gateVars
    <3>5. Ladder' /\ Seals' /\ Signed' /\ StateIsProved' /\ Course(p)'
      BY <3>2, <3>3
      DEF IInv, Ladder, Seals, Signed, StateIsProved, Course, Generating, Gate1Holds,
          lifeVars, gateVars
    <3>. QED  BY <3>1, <3>4, <3>5, Whole
  <2>18. ASSUME NEW p \in Procs, Publish(p) PROVE IInv'
    <3>1. "preview" \in Labels /\ Moves(p, "preview")
      BY <2>18 DEF Labels, Moves, Publish
    <3>2. pc'[p] = "preview"
      BY <3>1, Moving DEF IInv
    <3>3. /\ approval[1] # None /\ approval[1].baseline = plan
          /\ approval[2] # None /\ approval[2].baseline = plan
          /\ approval[2].attempt = attempt
      BY <2>18 DEF Publish, PublicationHolds, Gate1Holds, Gate2Holds
    <3>4. ASSUME NEW g \in Gates PROVE <<p, g, approval[g]>> \in confirmed
      BY <2>18 DEF Publish, PublicationHolds, Provenance, IInv, Signed
    <3>5. /\ approval[1] \in Approvals /\ approval[2] \in Approvals
          /\ <<p, 1, approval[1]>> \in confirmed /\ <<p, 2, approval[2]>> \in confirmed
      BY <3>3, <3>4 DEF IInv, TypeOK, Gates
    <3>6. /\ approval[1].env = EnvOf[p] /\ approval[1].attempt = None
          /\ approval[2].env = EnvOf[p]
      BY <3>5 DEF IInv, Signed, Gates
    <3>7. /\ approval[1] = [env |-> EnvOf[p], baseline |-> plan, attempt |-> None]
          /\ approval[2] = [env |-> EnvOf[p], baseline |-> plan, attempt |-> attempt]
      BY <3>3, <3>5, <3>6 DEF Approvals
    <3>8. Course(p)'
      BY <2>18, <3>2, <3>5, <3>7
      DEF Publish, Course, Generating, ConfirmedBy, lifeVars, fileVars
    <3>. QED  BY <2>18, <2>a, <3>1, <3>8 DEF Publish
  <2>19. ASSUME NEW p \in Procs, FinishPublish(p) PROVE IInv'
    BY <2>19, <2>b DEF FinishPublish, At
  \* A step outside the operations, which leaves what a change rests on alone; an
  \* operation stays where it is or is over.
  <2>f. ASSUME UNCHANGED <<lifeVars, fileVars, confirmed>>, main' \in Commits,
               owner' \in Procs \cup {None}, gone' \subseteq Procs,
               pc' \in [Procs -> Labels], disrupted' \in BOOLEAN, Locked',
               \A p \in Procs : pc'[p] = pc[p] \/ pc'[p] = "idle"
        PROVE  IInv'
    <3>1. request' \in BOOLEAN /\ UNCHANGED <<plan, gateVars, attemptVars>>
      BY <2>f DEF IInv, TypeOK, fileVars
    <3>2. TypeOK' /\ Ladder' /\ Seals' /\ Signed' /\ StateIsProved'
      BY <2>f, <3>1, Kept
    <3>3. ASSUME NEW p \in Procs PROVE Course(p)'
      <4>1. CASE pc'[p] = pc[p]
        BY <2>f, <3>1, <4>1
        DEF IInv, Course, Gate1Holds, Gate2Holds, Gate2Proved, ConfirmedBy, lifeVars,
            gateVars, attemptVars
      <4>2. CASE pc'[p] = "idle"
        BY <4>2 DEF Course, Generating
      <4>. QED  BY <2>f, <4>1, <4>2
    <3>. QED  BY <2>f, <3>2, <3>3 DEF IInv
  \* A call of the store while no operation runs.
  <2>g. ASSUME owner = None, status' \in ChangeStates, attempt' \in Attempts,
               UNCHANGED <<checkpoint, lockVars, main, fileVars, pc, historyVars>>,
               Ladder', StateIsProved'
        PROVE  IInv'
    <3>1. \A p \in Procs : pc[p] = "idle"
      BY <2>g, ControllerConstants DEF IInv, Locked, TypeOK
    <3>2. TypeOK' /\ Locked' /\ Seals' /\ Signed'
      BY <2>g
      DEF IInv, TypeOK, Locked, Seals, Signed, lockVars, fileVars, gateVars, attemptVars
    <3>3. \A p \in Procs : Course(p)'
      BY <2>g, <3>1 DEF Course, Generating
    <3>. QED  BY <2>g, <3>2, <3>3 DEF IInv
  <2>20. ASSUME NEW p \in Procs, Release(p) PROVE IInv'
    <3>1. /\ owner = p /\ owner' = None /\ gone' = gone
          /\ pc' = [pc EXCEPT ![p] = "idle"]
          /\ UNCHANGED <<lifeVars, main, fileVars, confirmed>> /\ disrupted' \in BOOLEAN
      BY <2>20 DEF IInv, TypeOK, Release, Lock!Release, Goto
    <3>2. /\ pc' \in [Procs -> Labels] /\ pc'[p] = "idle"
          /\ \A q \in Procs \ {p} : pc'[q] = pc[q] /\ pc[q] = "idle"
      BY <3>1, ControllerConstants DEF IInv, TypeOK, Locked, Labels
    <3>3. Locked'
      BY <3>2 DEF Locked
    <3>. QED  BY <2>f, <3>1, <3>2, <3>3 DEF IInv, TypeOK
  <2>21. ASSUME NEW p \in Procs, Crash(p) PROVE IInv'
    <3>1. /\ owner' = owner /\ gone' = gone \cup {p}
          /\ pc' = [pc EXCEPT ![p] = "idle"]
          /\ UNCHANGED <<lifeVars, main, fileVars, historyVars>>
      BY <2>21 DEF Crash, Lock!Die, Goto
    <3>2. /\ pc' \in [Procs -> Labels] /\ pc'[p] = "idle"
          /\ \A q \in Procs \ {p} : pc'[q] = pc[q]
      BY <3>1 DEF IInv, TypeOK, Labels
    <3>3. Locked'
      BY <3>1, <3>2 DEF IInv, Locked
    <3>. QED  BY <2>f, <3>1, <3>2, <3>3 DEF IInv, TypeOK
  <2>22. CASE Abandon
    <3>1. /\ status' \in {"rejected", "failed"} /\ status \in ChangeStates /\ owner = None
          /\ UNCHANGED <<checkpoint, attempt, lockVars, main, fileVars, pc, historyVars>>
      BY <2>22
      DEF Abandon, Life!Abandon, Life!ChangeStates, ChangeStates, Life!TerminalStates,
          Life!Checkpoints, Checkpoints, TerminalStates
    <3>2. Ladder' /\ StateIsProved'
      BY <3>1
      DEF IInv, Ladder, StateIsProved, Gate1Holds, Checkpoints, NoState, fileVars,
          gateVars
    <3>. QED  BY <2>g, <3>1, <3>2 DEF IInv, TypeOK, ChangeStates, TerminalStates
  <2>23. CASE Retry
    <3>1. /\ status' = checkpoint /\ checkpoint \in Checkpoints /\ owner = None
          /\ attempt' = attempt + 1 /\ attempt' \in Attempts
          /\ UNCHANGED <<checkpoint, lockVars, main, fileVars, pc, historyVars>>
      BY <2>23, ControllerConstants DEF Retry, Life!Retry, IInv, TypeOK, Attempts
    <3>2. Ladder' /\ StateIsProved'
      BY <3>1
      DEF IInv, Ladder, StateIsProved, Gate1Holds, Checkpoints, NoState, fileVars,
          gateVars
    <3>. QED  BY <2>g, <3>1, <3>2 DEF ChangeStates
  <2>24. CASE MainAdvances
    <3>1. main' \in Commits
      BY <2>24, ControllerConstants DEF MainAdvances, IInv, TypeOK, Commits
    <3>. QED  BY <2>24, <2>f, <3>1 DEF MainAdvances, IInv, TypeOK, Locked, lockVars
  <2>25. CASE Recover
    <3>1. owner' = None /\ gone' = gone /\ owner \in gone
      BY <2>25 DEF Recover, Lock!Free
    <3>2. Locked'
      BY <2>25, <3>1 DEF IInv, Locked, Recover
    <3>. QED  BY <2>25, <2>f, <3>1, <3>2 DEF Recover, IInv, TypeOK
  <2>26. CASE UNCHANGED vars
    BY <2>26, <2>f DEF IInv, TypeOK, Locked, vars, lockVars, fileVars
  <2>. QED
    BY <2>1, <2>2, <2>3, <2>4, <2>5, <2>6, <2>7, <2>8, <2>9, <2>10, <2>11, <2>12, <2>13,
       <2>14, <2>15, <2>16, <2>17, <2>18, <2>19, <2>20, <2>21, <2>22, <2>23, <2>24,
       <2>25, <2>26
    DEF Next, Operation
<1>. QED  BY <1>1, <1>2, PTL DEF Spec

\* For every state of every behaviour: what the state of the change claims is
\* proved by its files, whatever died, failed, was retried or moved.
THEOREM StateProved == Spec => []StateIsProved
BY Invariance, PTL DEF IInv

\* A preview runs only of what humans confirmed in its own process.
THEOREM PublishedConfirmed == Spec => []PublishedWasConfirmed
<1>1. IInv => PublishedWasConfirmed
  BY DEF IInv, Course, ConfirmedBy, PublishedWasConfirmed, At
<1>. QED  BY <1>1, Invariance, PTL

\* A plan that Gate 1 was confirmed for and a sealed candidate are never written
\* again.  Only plan writes plan.json, and only in a state that no approval
\* reaches; only the making of a candidate writes or removes one, in directories
\* that were new.
THEOREM PromisesKept == Spec => PromisedStays
<1>1. IInv /\ [Next]_vars =>
        [/\ approval[1] # None => plan' = plan
         /\ \A k \in Attempts : sealed[k] # None => sealed'[k] = sealed[k]]_vars
  <2>. DEFINE Stays == /\ approval[1] # None => plan' = plan
                      /\ \A k \in Attempts : sealed[k] # None => sealed'[k] = sealed[k]
  <2>. SUFFICES ASSUME IInv, Next PROVE Stays
    OBVIOUS
  <2>1. ASSUME NEW p \in Procs, Plan(p) PROVE Stays
    BY <2>1 DEF IInv, Ladder, Plan, Checkpoints, attemptVars
  <2>2. ASSUME NEW p \in Procs, Seal(p) PROVE Stays
    <3>1. sealed[attempt] = None /\ attempt \in Attempts
      BY <2>2 DEF IInv, TypeOK, Seal, At, Course
    <3>. QED  BY <2>2, <3>1 DEF IInv, TypeOK, Seal
  <2>3. CASE UNCHANGED <<plan, sealed>>
    BY <2>3
  <2>4. ASSUME NEW p \in Procs,
               Receive(p) \/ MarkReceived(p) \/ Mark(p) \/ AskGate1(p) \/ AskGate2(p)
        PROVE  UNCHANGED <<plan, sealed>>
    BY <2>4
    DEF Receive, MarkReceived, Mark, AskGate1, AskGate2, fileVars, attemptVars
  <2>5. ASSUME NEW p \in Procs, NEW g \in Gates, Confirm(p, g) \/ Sign(p, g)
        PROVE  UNCHANGED <<plan, sealed>>
    BY <2>5 DEF Confirm, Sign, attemptVars
  <2>6. ASSUME NEW p \in Procs, Generate(p) \/ RunAgent(p) \/ MakeDirectories(p)
        PROVE  UNCHANGED <<plan, sealed>>
    BY <2>6 DEF Generate, RunAgent, MakeDirectories, fileVars, attemptVars
  <2>7. ASSUME NEW p \in Procs, WriteCandidate(p) \/ CompleteAttempt(p)
                                  \/ MarkGenerated(p) \/ FailAttempt(p)
        PROVE  UNCHANGED <<plan, sealed>>
    BY <2>7
    DEF WriteCandidate, CompleteAttempt, MarkGenerated, FailAttempt, fileVars, attemptVars
  <2>8. ASSUME NEW p \in Procs, Validate(p) \/ Publish(p) \/ FinishPublish(p)
                                  \/ Release(p) \/ Crash(p)
        PROVE  UNCHANGED <<plan, sealed>>
    BY <2>8 DEF Validate, Publish, FinishPublish, Release, Crash, fileVars, attemptVars
  <2>9. CASE Abandon \/ Retry \/ MainAdvances \/ Recover
    BY <2>9 DEF Abandon, Retry, MainAdvances, Recover, fileVars, attemptVars
  <2>. QED
    BY <2>1, <2>2, <2>3, <2>4, <2>5, <2>6, <2>7, <2>8, <2>9 DEF Next, Operation
<1>. QED  BY <1>1, Invariance, PTL DEF Spec, PromisedStays

-----------------------------------------------------------------------------
(***************************************************************************)
(* A change at rest.                                                       *)
(***************************************************************************)
\* Neither has anything been disturbed nor is an operation about to say so.
Calm == Undisturbed /\ \A p \in Procs : pc[p] \notin {"fault", "failed"}

Made == {"seal", "candidate", "complete", "generated"}

\* What comes with a state that only the files say.
Supplied ==
  /\ status # "published"
  /\ status # NoState => request
  /\ \/ status \in {"planned", "gate1_approved", "generated", "validated", "gate2_approved"}
     \/ checkpoint \in {"planned", "gate1_approved"}
     => plan # None
  /\ \A k \in directories : k <= attempt

Brought(p) ==
  /\ pc[p] = "receive" => request
  /\ pc[p] = "mark" /\ status = "normalized" => plan # None
  /\ pc[p] = "generated" => attempts[attempt] = "generated"

\* An attempt has directories as long as its candidate is in the making and when it is
\* sealed, and is recorded as validated as soon as the state is to follow.
Orderly ==
  /\ status \in {NoState, "received", "normalized", "planned", "gate1_approved"}
     /\ (\A p \in Procs : pc[p] \notin Made) => attempt \notin directories
  /\ status = "generated" /\ (\A p \in Procs : pc[p] # "mark") =>
       attempts[attempt] = "generated"

RestInv == Supplied /\ (\A p \in Procs : Brought(p)) /\ (Calm => Orderly)

OrderlyAt(p) ==
  /\ status \in {NoState, "received", "normalized", "planned", "gate1_approved"}
     /\ pc[p] \notin Made => attempt \notin directories
  /\ status = "generated" /\ pc[p] # "mark" => attempts[attempt] = "generated"

\* What is left to show of a step of p, for nobody else is in an operation.
LEMMA Resting ==
  ASSUME IInv, RestInv, NEW p \in Procs, NEW l \in Labels, Moves(p, l), UNCHANGED disrupted,
         pc[p] \in {"fault", "failed"} => l = "failed",
         Supplied', Brought(p)',
         Calm /\ OrderlyAt(p) /\ l \notin {"fault", "failed"} => OrderlyAt(p)'
  PROVE  RestInv'
<1>1. /\ pc' \in [Procs -> Labels] /\ pc'[p] = l /\ gone' = gone
      /\ \A q \in Procs \ {p} : pc'[q] = "idle"
  BY Moving DEF IInv
<1>2. \A q \in Procs \ {p} : pc[q] = "idle"
  <2>1. owner \in {p, None}
    BY DEF Moves, IInv, Locked, Enter, Lock!Take
  <2>. QED  BY <2>1, ControllerConstants DEF IInv, Locked
<1>3. ASSUME NEW q \in Procs PROVE Brought(q)'
  BY <1>1 DEF Brought
<1>4. ASSUME Calm' PROVE Orderly'
  <2>1. l \notin {"fault", "failed"} /\ gone = {} /\ ~disrupted
    BY <1>1, <1>4 DEF Calm, Undisturbed
  <2>2. pc[p] \notin {"fault", "failed"}
    BY <2>1
  <2>3. Calm
    BY <1>2, <2>1, <2>2 DEF Calm, Undisturbed
  <2>4. OrderlyAt(p)
    BY <1>2, <2>3 DEF RestInv, Orderly, OrderlyAt, Made
  <2>5. OrderlyAt(p)'
    BY <2>1, <2>3, <2>4
  <2>. QED  BY <1>1, <2>5 DEF Orderly, OrderlyAt
<1>. QED  BY <1>3, <1>4 DEF RestInv

\* A step that changes nothing of this but the directories of its attempt.
LEMMA RestingStill ==
  ASSUME IInv, RestInv, NEW p \in Procs, NEW l \in Labels, Moves(p, l),
         UNCHANGED <<lifeVars, request, plan, attempts, disrupted>>,
         directories' \subseteq directories \cup {attempt},
         directories' = directories \/ l \in Made \cup {"fault"},
         pc[p] \in {"fault", "failed"} => l = "failed",
         pc[p] \in Made => l \in Made \cup {"fault", "failed"},
         pc[p] = "mark" => l = "failed",
         l \notin {"receive", "mark", "generated"} \/ (l = "mark" /\ status # "normalized")
  PROVE  RestInv'
<1>1. pc'[p] = l
  BY Moving DEF IInv
<1>2. Supplied'
  BY DEF RestInv, Supplied, lifeVars, IInv, TypeOK, Attempts
<1>3. Brought(p)'
  BY <1>1 DEF Brought, lifeVars
<1>4. OrderlyAt(p) /\ l \notin {"fault", "failed"} => OrderlyAt(p)'
  BY <1>1 DEF OrderlyAt, lifeVars
<1>. QED  BY <1>2, <1>3, <1>4, Resting

\* The invariant of a change at rest.
LEMMA RestInvariance == Spec => []RestInv
<1>1. Init => RestInv
  <2>. SUFFICES ASSUME Init PROVE RestInv
    OBVIOUS
  <2>. USE DEF Init, Life!Init, NoState, Life!NoState
  <2>1. Supplied
    BY DEF Supplied
  <2>2. (\A p \in Procs : Brought(p)) /\ Orderly
    BY DEF Brought, Orderly
  <2>. QED  BY <2>1, <2>2 DEF RestInv
<1>2. IInv /\ RestInv /\ [Next]_vars => RestInv'
  <2>. SUFFICES ASSUME IInv, RestInv, [Next]_vars PROVE RestInv'
    OBVIOUS
  <2>. USE DEF At, historyVars
  <2>1. ASSUME NEW p \in Procs, Receive(p) PROVE RestInv'
    <3>1. /\ "receive" \in Labels /\ Moves(p, "receive") /\ pc[p] = "idle" /\ request'
          /\ UNCHANGED <<lifeVars, plan, attempts, directories, disrupted>>
      BY <2>1 DEF Labels, Moves, Receive, Enter, attemptVars
    <3>2. pc'[p] = "receive"
      BY <3>1, Moving DEF IInv
    <3>3. Supplied' /\ Brought(p)'
      BY <3>1, <3>2 DEF RestInv, Supplied, Brought, lifeVars
    <3>4. OrderlyAt(p) => OrderlyAt(p)'
      BY <3>1, <3>2 DEF OrderlyAt, Made, lifeVars
    <3>. QED  BY <3>1, <3>3, <3>4, Resting
  <2>2. ASSUME NEW p \in Procs, MarkReceived(p) PROVE RestInv'
    <3>1. CASE Life!Receive /\ Goto(p, "mark")
      <4>1. /\ status = NoState /\ status' = "received" /\ pc[p] = "receive"
            /\ "mark" \in Labels /\ Moves(p, "mark")
            /\ UNCHANGED <<checkpoint, attempt, request, plan, attempts, directories,
                           disrupted>>
        BY <2>2, <3>1
        DEF MarkReceived, Life!Receive, fileVars, attemptVars, NoState, Life!NoState,
            Labels, Moves
      <4>2. pc'[p] = "mark"
        BY <4>1, Moving DEF IInv
      <4>3. request
        BY <4>1 DEF RestInv, Brought
      <4>4. Supplied' /\ Brought(p)'
        BY <4>1, <4>2, <4>3 DEF RestInv, Supplied, Brought, NoState
      <4>5. OrderlyAt(p) => OrderlyAt(p)'
        BY <4>1, <4>2 DEF OrderlyAt, Made
      <4>. QED  BY <4>1, <4>4, <4>5, Resting
    <3>2. CASE Fails("write", p) /\ UNCHANGED lifeVars
      <4>1. /\ "failed" \in Labels /\ Moves(p, "failed") /\ pc[p] = "receive"
            /\ UNCHANGED <<lifeVars, request, plan, attempts, directories, disrupted>>
        BY <2>2, <3>2 DEF MarkReceived, Fails, fileVars, attemptVars, Labels, Moves
      <4>. QED  BY <4>1, RestingStill DEF Made
    <3>. QED  BY <2>2, <3>1, <3>2 DEF MarkReceived
  <2>3. ASSUME NEW p \in Procs, Mark(p) PROVE RestInv'
    <3>1. CASE Life!Advance /\ Goto(p, "release")
      <4>1. /\ status' = Forward[status]
            /\ checkpoint' = IF status' \in Checkpoints THEN status' ELSE checkpoint
            /\ pc[p] = "mark" /\ "release" \in Labels /\ Moves(p, "release")
            /\ UNCHANGED <<attempt, request, plan, attempts, directories, disrupted>>
        BY <2>3, <3>1
        DEF Mark, Life!Advance, Life!Forward, Life!Checkpoints, Forward, Checkpoints,
            fileVars, attemptVars, Labels, Moves
      <4>2. pc'[p] = "release"
        BY <4>1, Moving DEF IInv
      <4>3. status \in {"received", "normalized", "planned", "generated", "validated"}
        BY <4>1 DEF IInv, Course
      <4>4. /\ status = "received" => status' = "normalized"
            /\ status = "normalized" => status' = "planned" /\ plan # None
            /\ status = "planned" => status' = "gate1_approved" /\ plan # None
            /\ status = "generated" => status' = "validated" /\ plan # None
            /\ status = "validated" => status' = "gate2_approved" /\ plan # None
        BY <4>1 DEF Forward, RestInv, Supplied, Brought
      <4>5. Supplied' /\ Brought(p)'
        BY <4>1, <4>2, <4>3, <4>4 DEF RestInv, Supplied, Brought, Checkpoints, NoState
      <4>6. OrderlyAt(p) => OrderlyAt(p)'
        BY <4>1, <4>2, <4>3, <4>4 DEF OrderlyAt, Made, NoState
      <4>. QED  BY <4>1, <4>5, <4>6, Resting
    <3>2. CASE Fails("write", p) /\ UNCHANGED lifeVars
      <4>1. /\ "failed" \in Labels /\ Moves(p, "failed") /\ pc[p] = "mark"
            /\ UNCHANGED <<lifeVars, request, plan, attempts, directories, disrupted>>
        BY <2>3, <3>2 DEF Mark, Fails, fileVars, attemptVars, Labels, Moves
      <4>. QED  BY <4>1, RestingStill DEF Made
    <3>. QED  BY <2>3, <3>1, <3>2 DEF Mark
  <2>4. ASSUME NEW p \in Procs, Plan(p) PROVE RestInv'
    <3>1. /\ "mark" \in Labels /\ Moves(p, "mark") /\ pc[p] = "idle" /\ plan' = main
          /\ main # None /\ status = "normalized"
          /\ UNCHANGED <<lifeVars, request, attempts, directories, disrupted>>
      BY <2>4, ControllerConstants
      DEF Labels, Moves, Plan, Enter, attemptVars, IInv, TypeOK, Commits
    <3>2. pc'[p] = "mark"
      BY <3>1, Moving DEF IInv
    <3>3. Supplied' /\ Brought(p)'
      BY <3>1, <3>2 DEF RestInv, Supplied, Brought, lifeVars
    <3>4. OrderlyAt(p) => OrderlyAt(p)'
      BY <3>1, <3>2 DEF OrderlyAt, Made, lifeVars
    <3>. QED  BY <3>1, <3>3, <3>4, Resting
  <2>5. ASSUME NEW p \in Procs,
               AskGate1(p) \/ AskGate2(p) \/ Publish(p) \/ FinishPublish(p)
        PROVE  RestInv'
    <3>1. PICK l \in {"confirm1", "confirm2", "preview", "release"} :
             Moves(p, l) /\ pc[p] \in {"idle", "preview"}
      BY <2>5 DEF AskGate1, AskGate2, Publish, FinishPublish, Moves, Enter
    <3>2. UNCHANGED <<lifeVars, request, plan, attempts, directories, disrupted>>
      BY <2>5 DEF AskGate1, AskGate2, Publish, FinishPublish, fileVars, attemptVars
    <3>. QED  BY <3>1, <3>2, RestingStill DEF Made, Labels
  <2>6. ASSUME NEW p \in Procs, NEW g \in Gates, Confirm(p, g) \/ Sign(p, g) PROVE RestInv'
    <3>1. /\ pc[p] \in {"confirm1", "confirm2", "sign1", "sign2"}
          /\ UNCHANGED <<lifeVars, request, plan, attempts, directories, disrupted>>
      BY <2>6 DEF Confirm, Sign, attemptVars
    <3>2. PICK l \in {"sign1", "sign2", "release", "mark", "failed"} : Moves(p, l)
      <4>1. CASE Confirm(p, g)
        BY <3>1, <4>1 DEF Confirm, Moves
      <4>2. CASE Sign(p, g)
        BY <3>1, <4>2 DEF Sign, Moves, Fails
      <4>. QED  BY <2>6, <4>1, <4>2
    <3>3. status \in {"planned", "validated"}
      BY <3>1 DEF IInv, Course
    <3>. QED  BY <3>1, <3>2, <3>3, RestingStill DEF Made, Labels
  <2>7. ASSUME NEW p \in Procs, Generate(p) PROVE RestInv'
    <3>1. /\ "agent" \in Labels /\ Moves(p, "agent") /\ pc[p] = "idle"
          /\ status = "gate1_approved"
          /\ UNCHANGED <<lifeVars, request, plan, directories, disrupted>>
      BY <2>7 DEF Labels, Moves, Generate, Enter
    <3>2. pc'[p] = "agent"
      BY <3>1, Moving DEF IInv
    <3>3. Supplied' /\ Brought(p)'
      BY <3>1, <3>2 DEF RestInv, Supplied, Brought, lifeVars
    <3>4. OrderlyAt(p) => OrderlyAt(p)'
      BY <3>1, <3>2 DEF OrderlyAt, Made, lifeVars
    <3>. QED  BY <3>1, <3>3, <3>4, Resting
  <2>8. ASSUME NEW p \in Procs, RunAgent(p) PROVE RestInv'
    <3>1. /\ pc[p] = "agent"
          /\ UNCHANGED <<lifeVars, request, plan, attempts, directories, disrupted>>
      BY <2>8 DEF RunAgent, fileVars, attemptVars
    <3>2. PICK l \in {"directories", "fail"} : Moves(p, l)
      BY <2>8, <3>1 DEF RunAgent, Throws, Moves
    <3>. QED  BY <3>1, <3>2, RestingStill DEF Made, Labels
  <2>9. ASSUME NEW p \in Procs, MakeDirectories(p) PROVE RestInv'
    <3>1. /\ pc[p] = "directories"
          /\ UNCHANGED <<lifeVars, request, plan, attempts, disrupted>>
          /\ directories' \subseteq directories \cup {attempt}
      BY <2>9 DEF MakeDirectories
    <3>2. PICK l \in {"seal", "fault", "fail"} :
            Moves(p, l) /\ (l = "fail" => directories' = directories)
      BY <2>9, <3>1 DEF MakeDirectories, Throws, Moves
    <3>. QED  BY <3>1, <3>2, RestingStill DEF Made, Labels
  <2>10. ASSUME NEW p \in Procs, Seal(p) \/ WriteCandidate(p) PROVE RestInv'
    <3>1. /\ pc[p] \in {"seal", "candidate"}
          /\ UNCHANGED <<lifeVars, request, plan, attempts, disrupted>>
          /\ directories' \subseteq directories \cup {attempt}
      BY <2>10 DEF Seal, WriteCandidate
    <3>2. PICK l \in {"candidate", "complete", "fault"} : Moves(p, l)
      BY <2>10, <3>1 DEF Seal, WriteCandidate, Throws, Moves
    <3>. QED  BY <3>1, <3>2, RestingStill DEF Made, Labels
  <2>11. ASSUME NEW p \in Procs, CompleteAttempt(p) PROVE RestInv'
    <3>1. pc[p] = "complete" /\ status = "gate1_approved"
          /\ UNCHANGED <<lifeVars, request, plan, directories, disrupted>>
      BY <2>11 DEF CompleteAttempt, IInv, Course, Generating
    <3>2. CASE SetAttempt("generated") /\ Goto(p, "generated")
      <4>1. "generated" \in Labels /\ Moves(p, "generated")
        BY <2>11, <3>1, <3>2 DEF Labels, Moves, CompleteAttempt
      <4>2. pc'[p] = "generated" /\ attempts'[attempt] = "generated"
        BY <3>2, <4>1, Moving DEF IInv, TypeOK, SetAttempt
      <4>3. Supplied' /\ Brought(p)'
        BY <3>1, <4>2 DEF RestInv, Supplied, Brought, lifeVars
      <4>4. OrderlyAt(p) => OrderlyAt(p)'
        BY <3>1, <4>2 DEF OrderlyAt, Made, lifeVars
      <4>. QED  BY <3>1, <4>1, <4>3, <4>4, Resting
    <3>3. CASE Throws("write", p) /\ UNCHANGED attempts
      <4>1. "fault" \in Labels /\ Moves(p, "fault")
        BY <2>11, <3>1, <3>3 DEF CompleteAttempt, Throws, Moves, Labels
      <4>. QED  BY <3>1, <3>3, <4>1, RestingStill DEF Made
    <3>. QED  BY <2>11, <3>2, <3>3 DEF CompleteAttempt
  <2>12. ASSUME NEW p \in Procs, MarkGenerated(p) PROVE RestInv'
    <3>1. /\ pc[p] = "generated" /\ status = "gate1_approved"
          /\ attempts[attempt] = "generated"
          /\ UNCHANGED <<request, plan, attempts, directories, disrupted>>
      BY <2>12
      DEF MarkGenerated, IInv, Course, Generating, RestInv, Brought, fileVars, attemptVars
    <3>2. CASE Life!Advance /\ Goto(p, "release")
      <4>1. /\ status' = "generated" /\ checkpoint' = checkpoint /\ attempt' = attempt
            /\ "release" \in Labels /\ Moves(p, "release")
        BY <2>12, <3>1, <3>2
        DEF MarkGenerated, Life!Advance, Life!Forward, Life!Checkpoints, Labels, Moves
      <4>2. pc'[p] = "release"
        BY <4>1, Moving DEF IInv
      <4>3. Supplied' /\ Brought(p)'
        BY <3>1, <4>1, <4>2 DEF RestInv, Supplied, Brought, NoState
      <4>4. OrderlyAt(p)'
        BY <3>1, <4>1, <4>2 DEF OrderlyAt, NoState
      <4>. QED  BY <3>1, <4>1, <4>3, <4>4, Resting
    <3>3. CASE Throws("write", p) /\ UNCHANGED lifeVars
      <4>1. "fault" \in Labels /\ Moves(p, "fault")
        BY <2>12, <3>1, <3>3 DEF MarkGenerated, Throws, Moves, Labels
      <4>. QED  BY <3>1, <3>3, <4>1, RestingStill DEF Made
    <3>. QED  BY <2>12, <3>2, <3>3 DEF MarkGenerated
  <2>13. ASSUME NEW p \in Procs, FailAttempt(p) PROVE RestInv'
    <3>1. /\ pc[p] \in {"fail", "fault"} /\ status = "gate1_approved"
          /\ UNCHANGED <<lifeVars, request, plan, directories, disrupted>>
      BY <2>13 DEF FailAttempt, IInv, Course, Generating
    <3>2. PICK l \in {"failed", "release"} : Moves(p, l) /\ (pc[p] = "fault" => l = "failed")
      BY <2>13, <3>1 DEF FailAttempt, Fails, Moves
    <3>3. pc'[p] = l
      BY <3>2, Moving DEF IInv, Labels
    <3>4. Supplied' /\ Brought(p)'
      BY <3>1, <3>3 DEF RestInv, Supplied, Brought, lifeVars
    <3>5. OrderlyAt(p) => OrderlyAt(p)'
      BY <3>1, <3>3 DEF OrderlyAt, Made, lifeVars
    <3>. QED  BY <3>1, <3>2, <3>4, <3>5, Resting DEF Labels
  <2>14. ASSUME NEW p \in Procs, Validate(p) PROVE RestInv'
    <3>1. /\ "mark" \in Labels /\ Moves(p, "mark") /\ pc[p] = "idle" /\ status = "generated"
          /\ UNCHANGED <<lifeVars, request, plan, directories, disrupted>>
      BY <2>14 DEF Labels, Moves, Validate, Enter
    <3>2. pc'[p] = "mark"
      BY <3>1, Moving DEF IInv
    <3>3. Supplied' /\ Brought(p)'
      BY <3>1, <3>2 DEF RestInv, Supplied, Brought, lifeVars
    <3>4. OrderlyAt(p)'
      BY <3>1, <3>2 DEF OrderlyAt, lifeVars, NoState
    <3>. QED  BY <3>1, <3>3, <3>4, Resting
  <2>15. ASSUME NEW p \in Procs, Release(p) PROVE RestInv'
    <3>1. /\ owner = p /\ gone' = gone /\ pc' = [pc EXCEPT ![p] = "idle"]
          /\ pc[p] \in {"release", "failed"} /\ disrupted' = (disrupted \/ pc[p] = "failed")
          /\ UNCHANGED <<lifeVars, request, plan, attempts, directories>>
      BY <2>15 DEF Release, Lock!Release, Goto, fileVars, attemptVars
    <3>2. /\ \A q \in Procs : pc'[q] = "idle"
          /\ \A q \in Procs \ {p} : pc[q] = "idle"
      BY <3>1, ControllerConstants DEF IInv, TypeOK, Locked
    <3>3. Supplied' /\ \A q \in Procs : Brought(q)'
      BY <3>1, <3>2 DEF RestInv, Supplied, Brought, lifeVars
    <3>4. ASSUME Calm' PROVE Orderly'
      <4>1. gone = {} /\ ~disrupted /\ pc[p] = "release"
        BY <3>1, <3>4 DEF Calm, Undisturbed
      <4>2. Calm
        BY <3>2, <4>1 DEF Calm, Undisturbed
      <4>3. Orderly
        BY <4>2 DEF RestInv
      <4>. QED  BY <3>1, <3>2, <4>1, <4>3 DEF Orderly, Made, lifeVars
    <3>. QED  BY <3>3, <3>4 DEF RestInv
  <2>16. ASSUME NEW p \in Procs, Crash(p) PROVE RestInv'
    <3>1. /\ gone' # {} /\ pc' = [pc EXCEPT ![p] = "idle"]
          /\ UNCHANGED <<lifeVars, request, plan, attempts, directories>>
      BY <2>16 DEF Crash, Lock!Die, Goto, fileVars, attemptVars
    <3>2. \A q \in Procs : pc'[q] \in {"idle", pc[q]}
      BY <3>1 DEF IInv, TypeOK
    <3>3. Supplied' /\ \A q \in Procs : Brought(q)'
      BY <3>1, <3>2 DEF RestInv, Supplied, Brought, lifeVars
    <3>. QED  BY <3>1, <3>3 DEF RestInv, Calm, Undisturbed
  <2>17. CASE Abandon
    <3>1. /\ status' \in {"rejected", "failed"} /\ status # NoState /\ owner = None
          /\ UNCHANGED <<checkpoint, attempt, request, plan, attempts, directories, pc>>
      BY <2>17
      DEF Abandon, Life!Abandon, Life!ChangeStates, Life!TerminalStates,
          Life!Checkpoints, NoState, fileVars, attemptVars
    <3>2. \A q \in Procs : pc[q] = "idle"
      BY <3>1, ControllerConstants DEF IInv, Locked
    <3>3. Supplied' /\ Orderly'
      BY <3>1, <3>2 DEF RestInv, Supplied, Orderly, NoState
    <3>4. \A q \in Procs : Brought(q)'
      BY <3>1, <3>2 DEF Brought
    <3>. QED  BY <3>3, <3>4 DEF RestInv
  <2>18. CASE Retry
    <3>1. /\ status' = checkpoint /\ checkpoint \in Checkpoints /\ owner = None
          /\ attempt' = attempt + 1 /\ attempt \in Nat /\ status # NoState
          /\ UNCHANGED <<checkpoint, request, plan, attempts, directories, pc>>
      BY <2>18
      DEF Retry, Life!Retry, IInv, TypeOK, Attempts, NoState, fileVars, attemptVars
    <3>2. \A q \in Procs : pc[q] = "idle"
      BY <3>1, ControllerConstants DEF IInv, Locked
    <3>3. attempt' \notin directories' /\ \A k \in directories' : k <= attempt'
      BY <3>1 DEF RestInv, Supplied, IInv, TypeOK, Attempts
    <3>4. Supplied' /\ Orderly'
      BY <3>1, <3>3 DEF RestInv, Supplied, Orderly, Checkpoints, NoState
    <3>5. \A q \in Procs : Brought(q)'
      BY <3>1, <3>2 DEF Brought
    <3>. QED  BY <3>4, <3>5 DEF RestInv
  <2>19. CASE MainAdvances \/ Recover \/ UNCHANGED vars
    <3>1. UNCHANGED <<lifeVars, request, plan, attempts, directories, pc, gone, disrupted>>
      BY <2>19 DEF MainAdvances, Recover, vars, lockVars, fileVars, attemptVars, Lock!Free
    <3>. QED  BY <3>1
      DEF RestInv, Supplied, Brought, Orderly, Calm, Undisturbed, lifeVars
  <2>. QED
    BY <2>1, <2>2, <2>3, <2>4, <2>5, <2>6, <2>7, <2>8, <2>9, <2>10, <2>11, <2>12, <2>13,
       <2>14, <2>15, <2>16, <2>17, <2>18, <2>19
    DEF Next, Operation
<1>. QED  BY <1>1, <1>2, Invariance, PTL DEF Spec

\* Nobody is in an operation while no lock is held.
LEMMA AtRest ==
  ASSUME IInv, RestInv, Undisturbed, owner = None
  PROVE  Orderly /\ \A p \in Procs : pc[p] = "idle"
<1>1. \A p \in Procs : pc[p] = "idle"
  BY ControllerConstants DEF IInv, Locked
<1>. QED  BY <1>1 DEF RestInv, Calm

\* For any processes, faults and bounds: when no controller died and nothing failed but
\* the agent, audit accepts every change that is at rest, unless it is to be planned.
THEOREM RestAudited == Spec => []RestIsAuditable
<1>1. IInv /\ RestInv => RestIsAuditable
  <2>. SUFFICES ASSUME IInv, RestInv, Undisturbed, owner = None,
                       status \notin {NoState, "normalized"}
                PROVE  AuditAccepts
    BY DEF RestIsAuditable
  <2>1. Orderly /\ \A p \in Procs : pc[p] = "idle"
    BY AtRest
  <2>2. status \in {"generated", "validated", "gate2_approved"} =>
          /\ plan # None /\ sealed[attempt] = plan /\ candidate = attempt /\ Gate1Holds(plan)
          /\ attempts[attempt] = IF status = "generated" THEN "generated" ELSE "validated"
    BY <2>1 DEF IInv, StateIsProved, RestInv, Supplied, Orderly
  <2>3. status = "gate2_approved" => Gate2Holds(sealed[attempt])
    BY <2>2 DEF IInv, StateIsProved
  <2>4. /\ request /\ status # "published"
        /\ status \notin {"received", "failed", "rejected"} => plan # None
    BY DEF IInv, TypeOK, RestInv, Supplied, ChangeStates, Checkpoints, TerminalStates
  <2>. QED  BY <2>2, <2>3, <2>4 DEF AuditAccepts, CandidateUsable
<1>. QED  BY <1>1, Invariance, RestInvariance, PTL

\* For any processes, faults and bounds: when no controller died and nothing failed but
\* the agent, the directories of the attempt a change waits with are still to be made.
THEOREM GenerateFree == Spec => []GenerateNotBlocked
<1>1. IInv /\ RestInv => GenerateNotBlocked
  BY AtRest DEF GenerateNotBlocked, Orderly, Made
<1>. QED  BY <1>1, Invariance, RestInvariance, PTL

-----------------------------------------------------------------------------
(***************************************************************************)
(* What a request is made from.                                            *)
(***************************************************************************)
\* Induction over an interval: the least counterexample has none before it.
LEMMA Ascending ==
  ASSUME NEW N \in Nat, NEW S, 0 \in S, \A n \in 1 .. N : n - 1 \in S => n \in S
  PROVE  0 .. N \subseteq S
<1> DEFINE missing == {n \in 0 .. N : n \notin S}
<1>1. SUFFICES ASSUME missing # {} PROVE FALSE
  OBVIOUS
<1>2. missing \subseteq Nat
  OBVIOUS
<1> HIDE DEF missing
<1>3. PICK n \in missing : \A m \in missing : ~(<<m, n>> \in OpToRel(<, Nat))
  BY <1>1, <1>2, NatLessThanWellFounded, WFMin
<1> USE DEF missing
<1>4. n \in 1 .. N
  OBVIOUS
<1>5. <<n - 1, n>> \in OpToRel(<, Nat)
  BY <1>4 DEF OpToRel
<1> HIDE DEF missing
<1>6. n - 1 \notin missing
  BY <1>3, <1>5
<1> USE DEF missing
<1>7. n - 1 \in S
  BY <1>4, <1>6
<1>8. QED
  BY <1>4, <1>7

\* The three recursions of Intake have a value at each step.
Collected(after, entries) ==
  /\ Intake!FilesOf(entries) = after[Len(entries)]
  /\ after[0] = <<>>
  /\ \A n \in 1 .. Len(entries) : after[n] = Intake!WithFile(after[n - 1], entries[n])

Followed(after, entrypoint, files, N) ==
  /\ Intake!Reached(entrypoint, files) = after[N]
  /\ after[0] = Intake!ImportsOf(entrypoint, files[entrypoint])
  /\ \A n \in 1 .. N : after[n] = Intake!Further(after[n - 1], files)

Stepped(after, intake, steps, died) ==
  /\ Intake!Taken(intake, steps, died) = after[died]
  /\ after[0] = intake
  /\ \A n \in 1 .. died : after[n] = Intake!Step(after[n - 1], steps[n])

LEMMA FilesByEntry ==
  ASSUME NEW entries, Len(entries) \in Nat
  PROVE  \E after : Collected(after, entries)
<1> DEFINE N == Len(entries)
           Defined(f, n) == f = [m \in 0 .. n |-> IF m = 0 THEN <<>>
                                   ELSE Intake!WithFile(f[m - 1], entries[m])]
           S == {n \in 0 .. N : \E f : Defined(f, n)}
<1>1. 0 \in S
  <2> DEFINE g == [m \in 0 .. 0 |-> <<>>]
  <2>1. Defined(g, 0)
    OBVIOUS
  <2> HIDE DEF g
  <2>2. \E f : Defined(f, 0)
    BY <2>1
  <2>3. QED
    BY <2>2
<1>2. ASSUME NEW n \in 1 .. N, n - 1 \in S PROVE n \in S
  <2>1. PICK f : Defined(f, n - 1)
    BY <1>2
  <2> DEFINE g == [m \in 0 .. n |-> IF m = n THEN Intake!WithFile(f[n - 1], entries[n])
                                    ELSE f[m]]
  <2>2. \A m \in 0 .. n : g[m] = IF m = 0 THEN <<>>
                                 ELSE Intake!WithFile(g[m - 1], entries[m])
    BY <2>1
  <2>3. Defined(g, n)
    BY <2>2
  <2> HIDE DEF g, Defined
  <2>4. \E h : Defined(h, n)
    BY <2>3
  <2>5. QED
    BY <2>4
<1>3. N \in S
  <2> HIDE DEF S, N
  <2>1. N \in Nat
    BY DEF N
  <2>2. \A n \in 1 .. N : n - 1 \in S => n \in S
    BY <1>2
  <2>3. 0 .. N \subseteq S
    BY <1>1, <2>1, <2>2, Ascending
  <2>4. QED
    BY <2>1, <2>3
<1>4. PICK f : Defined(f, N)
  BY <1>3
<1> DEFINE after == CHOOSE g : Defined(g, N)
<1>5. Defined(after, N)
  BY <1>4
<1>6. Intake!FilesOf(entries) = after[N]
  BY DEF Intake!FilesOf
<1> HIDE DEF after
<1>7. after[0] = <<>>
  BY <1>5
<1>8. \A n \in 1 .. N : after[n] = Intake!WithFile(after[n - 1], entries[n])
  BY <1>5
<1>9. QED
  BY <1>6, <1>7, <1>8 DEF Collected

LEMMA ReachedByImport ==
  ASSUME NEW entrypoint, NEW files, NEW N \in Nat, N = Intake!Cardinality(DOMAIN files)
  PROVE  \E after : Followed(after, entrypoint, files, N)
<1> DEFINE first == Intake!ImportsOf(entrypoint, files[entrypoint])
           Defined(f, n) == f = [m \in 0 .. n |-> IF m = 0 THEN first
                                   ELSE Intake!Further(f[m - 1], files)]
           S == {n \in 0 .. N : \E f : Defined(f, n)}
<1>1. 0 \in S
  <2> DEFINE g == [m \in 0 .. 0 |-> first]
  <2>1. Defined(g, 0)
    OBVIOUS
  <2> HIDE DEF g
  <2>2. \E f : Defined(f, 0)
    BY <2>1
  <2>3. QED
    BY <2>2
<1>2. ASSUME NEW n \in 1 .. N, n - 1 \in S PROVE n \in S
  <2>1. PICK f : Defined(f, n - 1)
    BY <1>2
  <2> DEFINE g == [m \in 0 .. n |-> IF m = n THEN Intake!Further(f[n - 1], files) ELSE f[m]]
  <2>2. \A m \in 0 .. n : g[m] = IF m = 0 THEN first ELSE Intake!Further(g[m - 1], files)
    BY <2>1
  <2>3. Defined(g, n)
    BY <2>2
  <2> HIDE DEF g, Defined
  <2>4. \E h : Defined(h, n)
    BY <2>3
  <2>5. QED
    BY <2>4
<1>3. N \in S
  <2> HIDE DEF S
  <2>1. QED
    BY <1>1, <1>2, Ascending
<1>4. PICK f : Defined(f, N)
  BY <1>3
<1> DEFINE after == CHOOSE g : Defined(g, N)
<1>5. Defined(after, N)
  BY <1>4
<1>6. Intake!Reached(entrypoint, files) = after[N]
  BY DEF Intake!Reached
<1> HIDE DEF after
<1>7. after[0] = first
  BY <1>5
<1>8. \A n \in 1 .. N : after[n] = Intake!Further(after[n - 1], files)
  BY <1>5
<1>9. QED
  BY <1>6, <1>7, <1>8 DEF Followed

LEMMA TakenByStep ==
  ASSUME NEW intake, NEW steps, NEW died \in Nat
  PROVE  \E after : Stepped(after, intake, steps, died)
<1> DEFINE Defined(f, n) == f = [m \in 0 .. n |-> IF m = 0 THEN intake
                                   ELSE Intake!Step(f[m - 1], steps[m])]
           S == {n \in 0 .. died : \E f : Defined(f, n)}
<1>1. 0 \in S
  <2> DEFINE g == [m \in 0 .. 0 |-> intake]
  <2>1. Defined(g, 0)
    OBVIOUS
  <2> HIDE DEF g
  <2>2. \E f : Defined(f, 0)
    BY <2>1
  <2>3. QED
    BY <2>2
<1>2. ASSUME NEW n \in 1 .. died, n - 1 \in S PROVE n \in S
  <2>1. PICK f : Defined(f, n - 1)
    BY <1>2
  <2> DEFINE g == [m \in 0 .. n |-> IF m = n THEN Intake!Step(f[n - 1], steps[n]) ELSE f[m]]
  <2>2. \A m \in 0 .. n : g[m] = IF m = 0 THEN intake ELSE Intake!Step(g[m - 1], steps[m])
    BY <2>1
  <2>3. Defined(g, n)
    BY <2>2
  <2> HIDE DEF g, Defined
  <2>4. \E h : Defined(h, n)
    BY <2>3
  <2>5. QED
    BY <2>4
<1>3. died \in S
  <2> HIDE DEF S
  <2>1. QED
    BY <1>1, <1>2, Ascending
<1>4. PICK f : Defined(f, died)
  BY <1>3
<1> DEFINE after == CHOOSE g : Defined(g, died)
<1>5. Defined(after, died)
  BY <1>4
<1>6. Intake!Taken(intake, steps, died) = after[died]
  BY DEF Intake!Taken
<1> HIDE DEF after
<1>7. after[0] = intake
  BY <1>5
<1>8. \A n \in 1 .. died : after[n] = Intake!Step(after[n - 1], steps[n])
  BY <1>5
<1>9. QED
  BY <1>6, <1>7, <1>8 DEF Stepped

-----------------------------------------------------------------------------
\* Following imports ends where every import leads back: as long as it goes on, each
\* step has found another file.
LEMMA SameNumber == ASSUME NEW S, IsFiniteSet(S) PROVE Intake!Cardinality(S) = Cardinality(S)
BY DEF Cardinality, Intake!Cardinality

LEMMA ReachedIsClosed ==
  ASSUME NEW files, IsFiniteSet(DOMAIN files), NEW entrypoint,
         NEW reached, reached = Intake!Reached(entrypoint, files), reached \subseteq DOMAIN files
  PROVE  /\ Intake!ImportsOf(entrypoint, files[entrypoint]) \subseteq reached
         /\ \A path \in reached : Intake!ImportsOf(path, files[path]) \subseteq reached
<1> DEFINE N == Cardinality(DOMAIN files)
<1>1. N \in Nat /\ N = Intake!Cardinality(DOMAIN files)
  BY FS_CardinalityType, SameNumber
<1> HIDE DEF N
<1>2. PICK after : Followed(after, entrypoint, files, N)
  BY <1>1, ReachedByImport
<1>3. /\ reached = after[N]
      /\ after[0] = Intake!ImportsOf(entrypoint, files[entrypoint])
      /\ \A n \in 1 .. N : after[n] = Intake!Further(after[n - 1], files)
  BY <1>2 DEF Followed
<1>4. \A paths : paths \subseteq Intake!Further(paths, files)
  BY DEF Intake!Further
<1>5. \A n \in 0 .. N : \A m \in 0 .. n : after[m] \subseteq after[n]
  <2> DEFINE S == {n \in 0 .. N : \A m \in 0 .. n : after[m] \subseteq after[n]}
  <2>1. 0 \in S
    BY <1>1
  <2>2. ASSUME NEW n \in 1 .. N, n - 1 \in S PROVE n \in S
    <3>1. after[n - 1] \subseteq after[n]
      BY <1>3, <1>4
    <3>2. \A m \in 0 .. n : m = n \/ m \in 0 .. n - 1
      OBVIOUS
    <3>3. QED
      BY <2>2, <3>1, <3>2
  <2>3. 0 .. N \subseteq S
    <3> HIDE DEF S
    <3>1. QED
      BY <1>1, <2>1, <2>2, Ascending
  <2>4. QED
    BY <2>3
<1>6. \A n \in 0 .. N : /\ after[n] \subseteq DOMAIN files /\ IsFiniteSet(after[n])
                        /\ Cardinality(after[n]) \in Nat
  <2>1. ASSUME NEW n \in 0 .. N PROVE after[n] \subseteq DOMAIN files
    BY <1>1, <1>3, <1>5
  <2>2. QED
    BY <2>1, FS_Subset, FS_CardinalityType
<1> DEFINE Ended(n) == Intake!Further(after[n], files) = after[n]
           S == {n \in 0 .. N : Ended(n) \/ Cardinality(after[n]) > n}
<1>7. 0 \in S
  <2>1. CASE after[0] = {}
    <3>1. Ended(0)
      BY <2>1 DEF Intake!Further
    <3>2. QED
      BY <1>1, <3>1
  <2>2. CASE after[0] # {}
    BY <1>1, <1>6, <2>2, FS_EmptySet
  <2>3. QED
    BY <2>1, <2>2
<1>8. ASSUME NEW n \in 1 .. N, n - 1 \in S PROVE n \in S
  <2>1. after[n] = Intake!Further(after[n - 1], files)
    BY <1>3
  <2>2. CASE Ended(n - 1)
    BY <2>1, <2>2
  <2>3. CASE ~Ended(n - 1)
    <3>1. Cardinality(after[n - 1]) > n - 1
      BY <1>8, <2>3
    <3>2. after[n - 1] \subseteq after[n] /\ after[n - 1] # after[n]
      BY <1>4, <2>1, <2>3
    <3>3. n - 1 \in 0 .. N /\ n \in 0 .. N
      BY <1>1
    <3>4. /\ IsFiniteSet(after[n]) /\ Cardinality(after[n]) \in Nat
          /\ Cardinality(after[n - 1]) \in Nat
      BY <1>6, <3>3
    <3>5. /\ Cardinality(after[n - 1]) <= Cardinality(after[n])
          /\ Cardinality(after[n - 1]) # Cardinality(after[n])
      BY <3>2, <3>4, FS_Subset
    <3>6. Cardinality(after[n - 1]) < Cardinality(after[n])
      BY <3>4, <3>5
    <3>7. QED
      BY <1>6, <3>1, <3>6, <3>3
  <2>4. QED
    BY <2>2, <2>3
<1>9. 0 .. N \subseteq S
  <2> HIDE DEF S
  <2>1. QED
    BY <1>1, <1>7, <1>8, Ascending
<1>10. Cardinality(after[N]) <= N
  BY <1>1, <1>6, FS_Subset DEF N
<1>11. Ended(N)
  BY <1>1, <1>6, <1>9, <1>10
<1>12. after[0] \subseteq reached
  BY <1>1, <1>3, <1>5
<1>13. ASSUME NEW path \in reached PROVE Intake!ImportsOf(path, files[path]) \subseteq reached
  BY <1>3, <1>11 DEF Intake!Further
<1>14. QED
  BY <1>3, <1>12, <1>13

-----------------------------------------------------------------------------
\* The files of a package are entries of it.
EntriesOf(package) == {package.entries[n] : n \in DOMAIN package.entries}

LEMMA FilesAreEntries ==
  ASSUME NEW package \in Packages
  PROVE  Intake!FilesOf(package.entries) \in Seq(EntriesOf(package))
<1> DEFINE N == Len(package.entries)
<1>1. package.entries \in Seq(EntriesOf(package)) /\ N \in Nat
  BY PackageConstants DEF EntriesOf
<1>2. PICK after : Collected(after, package.entries)
  BY <1>1, FilesByEntry
<1> DEFINE S == {n \in 0 .. N : after[n] \in Seq(EntriesOf(package))}
<1>3. 0 \in S
  <2>1. after[0] = <<>>
    BY <1>2 DEF Collected
  <2>2. <<>> \in Seq(EntriesOf(package))
    OBVIOUS
  <2>3. 0 \in 0 .. N
    BY <1>1
  <2> HIDE DEF N
  <2>4. QED
    BY <2>1, <2>2, <2>3
<1>4. ASSUME NEW n \in 1 .. N, n - 1 \in S PROVE n \in S
  <2>1. after[n] = Intake!WithFile(after[n - 1], package.entries[n])
    BY <1>2 DEF Collected
  <2>2. package.entries[n] \in EntriesOf(package)
    BY <1>1
  <2>3. after[n - 1] \in Seq(EntriesOf(package))
    BY <1>4
  <2>4. after[n] \in Seq(EntriesOf(package))
    BY <2>1, <2>2, <2>3 DEF Intake!WithFile
  <2>5. QED
    BY <2>4
<1>5. 0 .. N \subseteq S
  <2> HIDE DEF S, N
  <2>1. QED
    BY <1>1, <1>3, <1>4, Ascending
<1>6. after[N] \in Seq(EntriesOf(package))
  BY <1>1, <1>5
<1>7. QED
  BY <1>2, <1>6 DEF Collected

\* What was read of a package: file by file, the composed path and the bytes of an entry.
IsFileOf(file, package) ==
  \E n \in DOMAIN package.entries :
    /\ file.path = Intake!Normalized(package.entries[n].path)
    /\ file.bytes = package.entries[n].bytes
    /\ Intake!SafePath(package.entries[n].path)
    /\ ~file.bytes.secret
FilesRead(package) == {file \in [path : {Intake!Normalized(e.path) : e \in EntriesOf(package)},
                                 bytes : {e.bytes : e \in EntriesOf(package)}] :
                        IsFileOf(file, package)}

LEMMA ReadOfPackage ==
  ASSUME NEW package \in Packages, NEW read, read = Intake!Read(package), read # None
  PROVE  /\ read \in Seq(FilesRead(package)) /\ Len(read) = Len(Intake!FilesOf(package.entries))
         /\ \A n \in DOMAIN package.entries : Intake!SafePath(package.entries[n].path)
         /\ Intake!UniquePaths(Intake!Registered(package))
         /\ package.form = "archive" => ~package.archive.secret
<1> DEFINE files == Intake!FilesOf(package.entries)
           file(n) == [path |-> Intake!Normalized(files[n].path), bytes |-> files[n].bytes]
<1>1. files \in Seq(EntriesOf(package))
  BY FilesAreEntries
<1>2. /\ read = [n \in DOMAIN files |-> file(n)]
      /\ \A n \in DOMAIN package.entries : Intake!SafePath(package.entries[n].path)
      /\ Intake!UniquePaths(Intake!Registered(package))
      /\ \A n \in DOMAIN files : Intake!Inert(files[n].path, files[n].bytes)
      /\ package.form = "archive" => Intake!ZipAccepted(package, files)
  BY DEF Intake!Read
<1>3. ASSUME NEW n \in DOMAIN files PROVE file(n) \in FilesRead(package)
  <2>1. files[n] \in EntriesOf(package)
    BY <1>1
  <2>2. PICK m \in DOMAIN package.entries : files[n] = package.entries[m]
    BY <2>1 DEF EntriesOf
  <2>3. ~files[n].bytes.secret
    BY <1>2 DEF Intake!Inert
  <2>4. IsFileOf(file(n), package)
    BY <1>2, <2>2, <2>3 DEF IsFileOf
  <2>5. QED
    BY <2>1, <2>4 DEF FilesRead
<1>4. read \in Seq(FilesRead(package)) /\ Len(read) = Len(files)
  <2>1. DOMAIN files = 1 .. Len(files) /\ Len(files) \in Nat
    BY <1>1
  <2> HIDE DEF files, file
  <2>2. read \in [1 .. Len(files) -> FilesRead(package)]
    BY <1>2, <1>3, <2>1
  <2>3. QED
    BY <2>1, <2>2
<1>5. package.form = "archive" => ~package.archive.secret
  BY <1>2 DEF Intake!ZipAccepted
<1>6. QED
  BY <1>2, <1>4, <1>5

\* The files by their paths.
LEMMA BytesOfRead ==
  ASSUME NEW package \in Packages, NEW read, read = Intake!Read(package), read # None,
         NEW bytes, bytes = Intake!BytesOf(read)
  PROVE  /\ IsFiniteSet(DOMAIN bytes)
         /\ \A path \in DOMAIN bytes : \E n \in DOMAIN read :
              path = read[n].path /\ bytes[path] = read[n].bytes
         /\ \A path \in DOMAIN bytes : \E n \in DOMAIN package.entries :
              /\ path = Intake!Normalized(package.entries[n].path)
              /\ Intake!SafePath(package.entries[n].path)
<1> DEFINE paths == {read[n].path : n \in DOMAIN read}
           which(path) == CHOOSE n \in DOMAIN read : read[n].path = path
<1>1. read \in Seq(FilesRead(package)) /\ Len(read) \in Nat /\ DOMAIN read = 1 .. Len(read)
  BY ReadOfPackage
<1>2. bytes = [path \in paths |-> read[which(path)].bytes]
  BY DEF Intake!BytesOf
<1>3. DOMAIN bytes = paths
  BY <1>2
<1>4. IsFiniteSet(DOMAIN read)
  BY <1>1, FS_Interval
<1>5. IsFiniteSet(paths)
  <2> DEFINE f == [n \in DOMAIN read |-> read[n].path]
  <2>1. f \in Surjection(DOMAIN read, paths)
    BY DEF Surjection
  <2>2. QED
    BY <1>4, <2>1, FS_Surjection
<1>6. ASSUME NEW path \in paths
      PROVE  \E n \in DOMAIN read : path = read[n].path /\ bytes[path] = read[n].bytes
  <2>1. which(path) \in DOMAIN read /\ read[which(path)].path = path
    OBVIOUS
  <2>2. QED
    BY <1>2, <2>1
<1>7. ASSUME NEW path \in paths
      PROVE  \E n \in DOMAIN package.entries :
               /\ path = Intake!Normalized(package.entries[n].path)
               /\ Intake!SafePath(package.entries[n].path)
  <2>1. PICK n \in DOMAIN read : path = read[n].path
    OBVIOUS
  <2>2. IsFileOf(read[n], package)
    BY <1>1 DEF FilesRead
  <2>3. QED
    BY <2>1, <2>2 DEF IsFileOf
<1>8. QED
  BY <1>3, <1>5, <1>6, <1>7

-----------------------------------------------------------------------------
\* A page that is imported: all that it was made of.
IsPage(page, package, beside, metadata, entrypoint) ==
  LET read == Intake!Read(package)
      bytes == Intake!BytesOf(read)
      reached == Intake!Reached(entrypoint, bytes)
      assets == Intake!Assets(DOMAIN bytes, entrypoint, metadata.packagePath, reached)
  IN /\ read # None
     /\ metadata = Intake!LoadMetadata(package, beside, read) /\ metadata # None
     /\ entrypoint = Intake!SelectEntrypoint(DOMAIN bytes, metadata.input.entrypoint)
     /\ entrypoint # None
     /\ Intake!Importable(entrypoint, reached, bytes)
     /\ page.request =
          Intake!Request("page", metadata.input, Intake!Content(entrypoint, bytes[entrypoint]),
                         [path \in assets |-> bytes[path]])
     /\ page.request # None
     /\ page.raw = Intake!RawFiles(package, read)
                     \o IF beside = None THEN <<>> ELSE <<<<beside.bytes, beside.ext>>>>

LEMMA PageImported ==
  ASSUME NEW package, NEW beside, NEW page, page = Intake!ImportPage(package, beside),
         page # None
  PROVE  \E metadata, entrypoint : IsPage(page, package, beside, metadata, entrypoint)
<1> DEFINE read == Intake!Read(package)
           metadata == Intake!LoadMetadata(package, beside, read)
           bytes == Intake!BytesOf(read)
           entrypoint == Intake!SelectEntrypoint(DOMAIN bytes, metadata.input.entrypoint)
<1>1. IsPage(page, package, beside, metadata, entrypoint)
  BY DEF IsPage, Intake!ImportPage
<1>2. QED
  BY <1>1

\* Its entrypoint is one of its files.
LEMMA EntrypointIsFile ==
  ASSUME NEW paths, NEW declared, NEW entrypoint,
         entrypoint = Intake!SelectEntrypoint(paths, declared), entrypoint # None
  PROVE  entrypoint \in paths
<1> DEFINE candidates == {path \in paths : Intake!Ext(path) \in Intake!PageExtensions}
           chosen == IF declared # None THEN candidates \cap {declared} ELSE candidates
<1>1. Intake!Cardinality(chosen) = 1 /\ entrypoint = CHOOSE path \in chosen : TRUE
  BY DEF Intake!SelectEntrypoint
<1>2. chosen # {}
  BY <1>1, FS_EmptySet, SameNumber
<1>3. entrypoint \in chosen
  BY <1>1, <1>2
<1>4. QED
  BY <1>3

\* Of what is kept as metadata nothing else was said.
LEMMA MetadataOfPage ==
  ASSUME NEW package \in Packages, NEW beside, NEW read, read = Intake!Read(package),
         read # None, NEW metadata, metadata = Intake!LoadMetadata(package, beside, read),
         metadata # None
  PROVE  /\ \A path \in DOMAIN Intake!BytesOf(read) :
              path = metadata.packagePath => Intake!IsMetadata(path, beside)
         /\ beside # None => ~beside.bytes.secret
<1>1. ASSUME NEW path \in DOMAIN Intake!BytesOf(read) PROVE path # <<>>
  <2>1. PICK n \in DOMAIN package.entries :
               /\ path = Intake!Normalized(package.entries[n].path)
               /\ Intake!SafePath(package.entries[n].path)
    BY BytesOfRead
  <2>2. package.entries[n].path # <<>> /\ package.entries[n].path \in Seq(DOMAIN Nfc)
    BY <2>1, PackageConstants DEF Intake!SafePath
  <2>3. DOMAIN path = DOMAIN package.entries[n].path
    BY <2>1 DEF Intake!Normalized
  <2>4. QED
    BY <2>2, <2>3
<1>2. CASE beside # None
  <2>1. metadata = Intake!ParseMetadata(beside.bytes, beside.ext,
                                        Intake!PackagePath(package, beside, read))
    BY <1>2 DEF Intake!LoadMetadata
  <2>2. /\ metadata.packagePath = Intake!PackagePath(package, beside, read)
        /\ ~beside.bytes.secret
    BY <2>1 DEF Intake!ParseMetadata
  <2>3. Intake!PackagePath(package, beside, read) \in {beside.path, <<>>}
    BY DEF Intake!PackagePath
  <2>4. QED
    BY <1>1, <1>2, <2>2, <2>3 DEF Intake!IsMetadata
<1>3. CASE beside = None
  <2> DEFINE found == {n \in DOMAIN read : Len(read[n].path) = 1 /\
                 Key[read[n].path[1]] \in {"page-meta.json", "page-meta.yaml", "page-meta.md"}}
             file == read[CHOOSE n \in found : TRUE]
  <2>1. /\ Intake!Cardinality(found) = 1
        /\ metadata = Intake!ParseMetadata(file.bytes, Intake!Ext(file.path), file.path)
    BY <1>3 DEF Intake!LoadMetadata
  <2> HIDE DEF found
  <2>2. found # {}
    BY <2>1, FS_EmptySet, SameNumber
  <2>3. (CHOOSE n \in found : TRUE) \in found
    BY <2>2
  <2>4. metadata.packagePath = file.path
    <3> HIDE DEF file
    <3>1. QED
      BY <2>1 DEF Intake!ParseMetadata
  <2> USE DEF found
  <2>5. Intake!IsMetadata(file.path, beside)
    BY <2>3 DEF Intake!IsMetadata
  <2>6. QED
    BY <1>3, <2>4, <2>5
<1>4. QED
  BY <1>2, <1>3

\* Everything a page leads to is a file of the package and an asset of the request, but
\* for the page itself and its metadata.
IsKept(path, page, beside, bytes, data) ==
  /\ path \in DOMAIN bytes
  /\ \/ path = page \/ Intake!IsMetadata(path, beside)
     \/ path \in DOMAIN data.assets /\ data.assets[path] = bytes[path]

LEMMA PageIsClosed ==
  ASSUME NEW package \in Packages, NEW beside, Intake!ImportPage(package, beside) # None
  PROVE  Intake!ClosedUnderImports(package, beside)
<1> DEFINE page == Intake!ImportPage(package, beside)
           read == Intake!Read(package)
           bytes == Intake!BytesOf(read)
           data == page.request.data
<1>1. PICK metadata, entrypoint : IsPage(page, package, beside, metadata, entrypoint)
  BY PageImported
<1> DEFINE reached == Intake!Reached(entrypoint, bytes)
           assets == Intake!Assets(DOMAIN bytes, entrypoint, metadata.packagePath, reached)
<1>2. /\ read # None /\ metadata = Intake!LoadMetadata(package, beside, read) /\ metadata # None
      /\ entrypoint = Intake!SelectEntrypoint(DOMAIN bytes, metadata.input.entrypoint)
      /\ entrypoint # None /\ Intake!Importable(entrypoint, reached, bytes)
      /\ page.request = Intake!Request("page", metadata.input,
                            Intake!Content(entrypoint, bytes[entrypoint]),
                            [path \in assets |-> bytes[path]])
      /\ page.request # None
  BY <1>1 DEF IsPage
<1>3. data.content.of = bytes[entrypoint] /\ data.assets = [path \in assets |-> bytes[path]]
  <2> HIDE DEF page, read, bytes, reached, assets
  <2>1. QED
    BY <1>2 DEF Intake!Request, Intake!Content
<1>4. entrypoint \in DOMAIN bytes
  BY <1>2, EntrypointIsFile
<1>5. reached \subseteq DOMAIN bytes
  BY <1>2 DEF Intake!Importable
<1>6. IsFiniteSet(DOMAIN bytes)
  BY <1>2, BytesOfRead
<1>7. /\ Intake!ImportsOf(entrypoint, bytes[entrypoint]) \subseteq reached
      /\ \A path \in reached : Intake!ImportsOf(path, bytes[path]) \subseteq reached
  <2> HIDE DEF bytes
  <2>1. QED
    BY <1>5, <1>6, ReachedIsClosed
<1>8. ASSUME NEW path \in reached PROVE IsKept(path, entrypoint, beside, bytes, data)
  <2>1. path \in DOMAIN bytes
    BY <1>5
  <2>2. path = metadata.packagePath => Intake!IsMetadata(path, beside)
    BY <1>2, <2>1, MetadataOfPage
  <2>3. path \in assets \/ path = metadata.packagePath \/ path = entrypoint
    <3> HIDE DEF reached, bytes
    <3>1. QED
      BY <2>1 DEF Intake!Assets
  <2>4. QED
    <3> HIDE DEF bytes, assets, data
    <3>1. QED
      BY <1>3, <2>1, <2>2, <2>3 DEF IsKept
<1> HIDE DEF page, read, reached, assets
<1>9. QED
  <2>1. \A one \in Intake!ImportsOf(entrypoint, bytes[entrypoint]) :
          /\ IsKept(one, entrypoint, beside, bytes, data)
          /\ \A two \in Intake!ImportsOf(one, bytes[one]) :
               /\ IsKept(two, entrypoint, beside, bytes, data)
               /\ \A three \in Intake!ImportsOf(two, bytes[two]) :
                    IsKept(three, entrypoint, beside, bytes, data)
    <3> HIDE DEF bytes, data
    <3>1. QED
      BY <1>7, <1>8
  <2>2. QED
    BY <1>3, <1>4, <2>1 DEF Intake!ClosedUnderImports, IsKept, read, page

\* Part of the path of a file is the same part, composed, of the entry that it was.
LEMMA ComponentOfEntry ==
  ASSUME NEW package \in Packages, NEW n \in DOMAIN package.entries,
         Intake!SafePath(package.entries[n].path),
         NEW c \in Intake!Components(Intake!Normalized(package.entries[n].path))
  PROVE  \E d \in Intake!Components(Intake!Registered(package)[n]) :
           c = [i \in DOMAIN d |-> Nfc[d[i]]]
<1> DEFINE path == package.entries[n].path
           there == Intake!Registered(package)[n]
           segments == DOMAIN Nfc
<1>1. path \in Seq(segments) /\ path # <<>>
  BY PackageConstants DEF Intake!SafePath
<1>2. \A s \in segments : Nfc[s] \in segments /\ Nfc[Nfc[s]] = Nfc[s]
  BY PackageConstants
<1>3. Intake!Normalized(path) = [i \in DOMAIN path |-> Nfc[path[i]]]
  BY DEF Intake!Normalized
<1>4. /\ there \in Seq(segments) /\ Len(there) = Len(path)
      /\ \A i \in 1 .. Len(path) : Nfc[there[i]] = Nfc[path[i]]
  <2>1. CASE package.form = "directory"
    <3>1. there = Append(Intake!Normalized(Intake!Front(path)), Intake!Last(path))
      BY <2>1 DEF Intake!Registered
    <3>2. /\ Intake!Front(path) \in Seq(segments) /\ Len(Intake!Front(path)) = Len(path) - 1
          /\ \A i \in 1 .. Len(path) - 1 : Intake!Front(path)[i] = path[i]
      <4>1. Len(path) \in Nat /\ Len(path) > 0
        BY <1>1
      <4>2. Intake!Front(path) = SubSeq(path, 1, Len(path) - 1)
        BY DEF Intake!Front
      <4> HIDE DEF path, segments
      <4> DEFINE N == Len(path) - 1
      <4>3. N \in Int /\ 1 \in Int /\ \A i \in 1 .. N : path[i] \in segments
        BY <1>1, <4>1
      <4>4. N - 1 + 1 = N /\ \A i \in 1 .. N : 1 + i - 1 = i
        BY <4>3
      <4>5. N \in Nat
        BY <4>1
      <4> HIDE DEF N
      <4>6. 1 <= N \/ N = 0
        BY <4>5
      <4>7. /\ SubSeq(path, 1, N) \in Seq(segments)
            /\ Len(SubSeq(path, 1, N)) = N
            /\ \A i \in 1 .. N : SubSeq(path, 1, N)[i] = path[i]
        BY <4>3, <4>4, <4>6, SubSeqProperties
      <4>8. QED
        BY <4>2, <4>7 DEF N
    <3> DEFINE front == Intake!Normalized(Intake!Front(path))
    <3>3. /\ front \in Seq(segments) /\ Len(front) = Len(path) - 1
          /\ \A i \in 1 .. Len(path) - 1 : front[i] = Nfc[path[i]]
      <4> HIDE DEF path, segments
      <4>1. front = [i \in 1 .. Len(path) - 1 |-> Nfc[Intake!Front(path)[i]]]
        BY <1>1, <3>2 DEF Intake!Normalized
      <4>2. Len(path) - 1 \in Nat
        BY <1>1
      <4>3. \A i \in 1 .. Len(path) - 1 : Nfc[Intake!Front(path)[i]] \in segments
        BY <1>2, <3>2
      <4>4. QED
        BY <3>2, <4>1, <4>2, <4>3
    <3>4. Intake!Last(path) = path[Len(path)]
      BY DEF Intake!Last
    <3>5. QED
      <4> HIDE DEF path, segments, front
      <4>1. Len(path) \in Nat /\ Len(path) > 0 /\ path[Len(path)] \in segments
        BY <1>1
      <4>2. there \in Seq(segments) /\ Len(there) = Len(path)
        BY <3>1, <3>3, <3>4, <4>1 DEF front
      <4>3. ASSUME NEW i \in 1 .. Len(path) PROVE Nfc[there[i]] = Nfc[path[i]]
        <5>1. i \in 1 .. Len(path) - 1 \/ i = Len(path)
          BY <4>1
        <5>2. CASE i \in 1 .. Len(path) - 1
          <6>1. there[i] = Nfc[path[i]] /\ path[i] \in segments
            BY <1>1, <3>1, <3>3, <4>1, <5>2 DEF front
          <6>2. QED
            BY <1>2, <6>1
        <5>3. CASE i = Len(path)
          BY <3>1, <3>3, <3>4, <4>1, <5>3 DEF front
        <5>4. QED
          BY <5>1, <5>2, <5>3
      <4>4. QED
        BY <4>2, <4>3
  <2>2. CASE package.form # "directory"
    <3>1. there = path
      BY <2>2 DEF Intake!Registered
    <3>2. QED
      BY <1>1, <3>1
  <2>3. QED
    BY <2>1, <2>2
<1>5. PICK k \in DOMAIN Intake!Normalized(path) : c = SubSeq(Intake!Normalized(path), 1, k)
  BY DEF Intake!Components
<1> HIDE DEF path, there, segments
<1>6. k \in 1 .. Len(path)
  BY <1>1, <1>3, <1>5
<1>7. c = [i \in 1 .. k |-> Nfc[path[i]]]
  <2>1. Intake!Normalized(path) \in Seq(segments)
    BY <1>1, <1>2, <1>3
  <2>2. QED
    BY <1>1, <1>3, <1>5, <1>6, <2>1
<1> DEFINE d == SubSeq(there, 1, k)
<1>8. d = [i \in 1 .. k |-> there[i]]
  BY <1>1, <1>4, <1>6
<1>9. d \in Intake!Components(there)
  BY <1>1, <1>4, <1>6 DEF Intake!Components
<1>10. c = [i \in DOMAIN d |-> Nfc[d[i]]]
  <2>1. \A i \in 1 .. k : Nfc[there[i]] = Nfc[path[i]]
    BY <1>1, <1>4, <1>6
  <2> HIDE DEF d
  <2>2. DOMAIN d = 1 .. k /\ \A i \in 1 .. k : d[i] = there[i]
    BY <1>8
  <2>3. \A i \in 1 .. k : Nfc[d[i]] = Nfc[path[i]]
    BY <2>1, <2>2
  <2>4. QED
    BY <1>7, <2>2, <2>3
<1>11. QED
  BY <1>9, <1>10 DEF there

LEMMA PathsApart ==
  ASSUME NEW package \in Packages, Intake!Read(package) # None
  PROVE  Intake!PathsStayApart(package)
<1> DEFINE bytes == Intake!BytesOf(Intake!Read(package))
           paths == Intake!Registered(package)
<1>1. Intake!UniquePaths(paths) /\ DOMAIN paths = DOMAIN package.entries
  BY ReadOfPackage DEF Intake!Registered
<1>2. ASSUME NEW p \in DOMAIN bytes, NEW c \in Intake!Components(p)
      PROVE  \E n \in DOMAIN paths : \E d \in Intake!Components(paths[n]) :
               c = [i \in DOMAIN d |-> Nfc[d[i]]]
  <2>1. PICK n \in DOMAIN package.entries : /\ p = Intake!Normalized(package.entries[n].path)
                                            /\ Intake!SafePath(package.entries[n].path)
    BY BytesOfRead
  <2>2. QED
    BY <1>1, <2>1, ComponentOfEntry
<1>3. ASSUME NEW p \in DOMAIN bytes, NEW c \in Intake!Components(p),
             NEW q \in DOMAIN bytes, NEW d \in Intake!Components(q),
             [n \in DOMAIN c |-> Key[c[n]]] = [n \in DOMAIN d |-> Key[d[n]]]
      PROVE  c = d
  <2>1. PICK m \in DOMAIN paths : \E x \in Intake!Components(paths[m]) :
               c = [i \in DOMAIN x |-> Nfc[x[i]]]
    BY <1>2, <1>3
  <2>2. PICK n \in DOMAIN paths : \E y \in Intake!Components(paths[n]) :
               d = [i \in DOMAIN y |-> Nfc[y[i]]]
    BY <1>2, <1>3
  <2>3. PICK x \in Intake!Components(paths[m]) : c = [i \in DOMAIN x |-> Nfc[x[i]]]
    BY <2>1
  <2>4. PICK y \in Intake!Components(paths[n]) : d = [i \in DOMAIN y |-> Nfc[y[i]]]
    BY <2>2
  <2> HIDE DEF paths, bytes
  <2>5. DOMAIN c = DOMAIN x /\ DOMAIN d = DOMAIN y
    BY <2>3, <2>4
  <2>6. DOMAIN c = DOMAIN d /\ \A i \in DOMAIN c : Key[c[i]] = Key[d[i]]
    <3>1. DOMAIN [i \in DOMAIN c |-> Key[c[i]]] = DOMAIN [i \in DOMAIN d |-> Key[d[i]]]
      BY <1>3
    <3>2. \A j \in DOMAIN c :
            [i \in DOMAIN c |-> Key[c[i]]][j] = [i \in DOMAIN d |-> Key[d[i]]][j]
      BY <1>3
    <3>3. QED
      BY <3>1, <3>2
  <2>7. Intake!MayCollide(x, y)
    BY <2>3, <2>4, <2>5, <2>6 DEF Intake!MayCollide
  <2>8. x = y
    BY <1>1, <2>7 DEF Intake!UniquePaths
  <2>9. QED
    BY <2>3, <2>4, <2>8
<1>4. QED
  BY <1>3 DEF Intake!PathsStayApart

\* However a page is supplied, its files make its request.
LEMMA FormsOfPage ==
  ASSUME NEW package, Intake!ImportPage(package, None) # None,
         NEW other, Intake!ImportPage(other, None) # None, other.entries = package.entries
  PROVE  Intake!ImportPage(other, None).request = Intake!ImportPage(package, None).request
<1> DEFINE page == Intake!ImportPage(package, None)
           same == Intake!ImportPage(other, None)
           read == Intake!Read(package)
           bytes == Intake!BytesOf(read)
<1>1. PICK metadata, entrypoint : IsPage(page, package, None, metadata, entrypoint)
  BY PageImported
<1>2. PICK metadata2, entrypoint2 : IsPage(same, other, None, metadata2, entrypoint2)
  BY PageImported
<1>3. read # None /\ Intake!Read(other) # None
  BY <1>1, <1>2 DEF IsPage
<1>4. Intake!Read(other) = read
  BY <1>3 DEF Intake!Read
<1>5. Intake!LoadMetadata(other, None, read) = Intake!LoadMetadata(package, None, read)
  BY DEF Intake!LoadMetadata
<1> HIDE DEF page, same, read
<1>6. metadata2 = metadata /\ entrypoint2 = entrypoint
  BY <1>1, <1>2, <1>4, <1>5 DEF IsPage, read
<1> DEFINE asked ==
      Intake!Request("page", metadata.input, Intake!Content(entrypoint, bytes[entrypoint]),
        [path \in Intake!Assets(DOMAIN bytes, entrypoint, metadata.packagePath,
                                Intake!Reached(entrypoint, bytes)) |-> bytes[path]])
<1>7. page.request = asked
  BY <1>1 DEF IsPage, read
<1>8. same.request = asked
  BY <1>2, <1>4, <1>6 DEF IsPage
<1>9. QED
  BY <1>7, <1>8 DEF page, same

\* What is kept of a page: the archive, the files and what was beside it.
KeptOf(package, beside) ==
  {kept \in ({package.archive, beside.bytes} \cup {e.bytes : e \in EntriesOf(package)})
              \X ({".zip", beside.ext}
                    \cup {Intake!Ext(file.path) : file \in FilesRead(package)}) :
     ~kept[1].secret}

LEMMA RawOfPage ==
  ASSUME NEW package \in Packages, NEW beside, NEW page,
         page = Intake!ImportPage(package, beside), page # None
  PROVE  page.raw \in Seq(KeptOf(package, beside)) /\ page.request # None
<1> DEFINE read == Intake!Read(package)
           kept == KeptOf(package, beside)
           archive == IF package.form = "archive" THEN <<<<package.archive, ".zip">>>> ELSE <<>>
           files == [n \in DOMAIN read |-> <<read[n].bytes, Intake!Ext(read[n].path)>>]
           given == IF beside = None THEN <<>> ELSE <<<<beside.bytes, beside.ext>>>>
<1>1. PICK metadata, entrypoint : IsPage(page, package, beside, metadata, entrypoint)
  BY PageImported
<1>2. /\ read # None /\ metadata = Intake!LoadMetadata(package, beside, read) /\ metadata # None
      /\ page.request # None
      /\ page.raw = Intake!RawFiles(package, read) \o given
  BY <1>1 DEF IsPage
<1>3. /\ read \in Seq(FilesRead(package))
      /\ package.form = "archive" => ~package.archive.secret
  BY <1>2, ReadOfPackage
<1>4. beside # None => ~beside.bytes.secret
  BY <1>2, MetadataOfPage
<1>5. archive \in Seq(kept)
  <2>1. package.form = "archive" => <<package.archive, ".zip">> \in kept
    BY <1>3 DEF KeptOf
  <2> HIDE DEF kept
  <2>2. QED
    BY <2>1
<1>6. given \in Seq(kept)
  <2>1. beside # None => <<beside.bytes, beside.ext>> \in kept
    BY <1>4 DEF KeptOf
  <2> HIDE DEF kept
  <2>2. QED
    BY <2>1
<1>7. files \in Seq(kept)
  <2>1. ASSUME NEW n \in DOMAIN read
        PROVE  <<read[n].bytes, Intake!Ext(read[n].path)>> \in kept
    <3>1. read[n] \in FilesRead(package)
      BY <1>3
    <3>2. IsFileOf(read[n], package) /\ read[n].bytes \in {e.bytes : e \in EntriesOf(package)}
      BY <3>1 DEF FilesRead
    <3>3. ~read[n].bytes.secret
      BY <3>2 DEF IsFileOf
    <3>4. QED
      BY <3>1, <3>2, <3>3 DEF KeptOf
  <2>2. DOMAIN read = 1 .. Len(read) /\ Len(read) \in Nat
    BY <1>3
  <2> HIDE DEF kept, read
  <2>3. files \in [1 .. Len(read) -> kept]
    BY <2>1, <2>2
  <2>4. QED
    BY <2>2, <2>3
<1>8. Intake!RawFiles(package, read) = archive \o files
  BY DEF Intake!RawFiles
<1> HIDE DEF read, kept, archive, files, given
<1>9. page.raw \in Seq(kept)
  BY <1>2, <1>5, <1>6, <1>7, <1>8
<1>10. QED
  BY <1>2, <1>9 DEF kept

\* What is imported has a request and a list of what to keep beside it.
LEMMA ImportShape ==
  ASSUME NEW import \in Intake!Imports
  PROVE  /\ import # None /\ import.request # None
         /\ Len(import.raw) \in Nat /\ DOMAIN import.raw = 1 .. Len(import.raw)
<1>1. CASE import \in {Intake!ImportPage(page[1], page[2]) : page \in Intake!Pages}
  <2>1. PICK page \in Intake!Pages : import = Intake!ImportPage(page[1], page[2])
    BY <1>1
  <2>2. page[1] \in Packages /\ import # None
    BY <2>1 DEF Intake!Pages
  <2>3. import.raw \in Seq(KeptOf(page[1], page[2])) /\ import.request # None
    BY <2>1, <2>2, RawOfPage
  <2>4. QED
    BY <2>2, <2>3
<1>2. CASE import \in {Intake!ImportRequest(given.bytes, given.ext) : given \in Requests} \ {None}
  <2>1. PICK given \in Requests : import = Intake!ImportRequest(given.bytes, given.ext)
    BY <1>2
  <2>2. import # None
    BY <1>2
  <2>3. import.request # None /\ import.raw = <<<<given.bytes, given.ext>>>>
    BY <2>1, <2>2 DEF Intake!ImportRequest
  <2>4. QED
    BY <2>2, <2>3
<1>3. QED
  BY <1>1, <1>2 DEF Intake!Imports

-----------------------------------------------------------------------------
(***************************************************************************)
(* What a request is kept beside.  As long as nothing of a change is       *)
(* spoilt, what n steps of receiveRequest have done to it is known.        *)
(***************************************************************************)
\* What is kept of a request is what was written of it, all of it as it was written.
Standing(intake, names, asked, state) ==
  /\ DOMAIN intake = {"raw", "request", "state", "failed"}
  /\ intake.failed = FALSE /\ intake.request = asked /\ intake.state = state
  /\ DOMAIN intake.raw = names /\ \A name \in names : intake.raw[name] = TRUE

Written(import, n) == {Intake!RawNames(import)[i] : i \in 1 .. n}

IsListed(import, N) == N \in Nat /\ N = Len(import.raw) /\ DOMAIN import.raw = 1 .. N

LEMMA StepsOf ==
  ASSUME NEW import, NEW N, IsListed(import, N), NEW steps, steps = Intake!Steps(import)
  PROVE  /\ Len(steps) = N + 3
         /\ \A n \in 1 .. N : steps[n] = <<"raw", Intake!RawNames(import)[n]>>
         /\ steps[N + 1] = <<"request", import.request>>
         /\ steps[N + 2] = <<"state", "received">>
         /\ steps[N + 3] = <<"state", "normalized">>
<1> DEFINE name(n) == <<"raw", Intake!RawNames(import)[n]>>
           raws == [n \in 1 .. N |-> name(n)]
           rest == <<<<"request", import.request>>, <<"state", "received">>,
                     <<"state", "normalized">>>>
           All == {name(n) : n \in 1 .. N} \cup {<<"request", import.request>>,
                    <<"state", "received">>, <<"state", "normalized">>}
<1>1. N \in Nat
  BY DEF IsListed
<1>2. steps = raws \o rest
  BY DEF Intake!Steps, IsListed
<1>3. raws \in Seq(All) /\ Len(raws) = N /\ \A n \in 1 .. N : raws[n] = name(n)
  <2>1. \A n \in 1 .. N : name(n) \in All
    OBVIOUS
  <2> HIDE DEF All, name
  <2>2. QED
    BY <1>1, <2>1
<1>4. /\ rest \in Seq(All) /\ Len(rest) = 3 /\ rest[1] = <<"request", import.request>>
      /\ rest[2] = <<"state", "received">> /\ rest[3] = <<"state", "normalized">>
  OBVIOUS
<1> HIDE DEF All, raws, rest, name
<1>5. /\ Len(steps) = N + 3
      /\ \A n \in 1 .. N + 3 : steps[n] = IF n <= N THEN raws[n] ELSE rest[n - N]
  <2>1. /\ Len(raws \o rest) = Len(raws) + Len(rest)
        /\ \A n \in 1 .. Len(raws) + Len(rest) :
             (raws \o rest)[n] = IF n <= Len(raws) THEN raws[n] ELSE rest[n - Len(raws)]
    BY <1>3, <1>4, ConcatProperties, Zenon
  <2>2. Len(raws) = N /\ Len(rest) = 3
    BY <1>3, <1>4
  <2>3. QED
    BY <1>2, <2>1, <2>2, Zenon
<1>6. /\ \A n \in 1 .. N : n \in 1 .. N + 3 /\ n <= N
      /\ N + 1 \in 1 .. N + 3 /\ ~(N + 1 <= N) /\ (N + 1) - N = 1
      /\ N + 2 \in 1 .. N + 3 /\ ~(N + 2 <= N) /\ (N + 2) - N = 2
      /\ N + 3 \in 1 .. N + 3 /\ ~(N + 3 <= N) /\ (N + 3) - N = 3
  BY <1>1
<1>7. \A n \in 1 .. N : steps[n] = raws[n]
  BY <1>5, <1>6
<1>8. steps[N + 1] = rest[1] /\ steps[N + 2] = rest[2] /\ steps[N + 3] = rest[3]
  <2>1. /\ steps[N + 1] = rest[(N + 1) - N] /\ steps[N + 2] = rest[(N + 2) - N]
        /\ steps[N + 3] = rest[(N + 3) - N]
    BY <1>5, <1>6, Zenon
  <2>2. QED
    BY <1>6, <2>1, Zenon
<1>9. QED
  BY <1>3, <1>4, <1>5, <1>7, <1>8 DEF name

LEMMA WriteOfWhole ==
  ASSUME NEW intake, NEW names, NEW asked, NEW state,
         Standing(intake, names, asked, state), NEW name
  PROVE  Standing(Intake!Step(intake, <<"raw", name>>), names \cup {name}, asked, state)
<1>1. Intake!Step(intake, <<"raw", name>>) = Intake!WriteRaw(intake, name)
  BY DEF Intake!Step, Standing
<1>2. CASE name \notin names
  <2>1. Intake!WriteRaw(intake, name)
          = [intake EXCEPT !.raw = Intake!Holding(intake.raw, name, TRUE)]
    BY <1>2 DEF Intake!WriteRaw, Standing
  <2> DEFINE raw == Intake!Holding(intake.raw, name, TRUE)
  <2>2. DOMAIN raw = names \cup {name} /\ \A kept \in names \cup {name} : raw[kept] = TRUE
    BY DEF Intake!Holding, Standing
  <2> HIDE DEF raw
  <2>3. Standing([intake EXCEPT !.raw = raw], names \cup {name}, asked, state)
    BY <2>2 DEF Standing
  <2>4. QED
    BY <1>1, <2>1, <2>3 DEF raw
<1>3. CASE name \in names
  <2>1. Intake!WriteRaw(intake, name) = intake
    BY <1>3 DEF Intake!WriteRaw, Standing
  <2>2. names \cup {name} = names
    BY <1>3
  <2>3. QED
    BY <1>1, <2>1, <2>2
<1>4. QED
  BY <1>2, <1>3

LEMMA StoreOfWhole ==
  ASSUME NEW intake, NEW names, NEW asked, NEW state,
         Standing(intake, names, asked, state), NEW new
  PROVE  /\ Standing(Intake!Step(intake, <<"request", new>>), names, new, state)
         /\ Standing(Intake!Step(intake, <<"state", new>>), names, asked, new)
<1>1. /\ Intake!Step(intake, <<"request", new>>) = [intake EXCEPT !.request = new]
      /\ Intake!Step(intake, <<"state", new>>) = [intake EXCEPT !.state = new]
  BY DEF Intake!Step, Standing
<1>2. QED
  BY <1>1 DEF Standing

\* After n steps.
LEMMA WrittenByStep ==
  ASSUME NEW import, NEW N, IsListed(import, N), NEW intake, NEW names, NEW asked, NEW state,
         Standing(intake, names, asked, state), NEW died \in 0 .. N + 3,
         NEW after, Stepped(after, intake, Intake!Steps(import), died)
  PROVE  \A n \in 0 .. died : n <= N =>
           Standing(after[n], names \cup Written(import, n), asked, state)
<1> DEFINE S == {n \in 0 .. died : n <= N =>
                   Standing(after[n], names \cup Written(import, n), asked, state)}
<1>1. N \in Nat /\ died \in Nat
  BY DEF IsListed
<1>2. /\ after[0] = intake
      /\ \A n \in 1 .. died : after[n] = Intake!Step(after[n - 1], Intake!Steps(import)[n])
  BY DEF Stepped
<1>3. 0 \in S
  <2>1. Written(import, 0) = {}
    BY DEF Written
  <2>2. names \cup Written(import, 0) = names
    BY <2>1
  <2>3. after[0] = intake
    BY <1>2
  <2>4. Standing(after[0], names \cup Written(import, 0), asked, state)
    BY <2>2, <2>3
  <2>5. QED
    BY <1>1, <2>4
<1>4. ASSUME NEW n \in 1 .. died, n - 1 \in S PROVE n \in S
  <2>1. SUFFICES ASSUME n <= N
                 PROVE  Standing(after[n], names \cup Written(import, n), asked, state)
    OBVIOUS
  <2> DEFINE name == Intake!RawNames(import)[n]
  <2>2. Standing(after[n - 1], names \cup Written(import, n - 1), asked, state)
    BY <1>1, <1>4, <2>1
  <2>3. Intake!Steps(import)[n] = <<"raw", name>>
    BY <1>1, <2>1, StepsOf
  <2>4. after[n] = Intake!Step(after[n - 1], <<"raw", name>>)
    BY <1>2, <2>3
  <2>5. Written(import, n) = Written(import, n - 1) \cup {name}
    <3>1. 1 .. n = (1 .. n - 1) \cup {n}
      BY <1>1
    <3>2. QED
      BY <3>1 DEF Written
  <2>6. names \cup Written(import, n) = (names \cup Written(import, n - 1)) \cup {name}
    BY <2>5
  <2> HIDE DEF name
  <2>7. QED
    BY <2>2, <2>4, <2>6, WriteOfWhole
<1>5. 0 .. died \subseteq S
  <2> HIDE DEF S
  <2>1. QED
    BY <1>1, <1>3, <1>4, Ascending
<1>6. QED
  BY <1>5

LEMMA TakenOfWhole ==
  ASSUME NEW import, NEW N, IsListed(import, N), NEW intake, NEW names, NEW asked, NEW state,
         Standing(intake, names, asked, state), NEW died \in 0 .. N + 3,
         NEW last, last = Intake!Taken(intake, Intake!Steps(import), died)
  PROVE  /\ died <= N => Standing(last, names \cup Written(import, died), asked, state)
         /\ died = N + 1 => Standing(last, names \cup Written(import, N), import.request, state)
         /\ died = N + 2 => Standing(last, names \cup Written(import, N), import.request,
                                     "received")
         /\ died = N + 3 => Standing(last, names \cup Written(import, N), import.request,
                                     "normalized")
<1> DEFINE steps == Intake!Steps(import)
           kept == names \cup Written(import, N)
<1>1. N \in Nat /\ died \in Nat
  BY DEF IsListed
<1>2. PICK after : Stepped(after, intake, steps, died)
  BY <1>1, TakenByStep
<1>3. /\ last = after[died]
      /\ \A n \in 1 .. died : after[n] = Intake!Step(after[n - 1], steps[n])
  BY <1>2 DEF Stepped
<1>4. \A n \in 0 .. died : n <= N =>
        Standing(after[n], names \cup Written(import, n), asked, state)
  BY <1>2, WrittenByStep
<1>5. /\ steps[N + 1] = <<"request", import.request>>
      /\ steps[N + 2] = <<"state", "received">>
      /\ steps[N + 3] = <<"state", "normalized">>
  BY StepsOf
<1> HIDE DEF steps
<1>6. died <= N => Standing(last, names \cup Written(import, died), asked, state)
  BY <1>1, <1>3, <1>4
<1>7. died >= N => Standing(after[N], kept, asked, state)
  BY <1>1, <1>4
<1> HIDE DEF kept
<1>8. died >= N + 1 => Standing(after[N + 1], kept, import.request, state)
  <2>1. SUFFICES ASSUME died >= N + 1 PROVE Standing(after[N + 1], kept, import.request, state)
    OBVIOUS
  <2>2. N + 1 \in 1 .. died /\ (N + 1) - 1 = N /\ died >= N
    BY <1>1, <2>1
  <2>3. after[N + 1] = Intake!Step(after[(N + 1) - 1], steps[N + 1])
    BY <1>3, <2>2, Zenon
  <2>4. after[N + 1] = Intake!Step(after[N], <<"request", import.request>>)
    BY <1>5, <2>2, <2>3
  <2>5. QED
    BY <1>7, <2>2, <2>4, StoreOfWhole
<1>9. died >= N + 2 => Standing(after[N + 2], kept, import.request, "received")
  <2>1. SUFFICES ASSUME died >= N + 2
                 PROVE  Standing(after[N + 2], kept, import.request, "received")
    OBVIOUS
  <2>2. N + 2 \in 1 .. died /\ (N + 2) - 1 = N + 1 /\ died >= N + 1
    BY <1>1, <2>1
  <2>3. after[N + 2] = Intake!Step(after[(N + 2) - 1], steps[N + 2])
    BY <1>3, <2>2, Zenon
  <2>4. after[N + 2] = Intake!Step(after[N + 1], <<"state", "received">>)
    BY <1>5, <2>2, <2>3
  <2>5. QED
    BY <1>8, <2>2, <2>4, StoreOfWhole
<1>10. died >= N + 3 => Standing(after[N + 3], kept, import.request, "normalized")
  <2>1. SUFFICES ASSUME died >= N + 3
                 PROVE  Standing(after[N + 3], kept, import.request, "normalized")
    OBVIOUS
  <2>2. N + 3 \in 1 .. died /\ (N + 3) - 1 = N + 2 /\ died >= N + 2
    BY <1>1, <2>1
  <2>3. after[N + 3] = Intake!Step(after[(N + 3) - 1], steps[N + 3])
    BY <1>3, <2>2, Zenon
  <2>4. after[N + 3] = Intake!Step(after[N + 2], <<"state", "normalized">>)
    BY <1>5, <2>2, <2>3
  <2>5. QED
    BY <1>9, <2>2, <2>4, StoreOfWhole
<1>11. QED
  BY <1>1, <1>3, <1>6, <1>8, <1>9, <1>10 DEF kept

\* Wherever it dies a request stands only on what it was made from, and is completed.
Fresh == [raw |-> <<>>, request |-> None, state |-> "none", failed |-> FALSE]

LEMMA ReceivedOnce ==
  ASSUME NEW before \in Intake!Imports, NEW under \in Intake!Imports,
         NEW N, IsListed(under, N), NEW died \in 0 .. N + 3,
         NEW first, first = Intake!Receive(Fresh, before, under, died)
  PROVE  /\ first # Fresh => under.request.data.changeId = before.request.data.changeId
         /\ \/ \E names : Standing(first, names, None, "none")
            \/ Standing(first, Written(under, N), under.request, "none")
            \/ Standing(first, Written(under, N), under.request, "received")
            \/ Standing(first, Written(under, N), under.request, "normalized")
<1>1. N \in Nat /\ before # None /\ under # None /\ Fresh.state = "none"
  BY ImportShape DEF IsListed, Fresh
<1>2. Standing(Fresh, {}, None, "none")
  BY DEF Standing, Fresh
<1>3. CASE under.request.data.changeId # before.request.data.changeId
  <2>1. first = Fresh
    BY <1>3 DEF Intake!Receive
  <2>2. QED
    BY <1>2, <2>1
<1>4. CASE under.request.data.changeId = before.request.data.changeId
  <2>1. first = Intake!Taken(Fresh, Intake!Steps(under), died)
    BY <1>1, <1>4 DEF Intake!Receive
  <2>2. {} \cup Written(under, N) = Written(under, N)
    OBVIOUS
  <2>3. /\ died <= N => Standing(first, {} \cup Written(under, died), None, "none")
        /\ died = N + 1 => Standing(first, {} \cup Written(under, N), under.request, "none")
        /\ died = N + 2 => Standing(first, {} \cup Written(under, N), under.request, "received")
        /\ died = N + 3 => Standing(first, {} \cup Written(under, N), under.request,
                                    "normalized")
    BY <1>2, <2>1, TakenOfWhole
  <2>4. died <= N \/ died = N + 1 \/ died = N + 2 \/ died = N + 3
    BY <1>1
  <2>5. QED
    BY <1>4, <2>2, <2>3, <2>4
<1>5. QED
  BY <1>3, <1>4

LEMMA ReceivedAgain ==
  ASSUME NEW first, NEW names, NEW asked, Standing(first, names, asked, "none"),
         NEW again \in Intake!Imports, NEW N, IsListed(again, N),
         NEW last, last = Intake!Receive(first, again, again, Len(Intake!Steps(again)))
  PROVE  Standing(last, names \cup Written(again, N), again.request, "normalized")
<1>1. N \in Nat /\ again # None /\ first.state = "none" /\ Len(Intake!Steps(again)) = N + 3
  BY ImportShape, StepsOf DEF IsListed, Standing
<1>2. last = Intake!Taken(first, Intake!Steps(again), N + 3)
  BY <1>1 DEF Intake!Receive
<1>3. N + 3 \in 0 .. N + 3 /\ N + 3 = N + 3
  BY <1>1
<1>4. QED
  BY <1>2, <1>3, TakenOfWhole

LEMMA RequestKeptBeside ==
  ASSUME NEW before \in Intake!Imports, NEW under \in Intake!Imports,
         NEW again \in Intake!Imports, NEW died \in 0 .. Len(Intake!Steps(under))
  PROVE  Intake!KeptBeside(before, under, again, died)
<1> DEFINE first == Intake!Receive(Fresh, before, under, died)
           last == Intake!Receive(first, again, again, Len(Intake!Steps(again)))
           N == Len(under.raw)
           M == Len(again.raw)
<1>1. /\ IsListed(under, N) /\ IsListed(again, M) /\ N \in Nat /\ M \in Nat
      /\ under.request # None
  BY ImportShape DEF IsListed
<1>2. /\ Intake!Range(Intake!RawNames(under)) = Written(under, N)
      /\ Intake!Range(Intake!RawNames(again)) = Written(again, M)
  BY <1>1 DEF Intake!Range, Intake!RawNames, Written, IsListed
<1> HIDE DEF N, M
<1>3. died \in 0 .. N + 3
  BY <1>1, StepsOf
<1>4. /\ first # Fresh => under.request.data.changeId = before.request.data.changeId
      /\ \/ \E names : Standing(first, names, None, "none")
         \/ Standing(first, Written(under, N), under.request, "none")
         \/ Standing(first, Written(under, N), under.request, "received")
         \/ Standing(first, Written(under, N), under.request, "normalized")
  BY <1>1, <1>3, ReceivedOnce
<1> HIDE DEF first
<1>5. first.request # None =>
        /\ first.request = under.request
        /\ Intake!Range(Intake!RawNames(under)) \subseteq DOMAIN first.raw
  BY <1>2, <1>4 DEF Standing
<1>6. first.state # "none" => first.request # None /\ last = first
  <2>1. first.state # "none" => first.request # None
    BY <1>1, <1>4 DEF Standing
  <2>2. first.state # "none" => last = first
    BY DEF Intake!Receive
  <2>3. QED
    BY <2>1, <2>2
<1>7. first.state = "none" =>
        /\ last.request = again.request /\ last.state = "normalized"
        /\ Intake!Range(Intake!RawNames(again)) \cup DOMAIN first.raw \subseteq DOMAIN last.raw
  <2>1. SUFFICES ASSUME first.state = "none"
                 PROVE  /\ last.request = again.request /\ last.state = "normalized"
                        /\ Intake!Range(Intake!RawNames(again)) \cup DOMAIN first.raw
                             \subseteq DOMAIN last.raw
    OBVIOUS
  <2>2. PICK names, asked : Standing(first, names, asked, "none")
    BY <1>4, <2>1 DEF Standing
  <2>3. Standing(last, names \cup Written(again, M), again.request, "normalized")
    BY <1>1, <2>2, ReceivedAgain
  <2> HIDE DEF last
  <2>4. QED
    BY <1>2, <2>2, <2>3 DEF Standing
<1>8. QED
  BY <1>4, <1>5, <1>6, <1>7 DEF Intake!KeptBeside, first, Fresh

\* A change one of whose files is not what was written of it: once that file is met, it
\* has failed.
Spoilt(intake, name) ==
  /\ DOMAIN intake = {"raw", "request", "state", "failed"}
  /\ intake.failed \in BOOLEAN /\ intake.request = None /\ intake.state = "none"
  /\ name \in DOMAIN intake.raw /\ intake.raw[name] = FALSE

LEMMA WriteOfSpoilt ==
  ASSUME NEW intake, NEW name, Spoilt(intake, name), NEW other,
         NEW next, next = Intake!Step(intake, <<"raw", other>>)
  PROVE  Spoilt(next, name) /\ (intake.failed \/ other = name => next.failed)
<1>1. CASE intake.failed
  <2>1. next = intake
    BY <1>1 DEF Intake!Step
  <2>2. QED
    BY <1>1, <2>1
<1>2. CASE ~intake.failed
  <2>1. next = Intake!WriteRaw(intake, other)
    BY <1>2 DEF Intake!Step
  <2>2. CASE other \notin DOMAIN intake.raw
    <3> DEFINE raw == Intake!Holding(intake.raw, other, TRUE)
    <3>1. next = [intake EXCEPT !.raw = raw]
      BY <2>1, <2>2 DEF Intake!WriteRaw
    <3>2. name # other /\ name \in DOMAIN raw /\ raw[name] = FALSE
      BY <2>2 DEF Intake!Holding, Spoilt
    <3> HIDE DEF raw
    <3>3. Spoilt(next, name)
      BY <3>1, <3>2 DEF Spoilt
    <3>4. QED
      BY <1>2, <3>2, <3>3
  <2>3. CASE other \in DOMAIN intake.raw /\ intake.raw[other]
    <3>1. next = intake
      BY <2>1, <2>3 DEF Intake!WriteRaw
    <3>2. other # name
      BY <2>3 DEF Spoilt
    <3>3. QED
      BY <1>2, <3>1, <3>2
  <2>4. CASE other \in DOMAIN intake.raw /\ ~intake.raw[other]
    <3>1. next = [intake EXCEPT !.failed = TRUE]
      BY <2>1, <2>4 DEF Intake!WriteRaw
    <3>2. Spoilt(next, name) /\ next.failed
      BY <3>1 DEF Spoilt
    <3>3. QED
      BY <3>2
  <2>5. QED
    BY <2>2, <2>3, <2>4
<1>3. QED
  BY <1>1, <1>2 DEF Spoilt

LEMMA SpoiltRefused ==
  ASSUME NEW under \in Intake!Imports
  PROVE  Intake!SpoiltIsRefused(under)
<1> DEFINE N == Len(under.raw)
           steps == Intake!Steps(under)
<1>1. /\ IsListed(under, N) /\ N \in Nat /\ under # None
  BY ImportShape DEF IsListed
<1>2. DOMAIN under.raw = 1 .. N
  BY <1>1 DEF IsListed
<1> HIDE DEF N
<1>3. Len(steps) = N + 3 /\ \A n \in 1 .. N : steps[n] = <<"raw", Intake!RawNames(under)[n]>>
  BY <1>1, StepsOf
<1> HIDE DEF steps
<1>4. ASSUME NEW n \in 1 .. N,
             NEW spoilt, spoilt = [raw |-> Intake!Holding(<<>>, Intake!RawNames(under)[n], FALSE),
                                   request |-> None, state |-> "none", failed |-> FALSE],
             NEW last, last = Intake!Receive(spoilt, under, under, N + 3)
      PROVE  last.failed /\ last.request = None /\ last.state = "none"
  <2> DEFINE name == Intake!RawNames(under)[n]
             died == N + 3
  <2>1. Spoilt(spoilt, name)
    <3> DEFINE raw == Intake!Holding(<<>>, name, FALSE)
    <3>1. name \in DOMAIN raw /\ raw[name] = FALSE
      BY DEF Intake!Holding
    <3>2. spoilt = [raw |-> raw, request |-> None, state |-> "none", failed |-> FALSE]
      BY <1>4
    <3> HIDE DEF raw, name
    <3>3. QED
      BY <3>1, <3>2 DEF Spoilt
  <2>2. last = Intake!Taken(spoilt, steps, died)
    <3>1. spoilt.state = "none"
      BY <1>4
    <3>2. QED
      BY <1>1, <1>4, <3>1 DEF Intake!Receive, steps
  <2>3. died \in Nat /\ n \in 1 .. died
    BY <1>1
  <2> HIDE DEF died, name
  <2>4. PICK after : Stepped(after, spoilt, steps, died)
    BY <2>3, TakenByStep
  <2>5. /\ last = after[died] /\ after[0] = spoilt
        /\ \A m \in 1 .. died : after[m] = Intake!Step(after[m - 1], steps[m])
    BY <2>2, <2>4 DEF Stepped
  <2> DEFINE S == {m \in 0 .. died : Spoilt(after[m], name) /\ (m >= n => after[m].failed)}
  <2>6. 0 \in S
    BY <2>1, <2>3, <2>5
  <2>7. ASSUME NEW m \in 1 .. died, m - 1 \in S PROVE m \in S
    <3>1. Spoilt(after[m - 1], name) /\ (m - 1 >= n => after[m - 1].failed)
      BY <2>7
    <3>2. after[m] = Intake!Step(after[m - 1], steps[m])
      BY <2>5
    <3>3. CASE m <= n
      <4>1. m \in 1 .. N /\ (m >= n => m = n)
        BY <1>1, <2>3, <3>3
      <4>2. after[m] = Intake!Step(after[m - 1], <<"raw", Intake!RawNames(under)[m]>>)
        BY <1>3, <3>2, <4>1
      <4>3. /\ Spoilt(after[m], name)
            /\ Intake!RawNames(under)[m] = name => after[m].failed
        BY <3>1, <4>2, WriteOfSpoilt
      <4>4. QED
        BY <4>1, <4>3 DEF name
    <3>4. CASE m > n
      <4>1. after[m - 1].failed
        BY <1>1, <2>3, <3>1, <3>4
      <4>2. after[m] = after[m - 1]
        BY <3>2, <4>1 DEF Intake!Step
      <4>3. QED
        BY <3>1, <4>1, <4>2
    <3>5. QED
      BY <1>1, <2>3, <3>3, <3>4
  <2>8. 0 .. died \subseteq S
    <3> HIDE DEF S
    <3>1. QED
      BY <2>3, <2>6, <2>7, Ascending
  <2>9. Spoilt(last, name) /\ last.failed
    BY <2>3, <2>5, <2>8
  <2>10. QED
    BY <2>9 DEF Spoilt
<1>5. QED
  BY <1>2, <1>3, <1>4 DEF Intake!SpoiltIsRefused, steps

\* A page: all that it leads to is kept, its paths stay apart, and no secret is kept.
LEMMA PageIsSupplied ==
  ASSUME NEW page \in Intake!Pages
  PROVE  /\ Intake!ClosedUnderImports(page[1], page[2]) /\ Intake!PathsStayApart(page[1])
         /\ Intake!FormsAgree(page[1], page[2]) /\ Intake!NoSecretKept(page[1], page[2])
<1> DEFINE import == Intake!ImportPage(page[1], page[2])
<1>1. page[1] \in Packages /\ import # None
  BY DEF Intake!Pages
<1>2. Intake!ClosedUnderImports(page[1], page[2])
  BY <1>1, PageIsClosed
<1>3. Intake!PathsStayApart(page[1])
  <2>1. PICK metadata, entrypoint : IsPage(import, page[1], page[2], metadata, entrypoint)
    BY <1>1, PageImported
  <2>2. Intake!Read(page[1]) # None
    BY <2>1 DEF IsPage
  <2>3. QED
    BY <1>1, <2>2, PathsApart
<1>4. Intake!FormsAgree(page[1], page[2])
  <2>1. SUFFICES ASSUME NEW other \in Intake!Pages, other[1].entries = page[1].entries,
                        other[2] = page[2], page[2] = None
                 PROVE  Intake!ImportPage(other[1], page[2]).request = import.request
    BY DEF Intake!FormsAgree
  <2>2. Intake!ImportPage(other[1], None) # None /\ Intake!ImportPage(page[1], None) # None
    BY <1>1, <2>1 DEF Intake!Pages
  <2>3. Intake!ImportPage(other[1], None).request = Intake!ImportPage(page[1], None).request
    BY <2>1, <2>2, FormsOfPage
  <2>4. QED
    BY <2>1, <2>3
<1>5. Intake!NoSecretKept(page[1], page[2])
  <2>1. import.raw \in Seq(KeptOf(page[1], page[2]))
    BY <1>1, RawOfPage
  <2>2. ASSUME NEW n \in DOMAIN import.raw PROVE ~import.raw[n][1].secret
    <3> HIDE DEF import
    <3>1. import.raw[n] \in KeptOf(page[1], page[2])
      BY <2>1
    <3>2. QED
      BY <3>1 DEF KeptOf
  <2>3. QED
    BY <2>2 DEF Intake!NoSecretKept
<1>6. QED
  BY <1>2, <1>3, <1>4, <1>5

\* Whatever a person supplies and wherever the process dies, the request has every file
\* its page leads to under a path of its own, whatever its form, nothing that looks like
\* a credential is kept of it, and it is stored after all that it was made from and stays
\* as it was stored (importers/, receiveRequest of controller.ts).
THEOREM RequestsAreSupplied == RequestIsSupplied
<1>1. ASSUME NEW id \in {import.request.data.changeId : import \in Intake!Imports}
      PROVE  LET before == CHOOSE import \in Intake!Imports : import.request.data.changeId = id
             IN \A under, again \in Intake!Imports : \A died \in 0 .. Len(Intake!Steps(under)) :
                  Intake!KeptBeside(before, under, again, died)
  <2> DEFINE before == CHOOSE import \in Intake!Imports : import.request.data.changeId = id
  <2>1. before \in Intake!Imports
    BY <1>1
  <2> HIDE DEF before
  <2>2. \A under, again \in Intake!Imports : \A died \in 0 .. Len(Intake!Steps(under)) :
          Intake!KeptBeside(before, under, again, died)
    BY <2>1, RequestKeptBeside
  <2>3. QED
    BY <2>2 DEF before
<1>2. QED
  BY <1>1, PageIsSupplied, SpoiltRefused DEF RequestIsSupplied, Intake!RequestIsSupplied
===============================================================================
