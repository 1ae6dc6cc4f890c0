-------------------------- MODULE ProcessGroupsProofs --------------------------
(***************************************************************************)
(* Theorems about the end of a process group, for every runner and every   *)
(* behaviour of the processes it started.                                  *)
(*                                                                         *)
(* A group is looked at in one step and reported in the same step; what    *)
(* makes the report stay true is that a group that is gone cannot come     *)
(* back: a leader that has been waited for starts no child any more.       *)
(***************************************************************************)
EXTENDS ProcessGroups, TLAPS

TypeOK ==
  /\ kind \in Kinds
  /\ stubborn \subseteq Members /\ apart \in BOOLEAN /\ quiet \in BOOLEAN
  /\ born \subseteq Members /\ alive \subseteq born /\ doomed \subseteq Members
  /\ status \in {"none", "zero", "nonzero", "signal"}
  /\ reaped \in BOOLEAN /\ closed \in BOOLEAN
  /\ pc \in {"running", "closing", "terminating", "killing", "waiting", "settled"}
  /\ ended \in BOOLEAN /\ missed \in BOOLEAN
  /\ outcome \in {"none", "clean", "failed", "aborted", "unstoppable"}

\* Only a leader that has ended has been waited for.
ReapedIsGone == reaped => "leader" \notin alive

\* A runner that answers for its group has seen it gone, and it still is.
AnsweredGone == Of(Answering) /\ outcome \in {"clean", "failed"} => GroupGone

IInv == TypeOK /\ ReapedIsGone /\ AnsweredGone

\* A group that is gone stays so.
LEMMA GoneStays ==
  ASSUME ReapedIsGone, GroupGone, [Next]_vars
  PROVE  GroupGone'
<1> USE DEF GroupGone, Group
<1>1. ~Fork
  BY DEF ReapedIsGone, Fork
<1>2. ASSUME NEW m \in Members, Exit(m) PROVE GroupGone'
  BY <1>2 DEF Exit, traits
<1>3. CASE Reap \/ Close \/ Stop \/ Runner \/ UNCHANGED vars
  <2>1. UNCHANGED <<apart, alive>>
    BY <1>3
       DEF Reap, Close, Stop, Runner, Deadline, KillTimer, LastTimer, Polled,
           PortableEnds, VisualEnds, BuildEnds, CloseBuild, KillBuild, BuildKilled,
           BuildGone, Keep, traits, processVars, vars
  <2>2. CASE Reap
    BY <2>1, <2>2 DEF Reap
  <2>3. CASE Close \/ Stop \/ Runner \/ UNCHANGED vars
    <3>1. reaped' = reaped
      BY <2>3
         DEF Close, Stop, Runner, Deadline, KillTimer, LastTimer, Polled,
             PortableEnds, VisualEnds, BuildEnds, CloseBuild, KillBuild, BuildKilled,
             BuildGone, Keep, processVars, vars
    <3>2. QED
      BY <2>1, <3>1
  <2>4. QED
    BY <1>3, <2>2, <2>3
<1>4. QED
  BY <1>1, <1>2, <1>3 DEF Next, Die

\* The invariant is inductive.
THEOREM Invariance == Spec => []IInv
<1>1. Init => IInv
  BY DEF Init, IInv, TypeOK, Members, ReapedIsGone, AnsweredGone
<1>2. ASSUME IInv, [Next]_vars PROVE IInv'
  <2>1. TypeOK' /\ ReapedIsGone'
    <3> USE DEF IInv, TypeOK, ReapedIsGone
    <3>1. CASE Fork
      BY <1>2, <3>1 DEF Fork, Members, traits, runnerVars
    <3>2. ASSUME NEW m \in Members, Exit(m) PROVE TypeOK' /\ ReapedIsGone'
      BY <1>2, <3>2 DEF Exit, traits, runnerVars
    <3>3. CASE Reap
      BY <1>2, <3>3 DEF Reap, traits, runnerVars
    <3>4. CASE Close
      BY <1>2, <3>4 DEF Close, Settle, Result, At, traits, processVars
    <3>5. CASE Stop
      BY <1>2, <3>5
         DEF Stop, Settle, Goto, At, Keep, NoSignal, Terminate, Reached, Group,
             Members, traits
    <3>6. CASE Runner
      <4>1. /\ UNCHANGED <<kind, stubborn, apart, quiet, born, alive, status, reaped, closed>>
            /\ doomed' \subseteq doomed \cup Members
        <5>1. UNCHANGED <<traits, born, alive, status, reaped, closed>>
          BY <3>6
             DEF Runner, Deadline, KillTimer, LastTimer, Polled, PortableEnds,
                 VisualEnds, BuildEnds, CloseBuild, KillBuild, BuildKilled, BuildGone, Keep
        <5>2. Terminate \/ Kill \/ NoSignal
          BY <3>6
             DEF Runner, Deadline, KillTimer, LastTimer, Polled, PortableEnds,
                 VisualEnds, BuildEnds, CloseBuild, KillBuild, BuildKilled, BuildGone
        <5>3. Reached \subseteq Members
          BY <1>2 DEF Reached, Group, Members
        <5>4. QED
          BY <5>1, <5>2, <5>3 DEF Terminate, Kill, NoSignal, traits
      <4>2. /\ ended' \in BOOLEAN /\ missed' \in BOOLEAN
            /\ pc' \in {"running", "closing", "terminating", "killing", "waiting", "settled"}
        BY <1>2, <3>6
           DEF Runner, Deadline, KillTimer, LastTimer, Polled, PortableEnds,
               VisualEnds, BuildEnds, CloseBuild, KillBuild, BuildKilled, BuildGone,
               Settle, Goto, Keep
      <4>3. outcome' \in {"none", "clean", "failed", "aborted", "unstoppable"}
        BY <1>2, <3>6
           DEF Runner, Deadline, KillTimer, LastTimer, Forced, Of, Polled, PortableEnds,
               VisualEnds, BuildEnds, CloseBuild, KillBuild, BuildKilled, BuildGone,
               Settle, Goto, Result
      <4>4. QED
        BY <1>2, <4>1, <4>2, <4>3
    <3>7. CASE UNCHANGED vars
      BY <1>2, <3>7 DEF vars, traits, processVars, runnerVars
    <3>8. QED
      BY <1>2, <3>1, <3>2, <3>3, <3>4, <3>5, <3>6, <3>7 DEF Next, Die
  <2>2. AnsweredGone'
    <3>1. kind' = kind
      BY <1>2
         DEF Next, Fork, Exit, Die, Reap, Close, Stop, Runner, Deadline, KillTimer,
             LastTimer, Polled, PortableEnds, VisualEnds, BuildEnds, CloseBuild,
             KillBuild, BuildKilled, BuildGone, Keep, traits, vars
    <3> SUFFICES ASSUME Of(Answering), outcome' \in {"clean", "failed"}
                 PROVE  GroupGone'
      BY <3>1 DEF AnsweredGone, Of
    <3>2. GroupGone \/ outcome' # outcome
      BY <1>2 DEF IInv, AnsweredGone
    <3>3. CASE GroupGone
      BY <1>2, <3>3, GoneStays DEF IInv
    <3>4. CASE outcome' # outcome
      <4>1. kind \in Answering
        BY DEF Of
      <4>2. ~SettledByClose /\ ~PortableEnds /\ ~VisualEnds
        BY <4>1 DEF SettledByClose, Of, Answering, PortableEnds, VisualEnds
      <4>3. ~Close
        BY <3>4, <4>2 DEF Close
      <4>4. ~LastTimer /\ ~BuildKilled
        BY <3>4, <4>1 DEF LastTimer, BuildKilled, Settle, Goto, Of, Answering
      <4>5. Stop \/ Polled \/ BuildGone
        BY <1>2, <3>4, <4>2, <4>3, <4>4
           DEF Next, Fork, Exit, Die, Reap, Runner, Deadline, KillTimer, BuildEnds,
               CloseBuild, KillBuild, Goto, runnerVars, vars
      <4>6. GroupGone
        BY <3>4, <4>5 DEF Stop, Polled, BuildGone, Settle, Goto
      <4>7. QED
        BY <1>2, <4>6, GoneStays DEF IInv
    <3>5. QED
      BY <3>2, <3>3, <3>4
  <2>3. QED
    BY <2>1, <2>2 DEF IInv
<1>3. QED
  BY <1>1, <1>2, PTL DEF Spec

\* No process of the group is left when a validation command is reported as
\* ended, when a dry build reports no failed cleanup and when the stop of a
\* preview returns, whatever the leader and its child do.
THEOREM SettledGone == Spec => []SettledMeansGone
<1>1. IInv => SettledMeansGone
  BY DEF IInv, AnsweredGone, SettledMeansGone, GroupGone
<1>2. QED
  BY <1>1, Invariance, PTL

=============================================================================
