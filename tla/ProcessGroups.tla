----------------------------- MODULE ProcessGroups -----------------------------
(***************************************************************************)
(* The processes this repository starts and how it gets rid of them.       *)
(*                                                                         *)
(* Every runner starts a leader, most of them in a process group of its    *)
(* own, and races its end against a deadline.  A leader may start a child  *)
(* that outlives it, that ignores SIGTERM, that gave up its inherited      *)
(* output, or that left the group.  One behaviour is one runner with one   *)
(* leader and one child.  A timer may fire at any time: how long anything  *)
(* takes is not modelled.                                                  *)
(***************************************************************************)
EXTENDS Naturals

CONSTANTS Kinds \* the runners to consider

AllKinds ==
  { "command",  \* runFixedControllerCommand, validation/runner.ts
    "agent",    \* runProcess, agents/types.ts
    "wrangler", \* runWrangler, preview-evidence/cloudflare.ts
    "dryRun",   \* runFixedCloudflareDryRun, candidate/manifest.ts
    "dryBuild", \* buildPreparedProfile, deploy-dry.ts
    "visual",   \* runVisualCommand, parity-visual.ts
    "portable", \* the timeout tool of lib/temporary-source-build.ts
    "preview" } \* the handle of startCandidatePreview, candidate/manifest.ts

ASSUME ProcessGroupsConstants == Kinds \subseteq AllKinds

Members == {"leader", "child"}

VARIABLES
  kind,     \* the runner
  stubborn, \* the members that ignore SIGTERM
  apart,    \* the child leaves the process group
  quiet,    \* the child gives up the output it inherits
  born,     \* the members that have been started
  alive,    \* those that run
  doomed,   \* those a signal is going to end
  status,   \* how the leader ended: "none", "zero", "nonzero", "signal"
  reaped,   \* Node has seen the leader end
  closed,   \* the close event: reaped, and nobody holds the output
  pc,       \* "running", "closing", "terminating", "killing", "waiting", "settled"
  ended,    \* the deadline has passed, or stop was called
  missed,   \* the close event came before anybody listened for it again
  outcome   \* "none", "clean", "failed", "aborted", "unstoppable"

traits == <<kind, stubborn, apart, quiet>>
processVars == <<born, alive, doomed, status, reaped>>
runnerVars == <<pc, ended, missed, outcome>>
vars == <<traits, processVars, closed, runnerVars>>

Init ==
  /\ kind \in Kinds
  /\ stubborn \in SUBSET Members /\ apart \in BOOLEAN /\ quiet \in BOOLEAN
  /\ born = {"leader"} /\ alive = {"leader"} /\ doomed = {}
  /\ status = "none" /\ reaped = FALSE /\ closed = FALSE
  /\ pc = "running" /\ ended = FALSE /\ missed = FALSE /\ outcome = "none"

Of(kinds) == kind \in kinds
At(label) == pc = label
Goto(label) == pc' = label /\ UNCHANGED outcome
Settle(result) == pc' = "settled" /\ outcome' = result

-----------------------------------------------------------------------------
(***************************************************************************)
(* Processes and signals.                                                  *)
(***************************************************************************)
Group == IF apart THEN {"leader"} ELSE Members

\* Mutant of GroupGone: only the leader is looked at.
LeaderGone == reaped

\* kill(-pid, 0) fails with ESRCH: the group has no member, not even a leader
\* that nobody has waited for.
GroupGone == reaped /\ Group \cap alive = {}

\* Whom kill(-pid, signal) reaches; child.kill reaches the leader alone.
Reached == alive \cap (IF Of({"dryRun"}) THEN {"leader"} ELSE Group)

Terminate == doomed' = doomed \cup (Reached \ stubborn)
Kill == doomed' = doomed \cup Reached
NoSignal == UNCHANGED doomed

\* child.exitCode is still null: the leader runs, or a signal ended it.
NoExitCode == ~reaped \/ status = "signal"

Fork ==
  /\ "leader" \in alive \ doomed /\ "child" \notin born
  /\ born' = Members /\ alive' = Members
  /\ UNCHANGED <<traits, doomed, status, reaped, closed, runnerVars>>

\* A member ends by itself, or somebody else's signal ends it.
Exit(m) ==
  /\ m \in alive /\ alive' = alive \ {m}
  /\ IF m = "leader" THEN status' \in {"zero", "nonzero", "signal"}
     ELSE UNCHANGED status
  /\ UNCHANGED <<traits, born, doomed, reaped, closed, runnerVars>>

\* A signal takes effect.  A handler of SIGTERM may still choose an exit code.
Die(m) == m \in doomed /\ Exit(m)

Reap ==
  /\ "leader" \notin alive /\ ~reaped /\ reaped' = TRUE
  /\ UNCHANGED <<traits, born, alive, doomed, status, closed, runnerVars>>

\* With pipes the close event waits for everybody who holds an end of them.
Holders ==
  IF Of({"command", "agent", "wrangler"})
  THEN alive \ (IF quiet THEN {"child"} ELSE {}) ELSE {}

\* Mutant of SettledByClose: the timer of SIGKILL is always cleared.
SettledByAnyClose == Of({"agent", "wrangler", "dryRun", "portable"})

\* The runners whose close handler clears all timers and settles.  The portable
\* one leaves the timer of SIGKILL when its deadline has passed.
SettledByClose ==
  \/ Of({"agent", "wrangler", "dryRun"})
  \/ Of({"portable"}) /\ ~ended

Result == IF ended \/ status # "zero" THEN "failed" ELSE "clean"

Close ==
  /\ reaped /\ Holders = {} /\ ~closed /\ closed' = TRUE
  /\ IF SettledByClose /\ ~At("settled") THEN Settle(Result)
     ELSE UNCHANGED <<pc, outcome>>
  /\ UNCHANGED <<traits, processVars, ended, missed>>

-----------------------------------------------------------------------------
(***************************************************************************)
(* Runners.                                                                *)
(***************************************************************************)
Keep == UNCHANGED <<traits, born, alive, status, reaped, closed>>

\* The deadline, or too much output: SIGTERM, and a timer for SIGKILL.
Deadline ==
  /\ At("running") /\ ~Of({"dryBuild", "preview"}) /\ ended' = TRUE
  /\ Terminate /\ Goto("terminating")
  /\ Keep /\ UNCHANGED missed

\* stop() of a preview: nothing to do for a group that is gone.
Stop ==
  /\ At("running") /\ Of({"preview"}) /\ ended' = TRUE
  /\ \/ GroupGone /\ NoSignal /\ Settle("clean")
     \/ ~GroupGone /\ Terminate /\ Goto("terminating")
  /\ Keep /\ UNCHANGED missed

\* The timer of SIGKILL.  A visual build does not wait for it once closed.
KillTimer ==
  /\ At("terminating") /\ ~Of({"dryBuild"})
  /\ Kill /\ Goto("killing")
  /\ Keep /\ UNCHANGED <<ended, missed>>

\* Mutant of Forced: a validation command waits for its close event.
ForcedAfterClose == Of({"visual", "preview"})

\* The runners that do not wait longer than a last timer.
Forced == Of({"command", "visual", "preview"})

LastTimer ==
  /\ At("killing") /\ Forced
  /\ NoSignal
  /\ \/ Of({"command"}) /\ Settle("aborted")
     \/ Of({"visual"}) /\ Settle("failed")
     \/ Of({"preview"}) /\ Settle("unstoppable")
  /\ Keep /\ UNCHANGED <<ended, missed>>

\* settleClosedProcessGroup and waitForProcessGroupExit: the group is polled.
Polled ==
  /\ \/ Of({"command"}) /\ closed /\ ~At("settled")
     \/ Of({"preview"}) /\ pc \in {"terminating", "killing"}
  /\ GroupGone
  /\ NoSignal /\ Settle(IF Of({"preview"}) THEN "clean" ELSE Result)
  /\ Keep /\ UNCHANGED <<ended, missed>>

\* The portable timeout ends when its command has and no timer is left.
PortableEnds ==
  /\ Of({"portable"}) /\ closed /\ At("killing")
  /\ NoSignal /\ Settle("failed")
  /\ Keep /\ UNCHANGED <<ended, missed>>

\* A visual build that succeeds leaves its group alone.
VisualEnds ==
  /\ Of({"visual"}) /\ At("running") /\ closed
  /\ \/ status = "zero" /\ NoSignal /\ Settle("clean")
     \/ status # "zero" /\ Terminate /\ Goto("terminating")
  /\ Keep /\ UNCHANGED <<ended, missed>>

\* buildPreparedProfile: the build has closed or its deadline has passed; either
\* way closePreparedBuild follows.
BuildEnds ==
  /\ Of({"dryBuild"}) /\ At("running")
  /\ ended' = ~closed
  /\ NoSignal /\ Goto("closing")
  /\ Keep /\ UNCHANGED missed

\* It asks a build without an exit code to terminate, and then listens for a
\* close event that may have been already.
CloseBuild ==
  /\ At("closing")
  /\ \/ NoExitCode /\ Terminate /\ Goto("terminating") /\ missed' = closed
     \/ ~NoExitCode /\ Kill /\ Goto("waiting") /\ UNCHANGED missed
  /\ Keep /\ UNCHANGED ended

Heard == closed /\ ~missed

\* The close event, or the grace is over: SIGKILL to the group in any case.
KillBuild ==
  /\ Of({"dryBuild"}) /\ At("terminating")
  /\ Kill
  /\ Goto(IF Heard \/ ~NoExitCode THEN "waiting" ELSE "killing")
  /\ Keep /\ UNCHANGED <<ended, missed>>

BuildKilled ==
  /\ Of({"dryBuild"}) /\ At("killing")
  /\ NoSignal
  /\ \/ (Heard \/ ~NoExitCode) /\ Goto("waiting")
     \/ ~Heard /\ NoExitCode /\ Settle("unstoppable")
  /\ Keep /\ UNCHANGED <<ended, missed>>

\* waitForPreparedBuildGroupGone, for as long as the grace.
BuildGone ==
  /\ At("waiting")
  /\ NoSignal
  /\ \/ GroupGone /\ Settle(Result)
     \/ ~GroupGone /\ Settle("unstoppable")
  /\ Keep /\ UNCHANGED <<ended, missed>>

Runner ==
  \/ Deadline \/ KillTimer \/ LastTimer \/ Polled \/ PortableEnds \/ VisualEnds
  \/ BuildEnds \/ CloseBuild \/ KillBuild \/ BuildKilled \/ BuildGone

Next ==
  \/ Fork \/ (\E m \in Members : Exit(m) \/ Die(m)) \/ Reap \/ Close \/ Stop
  \/ Runner

Spec == Init /\ [][Next]_vars

\* A signal that cannot be ignored takes effect, Node sees it, timers fire and
\* what they wake up runs.  Nobody has to exit by himself, or to call stop.
FairSpec ==
  Spec /\ WF_vars(Runner) /\ WF_vars(Reap) /\ WF_vars(Close)
       /\ \A m \in Members : WF_vars(Die(m))

-----------------------------------------------------------------------------
(***************************************************************************)
(* Properties.                                                             *)
(***************************************************************************)
\* The runners that answer for their group when they settle.
Answering == {"command", "dryBuild", "preview"}

\* A validation command that is reported as ended, a dry build that does not
\* report a failed cleanup and a preview whose stop has returned have left no
\* process in their group: none can still write in the tree that is read next.
SettledMeansGone ==
  Of(Answering) /\ outcome \in {"clean", "failed"} => Group \cap alive = {}

\* The runners that send SIGKILL to the whole group whatever closes before.
Thorough == {"command", "dryBuild", "visual", "portable", "preview"}

\* Once such a runner has begun to end its group, every member of it ends, also
\* one that ignores SIGTERM and outlives its leader with its output closed.
GroupEnds ==
  Of(Thorough) /\ pc \in {"closing", "terminating", "killing", "waiting"}
    ~> Group \cap alive = {}

\* Every runner settles, a preview once it is asked to stop; only an agent and
\* Wrangler may have to wait for a process that left the group with the output.
Settles ==
  /\ kind # "preview" \/ ended
  /\ Of({"agent", "wrangler"}) => ~apart \/ quiet
  ~> At("settled")
=============================================================================
