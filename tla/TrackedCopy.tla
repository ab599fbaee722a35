----------------------------- MODULE TrackedCopy ------------------------------
(***************************************************************************)
(* `--git_tracked_only`: run_scan copies the tracked files into a          *)
(* temporary directory, lets the scanners walk the copy, and removes it    *)
(* when they are done (run.py, utils/tracked.py).  While the copy may      *)
(* exist SIGTERM raises SystemExit at whatever the main thread is doing;   *)
(* elsewhere it kills the process.  The scanners follow ScanPlan; a thread *)
(* pool runs what has been submitted, and leaving it waits for all of it.  *)
(***************************************************************************)
EXTENDS Naturals

CONSTANTS Tools, DependsOn,
          Trufflehog, Syft, Grype,
          MaxSignals   \* SIGTERMs explored

ASSUME CopyAssumption ==
  /\ DependsOn \in [Tools -> SUBSET Tools]
  /\ MaxSignals \in Nat

VARIABLES
  selected, failFast, progress,  \* the scanners, as in ScanPlan
  isGitRepo,   \* trufflehog reads the history of the repository, not the copy
  submitted,   \* tools handed to the executor
  pc,          \* where the main thread is
  ending,      \* the exit code of the exception that is propagating, 0 for none
  copy,        \* the temporary tree
  torn,        \* scanners that walked a copy which was not whole
  struck,      \* the places where a SIGTERM found the main thread
  signals,     \* how many came
  exitCode     \* "none" while the process lives, "run" if run_scan went on normally

planVars == <<selected, failFast, progress>>
mainVars == <<pc, ending, exitCode>>
signalVars == <<struck, signals>>
vars == <<planVars, isGitRepo, submitted, mainVars, copy, torn, signalVars>>

Plan == INSTANCE ScanPlan WITH selected <- selected, failFast <- failFast, progress <- progress

Init ==
  /\ Plan!Init
  /\ isGitRepo \in BOOLEAN
  /\ submitted = {}
  /\ pc = "enter"
  /\ ending = 0
  /\ copy = "none"
  /\ torn = {}
  /\ struck = {}
  /\ signals = 0
  /\ exitCode = "none"

Raise(code, place) == ending' = code /\ pc' = place
Goto(place) == pc' = place /\ UNCHANGED ending

\* What the pool still has to do.
InFlight == {t \in submitted : progress[t] \in {"waiting", "running"}}
Running == {t \in Tools : progress[t] = "running"}

\* grype prefers the SBOM; trufflehog scans commits if the source is a repository.
ReadsCopy(t) ==
  /\ t = Trufflehog => ~isGitRepo
  /\ t = Grype => Syft \notin selected \/ progress[Syft] # "ok"

-------------------------------------------------------------------------------
(* TrackedCopy.create *)

\* mkdtemp, which stands before the `try` of create.
MakeDir ==
  /\ pc = "enter"
  /\ \/ Goto("made") /\ copy' = "empty"
     \/ Raise(3, "exiting") /\ UNCHANGED copy
  /\ UNCHANGED <<planVars, isGitRepo, submitted, torn, signalVars, exitCode>>

EnterTry ==
  /\ pc = "made"
  /\ Goto("copying")
  /\ UNCHANGED <<planVars, isGitRepo, submitted, copy, torn, signalVars, exitCode>>

CopyFiles ==
  /\ pc = "copying"
  /\ \/ copy = "empty" /\ copy' = "partial" /\ UNCHANGED pc
     \/ copy = "partial" /\ copy' = "whole" /\ pc' = "handover"
  /\ UNCHANGED <<planVars, isGitRepo, submitted, ending, torn, signalVars, exitCode>>

\* Nothing tracked, an OSError, git failing: usage errors.  Anything else: 1.
CopyFails ==
  /\ pc = "copying"
  /\ \E code \in {1, 3} : Raise(code, "undo")
  /\ UNCHANGED <<planVars, isGitRepo, submitted, copy, torn, signalVars, exitCode>>

\* `except BaseException: rmtree; raise`
Undo ==
  /\ pc = "undo"
  /\ copy' = "none"
  /\ Goto("exiting")
  /\ UNCHANGED <<planVars, isGitRepo, submitted, torn, signalVars, exitCode>>

\* create returns and `tracked` is assigned; from here on `finally` knows it.
Bind ==
  /\ pc = "handover"
  /\ Goto("schedule")
  /\ UNCHANGED <<planVars, isGitRepo, submitted, copy, torn, signalVars, exitCode>>

-------------------------------------------------------------------------------
(* _schedule and its thread pool *)

\* Mutant of Submit: every registered scanner is handed out.
Mutant_Submit(t) ==
  /\ pc = "schedule"
  /\ t \in Tools \ submitted
  /\ \A d \in DependsOn[t] \cap selected : progress[d] \in Plan!Answered
  /\ submitted' = submitted \cup {t}
  /\ UNCHANGED <<planVars, isGitRepo, mainVars, copy, torn, signalVars>>

\* A scanner is handed to the executor when what it depends on has a result.
Submit(t) ==
  /\ pc = "schedule"
  /\ t \in selected \ submitted
  /\ progress[t] = "waiting"
  /\ \A d \in DependsOn[t] \cap selected : progress[d] \in Plan!Answered
  /\ submitted' = submitted \cup {t}
  /\ UNCHANGED <<planVars, isGitRepo, mainVars, copy, torn, signalVars>>

\* Under --fail_fast everything not yet submitted is given up together.
SkipRest ==
  /\ pc = "schedule"
  /\ Plan!Skip
  /\ \A t \in selected : progress'[t] = "skipped" <=> t \notin submitted
  /\ UNCHANGED <<isGitRepo, submitted, mainVars, copy, torn, signalVars>>

\* The pool keeps taking tools from its queue, whatever the main thread does.
Launch(t) ==
  /\ t \in submitted
  /\ pc # "exited"
  /\ Plan!Launch(t)
  /\ torn' = IF ReadsCopy(t) /\ copy # "whole" THEN torn \cup {t} ELSE torn
  /\ UNCHANGED <<isGitRepo, submitted, mainVars, copy, signalVars>>

\* A scanner ends; `_restored` has mapped the copy's paths back.
Answer(t) ==
  /\ pc # "exited"
  /\ Plan!Answer(t)
  /\ UNCHANGED <<isGitRepo, submitted, mainVars, copy, torn, signalVars>>

\* Mutant of PoolLeft: a normal return is awaited too after an interrupt.
Mutant_PoolLeft ==
  /\ pc \in {"schedule", "drain"}
  /\ \A t \in selected : progress[t] \in Plan!Final
  /\ Goto("cleanup")
  /\ UNCHANGED <<planVars, isGitRepo, submitted, copy, torn, signalVars, exitCode>>

\* The `with ThreadPoolExecutor` block is left: normally when every tool has its
\* result, behind an exception when what was submitted has ended.
PoolLeft ==
  /\ \/ pc = "schedule" /\ \A t \in selected : progress[t] \in Plan!Final
     \/ pc = "drain" /\ InFlight = {}
  /\ Goto("cleanup")
  /\ UNCHANGED <<planVars, isGitRepo, submitted, copy, torn, signalVars, exitCode>>

-------------------------------------------------------------------------------
(* The way out *)

\* rmtree removes file by file, under whoever still walks the tree.
Cleanup ==
  /\ pc = "cleanup"
  /\ torn' = torn \cup {t \in Running : ReadsCopy(t)}
  /\ \/ copy' = "partial" /\ UNCHANGED <<pc, ending>>
     \/ copy' = "none" /\ Goto(IF ending = 0 THEN "tail" ELSE "exiting")
  /\ UNCHANGED <<planVars, isGitRepo, submitted, signalVars, exitCode>>

\* The rest of run_scan (module ScanRun), under SIGTERM's old disposition.
Return ==
  /\ pc = "tail"
  /\ exitCode' = "run"
  /\ pc' = "exited"
  /\ UNCHANGED <<planVars, isGitRepo, submitted, ending, copy, torn, signalVars>>

\* At exit the interpreter joins the pool's threads, which empty the queue.
Exit ==
  /\ pc = "exiting"
  /\ InFlight = {}
  /\ exitCode' = "code"
  /\ pc' = "exited"
  /\ UNCHANGED <<planVars, isGitRepo, submitted, ending, copy, torn, signalVars>>

-------------------------------------------------------------------------------
(* SIGTERM *)

\* Mutant of AfterSignal: create cleans up behind `except Exception` only.
Mutant_CreateCatchesException(place) ==
  CASE place \in {"enter", "made", "copying", "undo", "handover", "cleanup"} -> "exiting"
    [] place = "schedule" -> "drain"
    [] place = "drain" -> "cleanup"

\* Mutant of AfterSignal: the pool is abandoned, as shutdown(wait=False) would.
Mutant_PoolAbandoned(place) ==
  CASE place \in {"enter", "made", "undo", "handover", "cleanup"} -> "exiting"
    [] place = "copying" -> "undo"
    [] place \in {"schedule", "drain"} -> "cleanup"

\* Where SystemExit takes the main thread: to the next handler or `finally`.
\* Between mkdtemp and `try`, and before `tracked` is assigned, there is none;
\* within rmtree (which ignores OSErrors only) it ends the removal.
AfterSignal(place) ==
  CASE place \in {"enter", "made", "undo", "handover", "cleanup"} -> "exiting"
    [] place = "copying" -> "undo"
    [] place = "schedule" -> "drain"
    [] place = "drain" -> "cleanup"

Strike ==
  /\ signals < MaxSignals
  /\ signals' = signals + 1
  /\ struck' = struck \cup {pc}
  /\ UNCHANGED <<planVars, isGitRepo, submitted, copy, torn>>

\* Mutant of Interrupt: the interrupt is forgotten once the pool has drained.
Mutant_Interrupt ==
  /\ pc \notin {"tail", "exiting", "exited"}
  /\ Strike
  /\ Goto(AfterSignal(pc))
  /\ UNCHANGED exitCode

Interrupt ==
  /\ pc \notin {"tail", "exiting", "exited"}
  /\ Strike
  /\ Raise(143, AfterSignal(pc))
  /\ UNCHANGED exitCode

\* The handler is gone: the process ends on the spot.
Kill ==
  /\ pc \in {"tail", "exiting"}
  /\ Strike
  /\ Raise(143, "exited")
  /\ exitCode' = "code"

-------------------------------------------------------------------------------
Main ==
  \/ MakeDir \/ EnterTry \/ CopyFiles \/ CopyFails \/ Undo \/ Bind
  \/ SkipRest \/ PoolLeft \/ Cleanup \/ Return \/ Exit
  \/ \E t \in Tools : Submit(t)

Pool == \E t \in Tools : Launch(t) \/ Answer(t)

Exited == pc = "exited" /\ UNCHANGED vars

Next == Main \/ Pool \/ Interrupt \/ Kill \/ Exited

\* The main thread and the pool run on; scanners end (they have a timeout); and
\* rmtree comes to its end, since the tree is finite.  Signals owe nothing.
Fairness ==
  /\ WF_vars(Main)
  /\ WF_vars(Pool)
  /\ \A t \in Tools : WF_vars(Answer(t))
  /\ WF_vars(Cleanup /\ copy' = "none")

SafeSpec == Init /\ [][Next]_vars
Spec == SafeSpec /\ Fairness

-------------------------------------------------------------------------------
(* Properties *)

Places == {"enter", "made", "copying", "undo", "handover", "schedule", "drain", "cleanup",
           "tail", "exiting", "exited"}

\* Types of the state of a tracked-only run.
TypeOK ==
  /\ selected \in SUBSET Tools
  /\ failFast \in BOOLEAN
  /\ progress \in [Tools -> {"waiting", "running"} \cup Plan!Final]
  /\ isGitRepo \in BOOLEAN
  /\ submitted \subseteq selected
  /\ pc \in Places
  /\ ending \in {0, 1, 3, 143}
  /\ copy \in {"none", "empty", "partial", "whole"}
  /\ torn \subseteq submitted
  /\ struck \subseteq Places \ {"exited"}
  /\ signals \in 0..MaxSignals
  /\ exitCode \in {"none", "run", "code"}

\* The places at which a SIGTERM escapes every removal of the copy.
Windows == {"made", "handover", "undo", "cleanup"}

\* However the run ends (done, nothing tracked, a failed copy, interrupted while
\* copying, scheduling or waiting for the pool, interrupted twice), the copy is
\* gone, unless a SIGTERM hit one of the four windows.
CopyRemoved == pc = "exited" /\ struck \cap Windows = {} => copy = "none"

\* One SIGTERM never takes the copy from under a scanner: leaving the executor
\* waits for the scanners in flight before `finally` removes what they walk.
ScannersKeepTheirCopy == signals <= 1 => torn = {}

\* Results that run_scan goes on to report are complete: every selected tool has
\* one, and none comes from a scanner that walked a copy being filled or removed.
ReportedResultsAreWhole ==
  pc = "tail" \/ exitCode = "run" =>
    torn = {} /\ \A t \in selected : progress[t] \in Plan!Final

\* The process ends, interrupted or not: the drain waits only for what the pool
\* was given, never for tools that nobody will submit any more.
Ends == <>(pc = "exited")
===============================================================================
