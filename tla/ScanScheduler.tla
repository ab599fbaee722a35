---------------------------- MODULE ScanScheduler -----------------------------
(***************************************************************************)
(* `run._schedule` (run.py) and the thread pool it drives.                 *)
(*                                                                         *)
(* The main thread submits every selected tool whose dependencies have a   *)
(* result, waits for the first completion, collects the completed futures  *)
(* one by one, and under --fail_fast drops what it has not submitted once  *)
(* it has collected a failure.  The pool's workers take tools from the     *)
(* pool's FIFO queue and run `_run_one`; syft leaves its document in       *)
(* tools_output/syft.json, which grype opens if it exists.  Workers and    *)
(* main thread interleave at every step.                                   *)
(***************************************************************************)
EXTENDS Naturals, Sequences, FiniteSets

CONSTANTS Tools,         \* names of the registered scanners
          TOOL_ORDER,    \* the registry's order, a sequence
          DependsOn,     \* [Tools -> SUBSET Tools], ScannerSpec.depends_on
          Syft, Grype,   \* the producer and the reader of syft.json
          WorkerOptions  \* values of ScanOptions.max_workers explored

ASSUME OrderAssumption ==
  /\ TOOL_ORDER \in Seq(Tools)
  /\ Tools \subseteq {TOOL_ORDER[i] : i \in DOMAIN TOOL_ORDER}

\* Every non-empty set of tools has a member that depends on none of the set:
\* depends_on has no cycle.
ASSUME DependsAssumption ==
  /\ DependsOn \in [Tools -> SUBSET Tools]
  /\ \A S \in SUBSET Tools : S # {} => \E t \in S : DependsOn[t] \cap S = {}

ASSUME SbomAssumption ==
  /\ Syft \in Tools /\ Grype \in Tools /\ Syft # Grype
  /\ Syft \in DependsOn[Grype]

ASSUME WorkerAssumption == WorkerOptions \subseteq Nat

VARIABLES
  selected,    \* specs: the tools of this run
  failFast,    \* the fail_fast argument
  maxWorkers,  \* the max_workers argument
  pc,          \* where the main thread is in the `while pending or futures` loop
  pending,     \* the dict of specs not yet submitted
  futures,     \* the dict of futures submitted and not yet collected
  batch,       \* the part of `done` the for loop has still to visit
  results,     \* results[t]: status of the collected ScanResult, "none" before
  aborted,     \* the local flag of the same name
  queue,       \* the executor's work queue
  running,     \* tools a worker is executing
  outcome,     \* outcome[t]: status in the finished future of t, "none" before
  sbom,        \* tools_output/syft.json: absent, being written, complete
  grypeInput   \* what grype scanned, as it found it

mainVars == <<pc, pending, futures, batch, results, aborted>>
poolVars == <<queue, running, outcome>>
fileVars == <<sbom, grypeInput>>
params == <<selected, failFast, maxWorkers>>
vars == <<params, mainVars, poolVars, fileVars>>

Answered == {"ok", "failed"}
Nothing == [t \in Tools |-> "none"]

Init ==
  /\ selected \in (SUBSET Tools) \ {{}}
  /\ failFast \in BOOLEAN
  /\ maxWorkers \in WorkerOptions
  /\ pc = "submit"
  /\ pending = selected
  /\ futures = {}
  /\ batch = {}
  /\ results = Nothing
  /\ aborted = FALSE
  /\ queue = <<>>
  /\ running = {}
  /\ outcome = Nothing
  /\ sbom = "absent"
  /\ grypeInput = "unread"

-------------------------------------------------------------------------------
(* The main thread *)

\* Mutant of Ready: the dependencies that were not selected are awaited too.
Mutant_ReadyAwaitsUnselected ==
  {t \in pending : \A d \in DependsOn[t] : results[d] # "none"}

\* Mutant of Ready: a dependency need only have been submitted.
Mutant_ReadyOnceSubmitted ==
  {t \in pending : \A d \in DependsOn[t] \cap selected : d \notin pending}

\* Pending tools whose selected dependencies all have a result.
Ready == {t \in pending : \A d \in DependsOn[t] \cap selected : results[d] # "none"}

\* dicts keep insertion order, so the pass over `pending` follows the registry
First(S, t) ==
  /\ t \in S
  /\ \E i \in DOMAIN TOOL_ORDER :
       TOOL_ORDER[i] = t /\ \A j \in 1..(i - 1) : TOOL_ORDER[j] \notin S

Submit(t) ==
  /\ pc = "submit"
  /\ ~aborted
  /\ First(Ready, t)
  /\ futures' = futures \cup {t}
  /\ queue' = Append(queue, t)
  /\ pending' = pending \ {t}
  /\ UNCHANGED <<params, pc, batch, results, aborted, running, outcome, fileVars>>

PassOver == pc = "submit" /\ (aborted \/ Ready = {})

StartWait ==
  /\ PassOver
  /\ futures # {}
  /\ pc' = "wait"
  /\ UNCHANGED <<params, pending, futures, batch, results, aborted, poolVars, fileVars>>

\* Both ways out of the loop: its condition, and `if not futures: break`.
Leave ==
  /\ PassOver
  /\ futures = {}
  /\ pc' = "done"
  /\ UNCHANGED <<params, pending, futures, batch, results, aborted, poolVars, fileVars>>

\* wait(..., FIRST_COMPLETED) hands back every future that is done by then.
WaitReturns ==
  LET done == {t \in futures : outcome[t] # "none"}
  IN /\ pc = "wait"
     /\ done # {}
     /\ batch' = done
     /\ pc' = "collect"
     /\ UNCHANGED <<params, pending, futures, results, aborted, poolVars, fileVars>>

\* Mutant of Collect: the visited future stays in the batch.
Mutant_CollectKeepsBatch(t) ==
  /\ pc = "collect"
  /\ t \in batch
  /\ futures' = futures \ {t}
  /\ results' = [results EXCEPT ![t] = outcome[t]]
  /\ aborted' = (aborted \/ (outcome[t] = "failed" /\ failFast))
  /\ UNCHANGED <<params, pc, pending, batch, poolVars, fileVars>>

\* Mutant of Collect: futures[fut] where the code has futures.pop(fut).
Mutant_CollectKeepsFuture(t) ==
  /\ pc = "collect"
  /\ t \in batch
  /\ batch' = batch \ {t}
  /\ results' = [results EXCEPT ![t] = outcome[t]]
  /\ aborted' = (aborted \/ (outcome[t] = "failed" /\ failFast))
  /\ UNCHANGED <<params, pc, pending, futures, poolVars, fileVars>>

\* Mutant of Collect: any failure aborts.
Mutant_CollectIgnoresFailFast(t) ==
  /\ pc = "collect"
  /\ t \in batch
  /\ batch' = batch \ {t}
  /\ futures' = futures \ {t}
  /\ results' = [results EXCEPT ![t] = outcome[t]]
  /\ aborted' = (aborted \/ outcome[t] = "failed")
  /\ UNCHANGED <<params, pc, pending, poolVars, fileVars>>

\* Mutant of Collect: a later success in the same batch clears the flag.
Mutant_CollectForgetsAbort(t) ==
  /\ pc = "collect"
  /\ t \in batch
  /\ batch' = batch \ {t}
  /\ futures' = futures \ {t}
  /\ results' = [results EXCEPT ![t] = outcome[t]]
  /\ aborted' = (outcome[t] = "failed" /\ failFast)
  /\ UNCHANGED <<params, pc, pending, poolVars, fileVars>>

Collect(t) ==
  /\ pc = "collect"
  /\ t \in batch
  /\ batch' = batch \ {t}
  /\ futures' = futures \ {t}
  /\ results' = [results EXCEPT ![t] = outcome[t]]
  /\ aborted' = (aborted \/ (outcome[t] = "failed" /\ failFast))
  /\ UNCHANGED <<params, pc, pending, poolVars, fileVars>>

\* Mutant of EndBatch: submitted tools are recorded as skipped as well.
Mutant_EndBatchSkipsSubmitted ==
  /\ pc = "collect"
  /\ batch = {}
  /\ results' = [t \in Tools |->
                   IF aborted /\ t \in pending \cup futures THEN "skipped" ELSE results[t]]
  /\ pending' = IF aborted THEN {} ELSE pending
  /\ pc' = "submit"
  /\ UNCHANGED <<params, futures, batch, aborted, poolVars, fileVars>>

\* After the batch: a pending tool of an aborted run is recorded as skipped.
EndBatch ==
  /\ pc = "collect"
  /\ batch = {}
  /\ results' = [t \in Tools |-> IF aborted /\ t \in pending THEN "skipped" ELSE results[t]]
  /\ pending' = IF aborted THEN {} ELSE pending
  /\ pc' = "submit"
  /\ UNCHANGED <<params, futures, batch, aborted, poolVars, fileVars>>

Main ==
  \/ StartWait \/ Leave \/ WaitReturns \/ EndBatch
  \/ \E t \in Tools : Submit(t) \/ Collect(t)

-------------------------------------------------------------------------------
(* The workers *)

\* max(1, min(max_workers, len(specs) or 1))
PoolSize ==
  LET n == Cardinality(selected)
      least == IF maxWorkers < n THEN maxWorkers ELSE n
  IN IF least < 1 THEN 1 ELSE least

Launch ==
  /\ queue # <<>>
  /\ Cardinality(running) < PoolSize
  /\ running' = running \cup {Head(queue)}
  /\ queue' = Tail(queue)
  /\ UNCHANGED <<params, mainVars, outcome, fileVars>>

\* syft exited with 0: its wrapper opens syft.json (which truncates it); under
\* --git_tracked_only the document is then rewritten with the original paths ...
SyftOpens ==
  /\ Syft \in running
  /\ sbom \in {"absent", "whole"}
  /\ sbom' = "partial"
  /\ UNCHANGED <<params, mainVars, poolVars, grypeInput>>

\* ... and the whole document is in it once json.dump returns.
SyftWrites ==
  /\ Syft \in running
  /\ sbom = "partial"
  /\ sbom' = "whole"
  /\ UNCHANGED <<params, mainVars, poolVars, grypeInput>>

\* grype scans the SBOM if the file exists, else the directory.
GrypeReads ==
  /\ Grype \in running
  /\ grypeInput = "unread"
  /\ grypeInput' = IF sbom = "absent" THEN "dir" ELSE sbom
  /\ UNCHANGED <<params, mainVars, poolVars, sbom>>

\* `_run_one` returns: "ok" only behind the scanner's whole run, "failed" from
\* anywhere in it (non-zero exit, timeout, an exception while writing or after).
Finish(t) ==
  /\ t \in running
  /\ \E status \in Answered :
       /\ status = "ok" /\ t = Syft => sbom = "whole"
       /\ status = "ok" /\ t = Grype => grypeInput # "unread"
       /\ outcome' = [outcome EXCEPT ![t] = status]
  /\ running' = running \ {t}
  /\ UNCHANGED <<params, mainVars, queue, fileVars>>

Worker == Launch \/ SyftOpens \/ SyftWrites \/ GrypeReads \/ \E t \in Tools : Finish(t)

-------------------------------------------------------------------------------
\* _schedule has returned.
Returned == pc = "done" /\ UNCHANGED vars

Next == Main \/ Worker \/ Returned

\* The main thread runs whenever it can; a free worker takes the next item; and
\* a scanner that has started ends, since run_cmd gives it a timeout
\* (scan_timeout, 1800 s unless the user turns it off).
Fairness ==
  /\ WF_vars(Main)
  /\ WF_vars(Launch)
  /\ \A t \in Tools : WF_vars(Finish(t))

SafeSpec == Init /\ [][Next]_vars
Spec == SafeSpec /\ Fairness

-------------------------------------------------------------------------------
(* Properties *)

Status == {"ok", "failed", "skipped"}

\* Types of the locals of _schedule, of the pool and of the two files.
TypeOK ==
  /\ selected \in SUBSET Tools
  /\ failFast \in BOOLEAN
  /\ maxWorkers \in WorkerOptions
  /\ pc \in {"submit", "wait", "collect", "done"}
  /\ pending \subseteq selected
  /\ futures \subseteq selected
  /\ batch \subseteq futures
  /\ results \in [Tools -> Status \cup {"none"}]
  /\ aborted \in BOOLEAN
  /\ queue \in Seq(Tools)
  /\ running \subseteq futures
  /\ outcome \in [Tools -> Answered \cup {"none"}]
  /\ sbom \in {"absent", "partial", "whole"}
  /\ grypeInput \in {"unread", "dir", "partial", "whole"}

\* When _schedule returns, every selected tool has exactly one result and no
\* scanner is still queued or running: `if not futures: break` never leaves a
\* tool behind in `pending`, whatever was selected and in whatever order the
\* scanners ended.
NoToolDropped ==
  pc = "done" =>
    /\ \A t \in Tools : results[t] # "none" <=> t \in selected
    /\ queue = <<>> /\ running = {}

\* The result reported for a tool is the one its own run produced: a tool that
\* ran is never reported as skipped, and a skipped tool never runs.
ResultIsTheRunsOwn ==
  \A t \in Tools :
    /\ results[t] \in Answered => outcome[t] = results[t]
    /\ results[t] = "skipped" =>
         outcome[t] = "none" /\ t \notin running \cup {queue[i] : i \in DOMAIN queue}

\* A tool is skipped only under fail_fast, and only behind a reported failure.
SkippedOnlyBehindFailure ==
  (\E t \in Tools : results[t] = "skipped") =>
    failFast /\ \E u \in selected : results[u] = "failed"

\* A scanner runs only when every selected scanner it depends on has ended,
\* including when the dependency failed, was slow, or was not selected.
DependenciesEndFirst ==
  \A t \in running : \A d \in DependsOn[t] \cap selected : outcome[d] # "none"

\* grype never opens the SBOM of a syft that is still writing it, and reads the
\* complete document of a syft that succeeded.  (A truncated one is possible
\* only if syft failed while writing.)
GrypeReadsFinishedSbom ==
  grypeInput # "unread" /\ Syft \in selected =>
    /\ grypeInput = "partial" => outcome[Syft] = "failed"
    /\ outcome[Syft] = "ok" => grypeInput = "whole"

\* Once the main thread has collected a failure under fail_fast it hands no
\* further scanner to the pool, not even after a later success of the same batch.
NothingSubmittedAfterFailure ==
  [][failFast /\ (\E t \in Tools : results[t] = "failed")
       => futures' \subseteq futures]_vars

\* Under the fairness above _schedule returns.
Terminates == <>(pc = "done")

\* What the caller can see of a tool's progress.
progress ==
  [t \in Tools |-> IF results[t] # "none" THEN results[t]
                   ELSE IF outcome[t] # "none" THEN outcome[t]
                   ELSE IF t \in running THEN "running" ELSE "waiting"]

Plan == INSTANCE ScanPlan WITH selected <- selected, failFast <- failFast, progress <- progress

\* _schedule implements the plan of module ScanPlan, liveness included.
ImplementsPlan == Plan!Spec
===============================================================================
