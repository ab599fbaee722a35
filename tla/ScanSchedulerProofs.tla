------------------------- MODULE ScanSchedulerProofs --------------------------
(***************************************************************************)
(* The scheduler's safety properties, for every registry, selection and    *)
(* pool size.                                                              *)
(***************************************************************************)
EXTENDS ScanScheduler, TLAPS

\* Where a tool can be: not submitted, submitted, or reported.
Partition ==
  /\ pending \cap futures = {}
  /\ \A t \in Tools :
       /\ t \in selected => t \in pending \cup futures \/ results[t] # "none"
       /\ results[t] # "none" => t \in selected /\ t \notin pending \cup futures
       /\ t \in pending \/ results[t] = "skipped" => outcome[t] = "none"

\* A submitted tool is queued once, or running, or has an outcome.
PoolOrder ==
  /\ \A i \in DOMAIN queue :
       queue[i] \in futures \ running /\ outcome[queue[i]] = "none"
  /\ \A i, j \in DOMAIN queue : queue[i] = queue[j] => i = j
  /\ \A t \in running : outcome[t] = "none"
  /\ \A t \in batch : outcome[t] # "none"
  /\ \A t \in Tools : results[t] \in Answered => outcome[t] = results[t]

\* The abort flag stands for a collected failure, and outside the for loop an
\* aborted run has nothing pending.
AbortFlag ==
  /\ aborted <=> failFast /\ \E u \in Tools : results[u] = "failed"
  /\ \A t \in Tools : results[t] = "skipped" => aborted
  /\ aborted /\ pc # "collect" => pending = {}
  /\ pc # "collect" => batch = {}

\* Whatever was submitted had its dependencies answered.
DepsAnswered ==
  \A t \in Tools :
    t \in futures \/ outcome[t] # "none" =>
      \A d \in DependsOn[t] \cap selected : results[d] \in Answered

\* What leaving the loop needs.
Drained == pc = "done" => pending = {} /\ futures = {}

IInv == TypeOK /\ Partition /\ PoolOrder /\ AbortFlag /\ DepsAnswered /\ Drained
-------------------------------------------------------------------------------

\* The locals as _schedule sets them up satisfy the invariant.
LEMMA InitIInv == Init => IInv
<1> SUFFICES ASSUME Init PROVE IInv
  OBVIOUS
<1> USE DEF Init, Nothing, Answered, Status
<1>1. TypeOK
  <2>1. queue \in Seq(Tools)
    OBVIOUS
  <2>2. results \in [Tools -> Status \cup {"none"}] /\ outcome \in [Tools -> Answered \cup {"none"}]
    OBVIOUS
  <2> QED
    BY <2>1, <2>2 DEF TypeOK
<1>2. Partition
  BY DEF Partition
<1>3. PoolOrder
  BY DEF PoolOrder
<1>4. AbortFlag
  BY DEF AbortFlag
<1>5. DepsAnswered /\ Drained
  BY DEF DepsAnswered, Drained
<1> QED
  BY <1>1, <1>2, <1>3, <1>4, <1>5 DEF IInv

\* Handing a ready tool to the pool: it moves from pending to futures and to the
\* end of the queue, and its dependencies have been answered.
LEMMA SubmitIInv ==
  ASSUME NEW t \in Tools, IInv, Submit(t)
  PROVE  IInv'
<1> USE DEF IInv, Submit, First, Ready, vars, params, mainVars, poolVars, fileVars
<1>1. TypeOK'
  BY DEF TypeOK, Answered, Status
<1>2. Partition'
  BY DEF TypeOK, Partition, PoolOrder, AbortFlag
<1>3. PoolOrder'
  BY DEF TypeOK, PoolOrder, Partition, Answered
<1>4. AbortFlag'
  BY DEF TypeOK, AbortFlag, Partition, PoolOrder, Answered, Status
<1>5. DepsAnswered'
  BY DependsAssumption DEF Status, TypeOK, DepsAnswered, Partition, PoolOrder, AbortFlag, Answered
<1>6. Drained'
  BY DEF TypeOK, Drained
<1> QED
  BY <1>1, <1>2, <1>3, <1>4, <1>5, <1>6

\* Going to wait changes nothing but the place in the loop.
LEMMA StartWaitIInv ==
  ASSUME IInv, StartWait
  PROVE  IInv'
<1> USE DEF IInv, StartWait, PassOver, vars, params, mainVars, poolVars, fileVars
<1>1. TypeOK'
  BY DEF TypeOK, Answered, Status
<1>2. Partition'
  BY DEF TypeOK, Partition, PoolOrder, AbortFlag
<1>3. PoolOrder'
  BY DEF TypeOK, PoolOrder, Partition, Answered
<1>4. AbortFlag'
  BY DEF TypeOK, AbortFlag, Partition, PoolOrder, Answered, Status
<1>5. DepsAnswered'
  BY DEF TypeOK, DepsAnswered, Partition, PoolOrder, AbortFlag, Answered
<1>6. Drained'
  BY DEF TypeOK, Drained
<1> QED
  BY <1>1, <1>2, <1>3, <1>4, <1>5, <1>6

\* Leaving the loop: since depends_on has no cycle, a pass that submitted nothing
\* with nothing in flight has nothing pending.
LEMMA LeaveIInv ==
  ASSUME IInv, Leave
  PROVE  IInv'
<1> USE DEF IInv, Leave, PassOver, Ready, vars, params, mainVars, poolVars, fileVars
<1>1. TypeOK'
  BY DEF TypeOK, Answered, Status
<1>2. Partition'
  BY DEF TypeOK, Partition, PoolOrder, AbortFlag
<1>3. PoolOrder'
  BY DEF TypeOK, PoolOrder, Partition, Answered
<1>4. AbortFlag'
  BY DEF TypeOK, AbortFlag, Partition, PoolOrder, Answered, Status
<1>5. DepsAnswered'
  BY DEF TypeOK, DepsAnswered, Partition, PoolOrder, AbortFlag, Answered
<1>6. Drained'
  \* A pending tool that depends on no pending tool would have been submitted.
  <2>1. ~aborted => Ready = {}
    OBVIOUS
  <2>2. ASSUME ~aborted, pending # {}
        PROVE  FALSE
    <3>1. pending \in SUBSET Tools
      BY DEF TypeOK
    <3>2. PICK t \in pending : DependsOn[t] \cap pending = {}
      BY <2>2, <3>1, DependsAssumption
    <3>3. \A d \in DependsOn[t] \cap selected : results[d] # "none"
      BY <3>1, <3>2, DependsAssumption DEF TypeOK, Partition
    <3> QED
      BY <2>1, <2>2, <3>2, <3>3
  <2>3. aborted => pending = {}
    BY DEF AbortFlag
  <2> QED
    BY <2>2, <2>3 DEF Drained
<1> QED
  BY <1>1, <1>2, <1>3, <1>4, <1>5, <1>6

\* wait() returns futures that have an outcome.
LEMMA WaitReturnsIInv ==
  ASSUME IInv, WaitReturns
  PROVE  IInv'
<1> USE DEF IInv, WaitReturns, vars, params, mainVars, poolVars, fileVars
<1>1. TypeOK'
  BY DEF TypeOK, Answered, Status
<1>2. Partition'
  BY DEF TypeOK, Partition, PoolOrder, AbortFlag
<1>3. PoolOrder'
  BY DEF TypeOK, PoolOrder, Partition, Answered
<1>4. AbortFlag'
  BY DEF TypeOK, AbortFlag, Partition, PoolOrder, Answered, Status
<1>5. DepsAnswered'
  BY DEF TypeOK, DepsAnswered, Partition, PoolOrder, AbortFlag, Answered
<1>6. Drained'
  BY DEF TypeOK, Drained
<1> QED
  BY <1>1, <1>2, <1>3, <1>4, <1>5, <1>6

\* Collecting a future records its own outcome and raises the abort flag.
LEMMA CollectIInv ==
  ASSUME NEW t \in Tools, IInv, Collect(t)
  PROVE  IInv'
<1> USE DEF IInv, Collect, vars, params, mainVars, poolVars, fileVars
<1>a. outcome[t] \in Answered
  BY DEF TypeOK, PoolOrder
<1>1. TypeOK'
  BY <1>a DEF TypeOK, PoolOrder, Answered, Status
<1>2. Partition'
  BY <1>a DEF Answered, TypeOK, Partition, PoolOrder, AbortFlag
<1>3. PoolOrder'
  BY DEF TypeOK, PoolOrder, Partition, Answered
<1>4. AbortFlag'
  BY DEF TypeOK, AbortFlag, Partition, PoolOrder, Answered, Status
<1>5. DepsAnswered'
  BY DEF TypeOK, DepsAnswered, Partition, PoolOrder, AbortFlag, Answered
<1>6. Drained'
  BY DEF TypeOK, Drained
<1> QED
  BY <1>1, <1>2, <1>3, <1>4, <1>5, <1>6

\* Skipping touches pending tools only.
LEMMA EndBatchIInv ==
  ASSUME IInv, EndBatch
  PROVE  IInv'
<1> USE DEF IInv, EndBatch, vars, params, mainVars, poolVars, fileVars
<1>1. TypeOK'
  BY DEF TypeOK, Answered, Status
<1>2. Partition'
  BY DEF TypeOK, Partition, PoolOrder, AbortFlag
<1>3. PoolOrder'
  BY DEF TypeOK, PoolOrder, Partition, Answered
<1>4. AbortFlag'
  BY DEF TypeOK, AbortFlag, Partition, PoolOrder, Answered, Status
<1>5. DepsAnswered'
  BY DEF TypeOK, DepsAnswered, Partition, PoolOrder, AbortFlag, Answered
<1>6. Drained'
  BY DEF TypeOK, Drained
<1> QED
  BY <1>1, <1>2, <1>3, <1>4, <1>5, <1>6

\* A worker takes the head of the queue, which is not queued again.
LEMMA LaunchIInv ==
  ASSUME IInv, Launch
  PROVE  IInv'
<1> USE DEF IInv, Launch, vars, params, mainVars, poolVars, fileVars
<1>1. TypeOK'
  BY DEF TypeOK, PoolOrder, Answered, Status
<1>2. Partition'
  BY DEF TypeOK, Partition, PoolOrder, AbortFlag
<1>3. PoolOrder'
  BY DEF TypeOK, PoolOrder, Partition, Answered
<1>4. AbortFlag'
  BY DEF TypeOK, AbortFlag, Partition, PoolOrder, Answered, Status
<1>5. DepsAnswered'
  BY DEF TypeOK, DepsAnswered, Partition, PoolOrder, AbortFlag, Answered
<1>6. Drained'
  BY DEF TypeOK, Drained
<1> QED
  BY <1>1, <1>2, <1>3, <1>4, <1>5, <1>6

\* A worker leaves the outcome of the tool it was running.
LEMMA FinishIInv ==
  ASSUME NEW t \in Tools, IInv, Finish(t)
  PROVE  IInv'
<1> USE DEF IInv, Finish, vars, params, mainVars, poolVars, fileVars
<1>1. TypeOK'
  BY DEF TypeOK, Answered, Status
<1>2. Partition'
  BY DEF TypeOK, Partition, PoolOrder, AbortFlag
<1>3. PoolOrder'
  BY DEF TypeOK, PoolOrder, Partition, Answered
<1>4. AbortFlag'
  BY DEF TypeOK, AbortFlag, Partition, PoolOrder, Answered, Status
<1>5. DepsAnswered'
  BY DEF TypeOK, DepsAnswered, Partition, PoolOrder, AbortFlag, Answered
<1>6. Drained'
  BY DEF TypeOK, Drained
<1> QED
  BY <1>1, <1>2, <1>3, <1>4, <1>5, <1>6

\* The steps on syft.json leave the scheduler alone.
LEMMA SbomIInv ==
  ASSUME IInv, SyftOpens \/ SyftWrites \/ GrypeReads
  PROVE  IInv'
<1> USE DEF IInv, SyftOpens, SyftWrites, GrypeReads, vars, params, mainVars, poolVars, fileVars
<1>1. TypeOK'
  BY DEF TypeOK, Answered, Status
<1>2. Partition'
  BY DEF TypeOK, Partition, PoolOrder, AbortFlag
<1>3. PoolOrder'
  BY DEF TypeOK, PoolOrder, Partition, Answered
<1>4. AbortFlag'
  BY DEF TypeOK, AbortFlag, Partition, PoolOrder, Answered, Status
<1>5. DepsAnswered'
  BY DEF TypeOK, DepsAnswered, Partition, PoolOrder, AbortFlag, Answered
<1>6. Drained'
  BY DEF TypeOK, Drained
<1> QED
  BY <1>1, <1>2, <1>3, <1>4, <1>5, <1>6

\* Every step of the main thread and of the pool preserves the invariant.
LEMMA NextIInv == IInv /\ [Next]_vars => IInv'
<1> SUFFICES ASSUME IInv, [Next]_vars
             PROVE  IInv'
  OBVIOUS
<1>1. CASE Main
  BY <1>1, SubmitIInv, StartWaitIInv, LeaveIInv, WaitReturnsIInv, CollectIInv, EndBatchIInv
  DEF Main
<1>2. CASE Worker
  BY <1>2, LaunchIInv, FinishIInv, SbomIInv DEF Worker
<1>3. CASE UNCHANGED vars
  BY <1>3 DEF vars, params, mainVars, poolVars, fileVars, IInv, TypeOK, Partition, PoolOrder,
              AbortFlag, DepsAnswered, Drained
<1> QED
  BY <1>1, <1>2, <1>3 DEF Next, Returned

\* The inductive invariant holds of every behaviour of _schedule.
THEOREM SchedulerInvariant == SafeSpec => []IInv
  BY InitIInv, NextIInv, PTL DEF SafeSpec

\* The locals of _schedule keep their types.
THEOREM TypeCorrect == SafeSpec => []TypeOK
<1>1. IInv => TypeOK
  BY DEF IInv
<1> QED
  BY <1>1, SchedulerInvariant, PTL

\* Leaving the loop of _schedule leaves no selected tool without a result, for
\* every acyclic depends_on.
THEOREM NoToolIsDropped == SafeSpec => []NoToolDropped
<1>1. IInv => NoToolDropped
  <2> SUFFICES ASSUME IInv, pc = "done"
               PROVE  /\ \A t \in Tools : results[t] # "none" <=> t \in selected
                      /\ queue = <<>> /\ running = {}
    BY DEF NoToolDropped
  <2>1. pending = {} /\ futures = {}
    BY DEF IInv, Drained
  <2>2. \A t \in Tools : results[t] # "none" <=> t \in selected
    BY <2>1 DEF IInv, Partition
  <2>3. running = {}
    BY <2>1 DEF IInv, TypeOK
  <2>4. queue = <<>>
    <3>1. DOMAIN queue = {}
      BY <2>1 DEF IInv, PoolOrder
    <3> QED
      BY <3>1 DEF IInv, TypeOK
  <2> QED
    BY <2>2, <2>3, <2>4
<1> QED
  BY <1>1, SchedulerInvariant, PTL

\* A result comes from the tool's own run, and a skipped tool never runs.
THEOREM ResultsAreTheRunsOwn == SafeSpec => []ResultIsTheRunsOwn
<1>1. IInv => ResultIsTheRunsOwn
  <2> SUFFICES ASSUME IInv, NEW t \in Tools
               PROVE  /\ results[t] \in Answered => outcome[t] = results[t]
                      /\ results[t] = "skipped" =>
                           /\ outcome[t] = "none"
                           /\ t \notin running \cup {queue[i] : i \in DOMAIN queue}
    BY DEF ResultIsTheRunsOwn
  <2>1. results[t] = "skipped" => t \notin futures /\ outcome[t] = "none"
    BY DEF IInv, Partition
  <2>2. running \cup {queue[i] : i \in DOMAIN queue} \subseteq futures
    BY DEF IInv, TypeOK, PoolOrder
  <2> QED
    BY <2>1, <2>2 DEF IInv, PoolOrder
<1> QED
  BY <1>1, SchedulerInvariant, PTL

\* Nothing is skipped without fail_fast or without a reported failure.
THEOREM SkippingNeedsFailure == SafeSpec => []SkippedOnlyBehindFailure
<1>1. IInv => SkippedOnlyBehindFailure
  BY DEF IInv, AbortFlag, Partition, SkippedOnlyBehindFailure
<1> QED
  BY <1>1, SchedulerInvariant, PTL

\* A running scanner's dependencies have ended, for every dependency graph.
THEOREM DependenciesAlwaysEndFirst == SafeSpec => []DependenciesEndFirst
<1>1. IInv => DependenciesEndFirst
  BY DependsAssumption
  DEF IInv, TypeOK, DepsAnswered, PoolOrder, Answered, DependenciesEndFirst
<1> QED
  BY <1>1, SchedulerInvariant, PTL

\* No scanner is submitted behind a failure collected under fail_fast.
THEOREM NoSubmissionAfterFailure == SafeSpec => NothingSubmittedAfterFailure
<1>1. IInv /\ [Next]_vars =>
        [failFast /\ (\E t \in Tools : results[t] = "failed") => futures' \subseteq futures]_vars
  <2> SUFFICES ASSUME IInv, Next, failFast, \E t \in Tools : results[t] = "failed"
               PROVE  futures' \subseteq futures
    OBVIOUS
  <2>1. aborted
    BY DEF IInv, AbortFlag
  <2> QED
    BY <2>1 DEF Next, Main, Worker, Returned, Submit, StartWait, Leave, WaitReturns, Collect,
                EndBatch, Launch, Finish, SyftOpens, SyftWrites, GrypeReads, vars, mainVars
<1> QED
  BY <1>1, SchedulerInvariant, PTL DEF SafeSpec, NothingSubmittedAfterFailure

-------------------------------------------------------------------------------
(* The SBOM file *)

\* syft.json is written by a running syft only, and what grype opened is what
\* an ended syft had left there.
SbomInv ==
  /\ Syft \notin running /\ outcome[Syft] = "none" => sbom = "absent"
  /\ outcome[Syft] = "ok" => sbom = "whole"
  /\ grypeInput # "unread" /\ Syft \in selected =>
       /\ outcome[Syft] # "none"
       /\ grypeInput = IF sbom = "absent" THEN "dir" ELSE sbom

\* Every step preserves what is known of syft.json.
LEMMA NextSbomInv == IInv /\ SbomInv /\ [Next]_vars => SbomInv'
<1> SUFFICES ASSUME IInv, SbomInv, [Next]_vars
             PROVE  SbomInv'
  OBVIOUS
<1> USE SbomAssumption DEF SbomInv
<1>1. ASSUME Main \/ UNCHANGED vars
      PROVE  SbomInv'
  BY <1>1 DEF Main, Submit, StartWait, Leave, WaitReturns, Collect, EndBatch, vars, params,
              mainVars, poolVars, fileVars
<1>2. CASE Launch
  BY <1>2 DEF Launch, params, mainVars, fileVars
<1>3. CASE SyftOpens \/ SyftWrites
  BY <1>3 DEF SyftOpens, SyftWrites, params, poolVars, IInv, PoolOrder
<1>4. CASE GrypeReads
  <2>1. Syft \in selected => outcome[Syft] # "none"
    BY <1>4 DEF GrypeReads, IInv, TypeOK, DepsAnswered, PoolOrder, Answered
  <2> QED
    BY <1>4, <2>1 DEF GrypeReads, params, poolVars
<1>5. ASSUME NEW t \in Tools, Finish(t)
      PROVE  SbomInv'
  BY <1>5 DEF Finish, params, fileVars, IInv, TypeOK, PoolOrder, Answered
<1> QED
  BY <1>1, <1>2, <1>3, <1>4, <1>5 DEF Next, Worker, Returned

\* grype never opens a document that syft is still writing.
THEOREM GrypeNeverReadsUnfinished == SafeSpec => []GrypeReadsFinishedSbom
<1>1. Init => SbomInv
  BY SbomAssumption DEF Init, Nothing, SbomInv
<1>2. IInv /\ SbomInv => GrypeReadsFinishedSbom
  BY SbomAssumption DEF IInv, TypeOK, Answered, SbomInv, GrypeReadsFinishedSbom
<1>3. SafeSpec => []SbomInv
  BY <1>1, NextSbomInv, SchedulerInvariant, PTL DEF SafeSpec
<1> QED
  BY <1>2, <1>3, SchedulerInvariant, PTL

-------------------------------------------------------------------------------
(* Refinement *)

\* The progress of each tool, read off the partition.
LEMMA ProgressValues ==
  ASSUME TypeOK, Partition, PoolOrder, NEW t \in Tools
  PROVE  /\ results[t] # "none" => progress[t] = results[t]
         /\ results[t] = "none" /\ outcome[t] # "none" => progress[t] = outcome[t]
         /\ t \in running => progress[t] = "running"
         /\ t \in pending => progress[t] = "waiting"
         /\ t \in futures \ running /\ outcome[t] = "none" => progress[t] = "waiting"
  BY DEF progress, TypeOK, Partition, PoolOrder

\* A launch by the pool is a launch of the plan.
LEMMA LaunchIsPlanLaunch ==
  ASSUME IInv, Launch
  PROVE  \E t \in Tools : Plan!Launch(t)
<1> DEFINE t == Head(queue)
<1>1. t \in futures \ running /\ outcome[t] = "none" /\ t \in selected /\ t \in Tools
  BY DEF IInv, TypeOK, PoolOrder, Launch
<1>2. progress[t] = "waiting" /\ results[t] = "none"
  BY <1>1, ProgressValues DEF IInv, Partition
<1>3. ASSUME NEW d \in DependsOn[t] \cap selected
      PROVE  progress[d] \in Answered
  <2>1. results[d] \in Answered /\ d \in Tools
    BY <1>1, <1>3 DEF IInv, TypeOK, DepsAnswered
  <2> QED
    BY <2>1, ProgressValues DEF IInv, Answered
<1>4. progress' = [progress EXCEPT ![t] = "running"]
  <2>1. running' = running \cup {t} /\ UNCHANGED <<results, outcome>>
    BY DEF Launch, mainVars
  <2> QED
    BY <1>1, <1>2, <2>1 DEF progress
<1>5. UNCHANGED <<selected, failFast>>
  BY DEF Launch, params
<1>6. Plan!Launch(t)
  BY <1>1, <1>2, <1>3, <1>4, <1>5 DEF Plan!Launch, Plan!Answered, Answered
<1> QED
  BY <1>1, <1>6

\* The end of a scanner is an answer of the plan.
LEMMA FinishIsPlanAnswer ==
  ASSUME IInv, NEW t \in Tools, Finish(t)
  PROVE  Plan!Answer(t)
<1>1. t \in running /\ results[t] = "none" /\ progress[t] = "running"
  BY ProgressValues DEF Finish, IInv, TypeOK, Partition
<1>2. PICK status \in Answered : outcome' = [outcome EXCEPT ![t] = status]
  BY DEF Finish
<1>3. progress' = [progress EXCEPT ![t] = status]
  <2>1. running' = running \ {t} /\ UNCHANGED results
    BY DEF Finish, mainVars
  <2> QED
    BY <1>1, <1>2, <2>1 DEF progress, Answered, IInv, TypeOK
<1>4. UNCHANGED <<selected, failFast>>
  BY DEF Finish, params
<1> QED
  BY <1>1, <1>2, <1>3, <1>4 DEF Plan!Answer, Plan!Answered, Answered

\* Skipping what is pending is the plan's skip, or nothing.
LEMMA EndBatchIsPlanSkip ==
  ASSUME IInv, EndBatch
  PROVE  Plan!Skip \/ UNCHANGED Plan!planVars
<1>1. UNCHANGED <<selected, failFast, outcome, running>>
  BY DEF EndBatch, params, poolVars
<1>2. CASE aborted /\ pending # {}
  <2>1. failFast /\ \E u \in selected : progress[u] = "failed"
    BY <1>2, ProgressValues DEF IInv, AbortFlag, Partition
  <2>2. \A t \in pending : t \in selected /\ t \in Tools /\ progress[t] = "waiting"
    BY ProgressValues DEF IInv, TypeOK
  <2>3. progress' = [t \in Tools |-> IF t \in pending THEN "skipped" ELSE progress[t]]
    <3>1. results' = [t \in Tools |-> IF t \in pending THEN "skipped" ELSE results[t]]
      BY <1>2 DEF EndBatch
    <3> QED
      BY <1>1, <3>1 DEF progress
  <2>4. pending \in SUBSET {t \in selected : progress[t] = "waiting"}
    BY <2>2
  <2> QED
    BY <1>1, <1>2, <2>1, <2>3, <2>4 DEF Plan!Skip
<1>3. CASE ~(aborted /\ pending # {})
  <2>1. UNCHANGED results
    BY <1>3 DEF EndBatch, IInv, TypeOK
  <2> QED
    BY <1>1, <2>1 DEF progress, Plan!planVars
<1> QED
  BY <1>2, <1>3

\* Collecting a result that is there already changes nothing the plan sees.
LEMMA CollectIsPlanStutter ==
  ASSUME IInv, NEW t \in Tools, Collect(t)
  PROVE  UNCHANGED Plan!planVars
<1>1. results[t] = "none" /\ outcome[t] \in Answered
  BY DEF Collect, IInv, TypeOK, Partition, PoolOrder
<1>2. UNCHANGED <<selected, failFast, outcome, running>>
  BY DEF Collect, params, poolVars
<1>3. results' = [results EXCEPT ![t] = outcome[t]]
  BY DEF Collect
<1>4. progress' = progress
  BY <1>1, <1>2, <1>3 DEF progress, Answered, IInv, TypeOK
<1> QED
  BY <1>2, <1>4 DEF Plan!planVars

\* Every step of _schedule and its pool is a step of the plan or leaves it alone.
THEOREM SchedulerImplementsPlan == SafeSpec => Plan!SafeSpec
<1>1. Init => Plan!Init
  BY DEF Init, Nothing, progress, Plan!Init
<1>2. IInv /\ [Next]_vars => [Plan!Next]_Plan!planVars
  <2> SUFFICES ASSUME IInv, [Next]_vars
               PROVE  Plan!Next \/ UNCHANGED Plan!planVars
    OBVIOUS
  <2>1. ASSUME NEW t \in Tools, Submit(t)
        PROVE  UNCHANGED Plan!planVars
    BY <2>1 DEF Submit, params, progress, Plan!planVars
  <2>2. CASE StartWait \/ Leave \/ WaitReturns
    BY <2>2 DEF StartWait, Leave, WaitReturns, params, poolVars, progress, Plan!planVars
  <2>3. CASE SyftOpens \/ SyftWrites \/ GrypeReads
    BY <2>3 DEF SyftOpens, SyftWrites, GrypeReads, params, mainVars, poolVars, progress,
                Plan!planVars
  <2>4. CASE UNCHANGED vars
    BY <2>4 DEF vars, params, mainVars, poolVars, progress, Plan!planVars
  <2> QED
    BY <2>1, <2>2, <2>3, <2>4, LaunchIsPlanLaunch, FinishIsPlanAnswer, EndBatchIsPlanSkip,
       CollectIsPlanStutter
    DEF Next, Main, Worker, Returned, Plan!Next
<1> QED
  BY <1>1, <1>2, SchedulerInvariant, PTL DEF SafeSpec, Plan!SafeSpec

===============================================================================
