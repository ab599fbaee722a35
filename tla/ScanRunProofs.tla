---------------------------- MODULE ScanRunProofs -----------------------------
(***************************************************************************)
(* What the exit code of a run says, for every set of scanners, every      *)
(* dependency relation, every set of results and every option record.      *)
(***************************************************************************)
EXTENDS ScanRun, TLAPS

\* The places behind the gate of a run that goes on.
Tail == {"report", "sbom", "latest", "return", "returned"}

Progress == {"waiting", "running", "ok", "failed", "skipped"}

\* The scanners: only selected ones make progress, skips stand behind a failure.
ScannersOK ==
  /\ progress \in [Tools -> Progress] /\ status \in [Tools -> Progress]
  /\ \A t \in Tools : progress[t] # "waiting" => t \in selected
  /\ (\E t \in Tools : progress[t] = "skipped") => \E t \in selected : progress[t] = "failed"

\* Behind the scanners the statuses are theirs, but for a syft whose SBOM could not
\* be converted, and the verdict is that of the statuses as they are.
SyftFailedLate == progress[Syft] = "ok" /\ status[Syft] = "failed"
VerdictIsCurrent ==
  phase \in Tail =>
    /\ options.baseline # "missing"
    /\ \A t \in selected : progress[t] \in {"ok", "failed", "skipped"}
    /\ \A t \in Tools : status[t] = progress[t] \/ (t = Syft /\ SyftFailedLate)
    /\ policy = evaluate(AllFindings, Failures(status), options)

\* A report has the verdict of now, or one from before syft failed.
ReportsFollow ==
  /\ phase = "scan" => \A f \in REPORT_OUTPUTS : reports[f] = -1
  /\ phase \in Tail =>
       \A f \in REPORT_OUTPUTS : reports[f] \in {-1, policy} \/ SyftFailedLate
  /\ phase \in Tail =>
       \A f \in options.outputs \cap REPORT_OUTPUTS :
         reports[f] # -1 \/ (phase = "report" /\ f \in todo)

\* While syft counts as successful, each SBOM asked for is there or still to come,
\* unless syft.json was lost before the first was exported.
NothingToExport == toolsOutput = "lost" /\ sboms = {}
SbomsFollow ==
  /\ phase \in {"scan", "report"} => sboms = {} /\ toolsOutput # "removed"
  /\ phase = "sbom" => /\ todo \subseteq SBOM_OUTPUTS
                       /\ todo # {} => progress[Syft] = "ok"
                       /\ status[Syft] = "ok" =>
                            \/ options.outputs \cap SBOM_OUTPUTS = sboms \cup todo
                            \/ NothingToExport /\ todo = {}
  /\ phase \in {"latest", "return", "returned"} /\ status[Syft] = "ok" =>
       options.outputs \cap SBOM_OUTPUTS = sboms \/ NothingToExport

\* The process has an exit code when it has ended, and why it has this one.
ExitCodeByPlace ==
  /\ phase \notin Ends => exitCode = -1
  /\ phase = "returned" => exitCode = policy
  /\ phase = "usage" => exitCode = EXIT_USAGE
  /\ phase = "raised" => exitCode = 1

IInv == TypeOK /\ ScannersOK /\ VerdictIsCurrent /\ ReportsFollow /\ SbomsFollow /\ ExitCodeByPlace
-------------------------------------------------------------------------------
(* The gate *)

\* The verdict is one of three exit codes, and 2 exactly when something failed.
LEMMA EvaluateRange ==
  ASSUME NEW fs, NEW failures, NEW o
  PROVE  /\ evaluate(fs, failures, o) \in 0..2
         /\ evaluate(fs, failures, o) = EXIT_SCANNER <=> failures # {}
         /\ evaluate(fs, failures, o) = EXIT_OK =>
              failures = {} /\ ~threshold_exceeded(fs, o) /\ ~secrets_failed(fs, o)
  BY DEF evaluate, EXIT_OK, EXIT_POLICY, EXIT_SCANNER

\* The order of the severities, spelled out, is that of their ranks.
LEMMA RanksFollowOrder ==
  ASSUME NEW i \in 1..5, NEW j \in 1..5, i <= j
  PROVE  LET s == <<"critical", "high", "medium", "low", "info">>
         IN severity_at_or_above(s[i], s[j])
<1> DEFINE s == <<"critical", "high", "medium", "low", "info">>
<1>1. \A k \in 1..5 : s[k] \in Severities /\ s[k] # "unknown" /\ SEVERITY_RANK[s[k]] = k - 1
  <2> TAKE k \in 1..5
  <2>1. CASE k = 1 BY <2>1 DEF Severities, SEVERITY_RANK
  <2>2. CASE k = 2 BY <2>2 DEF Severities, SEVERITY_RANK
  <2>3. CASE k = 3 BY <2>3 DEF Severities, SEVERITY_RANK
  <2>4. CASE k = 4 BY <2>4 DEF Severities, SEVERITY_RANK
  <2>5. CASE k = 5 BY <2>5 DEF Severities, SEVERITY_RANK
  <2> QED BY <2>1, <2>2, <2>3, <2>4, <2>5
<1> HIDE DEF s
<1>2. severity_at_or_above(s[i], s[j]) BY <1>1 DEF severity_at_or_above
<1> QED BY <1>2 DEF s

\* An offending finding does not pass the gate.
LEMMA GateStopsOffending ==
  ASSUME RunAssumption, options \in OptionSets, options.baseline # "missing",
         NEW fs, NEW f \in fs, Offending(f)
  PROVE  threshold_exceeded(fs, options) \/ secrets_failed(fs, options)
<1>1. options.baseline \in {"unset", "present"} /\ options.secrets \in {"off", "any", "verified"}
  BY DEF RunAssumption, Options
<1>2. f \in Gated(fs, options)
  BY <1>1 DEF Offending, Gated, OnlyNew
<1>3. CASE f.category = "secret"
  BY <1>1, <1>2, <1>3 DEF Offending, secrets_failed
<1>4. CASE f.category # "secret"
  <2> DEFINE s == <<"critical", "high", "medium", "low", "info">>
  <2>1. PICK i \in 1..5, j \in 1..5 :
          i <= j /\ f.severity = s[i] /\ options.threshold = s[j] /\ options.threshold # "none"
    BY <1>4 DEF Offending
  <2>2. severity_at_or_above(s[i], s[j]) BY <2>1, RanksFollowOrder
  <2>3. severity_at_or_above(f.severity, options.threshold) BY <2>1, <2>2
  <2> QED BY <1>2, <1>4, <2>1, <2>3 DEF threshold_exceeded
<1> QED BY <1>3, <1>4
-------------------------------------------------------------------------------
(* The inductive invariant *)

USE DEF Ends, Tail, Phases, Progress

LEMMA InitIInv == ASSUME RunAssumption, Init PROVE IInv
<1> USE DEF Init, Plan!Init, RunAssumption
<1>1. TypeOK
  <2>1. reports \in [REPORT_OUTPUTS -> -1..2] /\ findings \in [Tools -> SUBSET Findings] OBVIOUS
  <2>2. options \in OptionSets /\ timedOut \subseteq selected OBVIOUS
  <2>3. todo \subseteq options.outputs /\ sboms \subseteq options.outputs \cap SBOM_OUTPUTS OBVIOUS
  <2>4. policy \in -1..2 /\ exitCode \in -1..3 OBVIOUS
  <2>5. phase \in Phases OBVIOUS
  <2>6. DOMAIN status = Tools /\ selected \in SUBSET Tools OBVIOUS
  <2>7. toolsOutput \in {"there", "removed", "lost"} /\ latest \in BOOLEAN OBVIOUS
  <2> QED BY <2>1, <2>2, <2>3, <2>4, <2>5, <2>6, <2>7 DEF TypeOK
<1>2. ScannersOK BY DEF ScannersOK
<1>3. VerdictIsCurrent /\ ReportsFollow /\ SbomsFollow /\ ExitCodeByPlace
  BY DEF VerdictIsCurrent, ReportsFollow, SbomsFollow, NothingToExport, ExitCodeByPlace
<1> QED BY <1>1, <1>2, <1>3 DEF IInv

LEMMA LaunchOrSkipIInv == ASSUME IInv, LaunchOrSkip PROVE IInv'
<1> USE DEF LaunchOrSkip, tailVars, IInv
<1>1. ScannersOK'
  <2>1. CASE Plan!Skip
    <3>1. PICK S \in SUBSET {t \in selected : progress[t] = "waiting"} :
            progress' = [t \in Tools |-> IF t \in S THEN "skipped" ELSE progress[t]]
      BY <2>1 DEF Plan!Skip
    <3>2. PICK u \in selected : progress[u] = "failed" BY <2>1 DEF Plan!Skip
    <3>3. u \in Tools /\ progress'[u] = "failed" /\ selected' = selected
      BY <2>1, <3>1, <3>2 DEF Plan!Skip, TypeOK
    <3> QED BY <3>1, <3>3 DEF ScannersOK, TypeOK
  <2>2. CASE \E t \in Tools : Plan!Launch(t)
    BY <2>2 DEF Plan!Launch, ScannersOK, TypeOK
  <2> QED BY <2>1, <2>2
<1>2. selected' = selected BY DEF Plan!Skip, Plan!Launch
<1>3. TypeOK' BY <1>2 DEF TypeOK
<1>4. (VerdictIsCurrent /\ ReportsFollow /\ SbomsFollow /\ ExitCodeByPlace)'
  BY DEF VerdictIsCurrent, ReportsFollow, SbomsFollow, NothingToExport, ExitCodeByPlace
<1> QED BY <1>1, <1>3, <1>4

LEMMA AnswerIInv == ASSUME RunAssumption, IInv, NEW t \in Tools, Answer(t) PROVE IInv'
<1> USE DEF Answer, Plan!Answer, Plan!Answered, tailVars, IInv
<1>1. PICK st \in {"ok", "failed"} : progress' = [progress EXCEPT ![t] = st] OBVIOUS
<1>2. t \in selected /\ selected' = selected BY DEF ScannersOK
<1>3. findings' \in [Tools -> SUBSET Findings] BY DEF TypeOK, RunAssumption
<1>4. timedOut' \subseteq selected BY <1>2 DEF TypeOK
<1>5. TypeOK' BY <1>2, <1>3, <1>4 DEF TypeOK
<1>6. ScannersOK' BY <1>1, <1>2 DEF ScannersOK, TypeOK
<1>7. (VerdictIsCurrent /\ ReportsFollow /\ SbomsFollow /\ ExitCodeByPlace)'
  BY DEF VerdictIsCurrent, ReportsFollow, SbomsFollow, NothingToExport, ExitCodeByPlace
<1> QED BY <1>5, <1>6, <1>7

LEMMA EvaluateIInv == ASSUME IInv, Evaluate PROVE IInv'
<1> USE DEF Evaluate, planVars, IInv
<1>1. policy' \in 0..2 BY EvaluateRange
<1>2. TypeOK' BY <1>1 DEF TypeOK, ScannersOK
<1>3. ScannersOK' BY DEF ScannersOK
<1>4. AllFindings' = AllFindings /\ Failures(status)' = Failures(progress)
  BY DEF AllFindings, Failures
<1>5. VerdictIsCurrent'
  BY <1>4 DEF VerdictIsCurrent, Plan!Done, Plan!Final, Plan!Answered
<1>6. (ReportsFollow /\ SbomsFollow /\ ExitCodeByPlace)'
  BY DEF ReportsFollow, SbomsFollow, NothingToExport, ExitCodeByPlace
<1> QED BY <1>2, <1>3, <1>5, <1>6

\* The steps that leave the verdict alone: it stays the current one.
LEMMA VerdictStays ==
  ASSUME IInv, UNCHANGED <<planVars, options, findings, status, policy>>,
         phase' \in Tail => phase \in Tail
  PROVE  (ScannersOK /\ VerdictIsCurrent)'
<1> USE DEF planVars, IInv
<1>1. AllFindings' = AllFindings /\ Failures(status)' = Failures(status)
  BY DEF AllFindings, Failures
<1>2. VerdictIsCurrent' BY <1>1 DEF VerdictIsCurrent, SyftFailedLate
<1>3. ScannersOK' BY DEF ScannersOK
<1> QED BY <1>2, <1>3

LEMMA WriteReportIInv == ASSUME IInv, NEW f \in REPORT_OUTPUTS, WriteReport(f) PROVE IInv'
<1> USE DEF WriteReport
<1>1. (ScannersOK /\ VerdictIsCurrent)' BY VerdictStays
<1> USE DEF planVars, IInv
<1>2. policy \in 0..2 BY EvaluateRange DEF VerdictIsCurrent
<1>3. TypeOK' BY DEF TypeOK
<1>4. ReportsFollow' BY <1>2 DEF ReportsFollow, TypeOK, SyftFailedLate
<1>5. (SbomsFollow /\ ExitCodeByPlace)' BY DEF SbomsFollow, NothingToExport, ExitCodeByPlace
<1> QED BY <1>1, <1>3, <1>4, <1>5

LEMMA ReportsWrittenIInv == ASSUME IInv, ReportsWritten PROVE IInv'
<1> USE DEF ReportsWritten
<1>1. (ScannersOK /\ VerdictIsCurrent)' BY VerdictStays
<1> USE DEF planVars, IInv
<1>2. status[Syft] = "ok" => progress[Syft] = "ok" 
  BY DEF VerdictIsCurrent, SyftFailedLate, TypeOK, ScannersOK
<1>3. TypeOK' BY DEF TypeOK
<1>4. ReportsFollow' BY DEF ReportsFollow, TypeOK, SyftFailedLate
<1>5. (SbomsFollow /\ ExitCodeByPlace)'
  BY <1>2 DEF SbomsFollow, NothingToExport, ExitCodeByPlace, TypeOK
<1> QED BY <1>1, <1>3, <1>4, <1>5

LEMMA ExportSbomIInv == ASSUME IInv, NEW f \in SBOM_OUTPUTS, ExportSbom(f) PROVE IInv'
<1> USE DEF ExportSbom
<1>1. (ScannersOK /\ VerdictIsCurrent)' BY VerdictStays
<1> USE DEF planVars, IInv
<1>2. TypeOK' BY DEF TypeOK
<1>3. ReportsFollow' BY DEF ReportsFollow, TypeOK, SyftFailedLate
<1>4. (SbomsFollow /\ ExitCodeByPlace)' BY DEF SbomsFollow, NothingToExport, ExitCodeByPlace, TypeOK
<1> QED BY <1>1, <1>2, <1>3, <1>4

\* The one step that changes the verdict: syft is failed, so it is 2 from now on.
LEMMA ExportFailsIInv ==
  ASSUME RunAssumption, IInv, NEW f \in SBOM_OUTPUTS, ExportFails(f) PROVE IInv'
<1> USE DEF ExportFails, planVars, IInv
<1>1. progress[Syft] = "ok" /\ Syft \in Tools BY DEF SbomsFollow, RunAssumption
<1>2. status' \in [Tools -> Progress] /\ status'[Syft] = "failed"
  BY <1>1 DEF ScannersOK
<1>3. SyftFailedLate' BY <1>1, <1>2 DEF SyftFailedLate
<1>4. AllFindings' = AllFindings /\ Failures(status)' = Failures(status')
  BY DEF AllFindings, Failures
<1>5. policy' = evaluate(AllFindings, Failures(status), options)'
  BY <1>4
<1>6. VerdictIsCurrent'
  <2>1. \A t \in Tools : status'[t] = progress[t] \/ (t = Syft /\ SyftFailedLate')
    BY <1>2, <1>3 DEF VerdictIsCurrent, ScannersOK
  <2> QED BY <1>5, <2>1 DEF VerdictIsCurrent
<1>7. ScannersOK' BY <1>2 DEF ScannersOK
<1>8. policy' \in 0..2 BY EvaluateRange
<1>9. TypeOK' BY <1>2, <1>8 DEF TypeOK
<1>10. (ReportsFollow /\ SbomsFollow /\ ExitCodeByPlace)'
  BY <1>1, <1>2, <1>3 DEF ReportsFollow, SbomsFollow, NothingToExport, ExitCodeByPlace, TypeOK
<1> QED BY <1>6, <1>7, <1>9, <1>10

LEMMA EndOfRunIInv == ASSUME RunAssumption, IInv, Cleanup \/ UpdateLatest \/ Return PROVE IInv'
<1> USE DEF Cleanup, UpdateLatest, Return, End
<1>1. (ScannersOK /\ VerdictIsCurrent)' BY VerdictStays
<1> USE DEF planVars, IInv
<1>2. policy \in 0..2 \/ phase # "return" BY EvaluateRange DEF VerdictIsCurrent
<1>3. TypeOK'
  <2>1. options \in Options BY DEF TypeOK, RunAssumption
  <2>2. options' \in OptionSets /\ options.keep \in BOOLEAN BY <2>1 DEF TypeOK, Options
  <2> QED BY <1>2, <2>2 DEF TypeOK
<1>4. ReportsFollow' BY DEF ReportsFollow, TypeOK, SyftFailedLate
<1>5. (SbomsFollow /\ ExitCodeByPlace)' BY DEF SbomsFollow, NothingToExport, ExitCodeByPlace, TypeOK
<1> QED BY <1>1, <1>3, <1>4, <1>5

LEMMA OtherRunIInv == ASSUME IInv, OtherRunCleansUp PROVE IInv'
<1> USE DEF OtherRunCleansUp
<1>1. (ScannersOK /\ VerdictIsCurrent)' BY VerdictStays
<1> USE DEF planVars, IInv
<1>2. TypeOK' BY DEF TypeOK
<1>3. ReportsFollow' BY DEF ReportsFollow, TypeOK, SyftFailedLate
<1>4. (SbomsFollow /\ ExitCodeByPlace)' BY DEF SbomsFollow, NothingToExport, ExitCodeByPlace
<1> QED BY <1>1, <1>2, <1>3, <1>4

\* The steps that end the process in another way: no claim but the exit code's.
LEMMA AbortIInv ==
  ASSUME RunAssumption, IInv,
         BaselineUnusable \/ Raise \/ \E f \in SBOM_OUTPUTS : ExportTimesOut(f)
  PROVE  IInv'
<1> USE DEF BaselineUnusable, Raise, ExportTimesOut, End
<1>1. phase' \in {"usage", "raised"} OBVIOUS
<1>2. (ScannersOK /\ VerdictIsCurrent)' BY <1>1, VerdictStays
<1> USE DEF planVars, IInv
<1>3. timedOut' \subseteq selected
  BY DEF TypeOK, SbomsFollow, ScannersOK, RunAssumption
<1>4. TypeOK' BY <1>3 DEF TypeOK, EXIT_USAGE
<1>5. (ReportsFollow /\ SbomsFollow /\ ExitCodeByPlace)'
  BY DEF ReportsFollow, SbomsFollow, NothingToExport, ExitCodeByPlace
<1> QED BY <1>2, <1>4, <1>5

LEMMA StepIInv == ASSUME RunAssumption, IInv, [Next]_vars PROVE IInv'
<1>1. CASE UNCHANGED vars
  <2> USE <1>1 DEF vars, planVars, tailVars
  <2>1. (ScannersOK /\ VerdictIsCurrent)' BY VerdictStays
  <2>2. TypeOK' BY DEF IInv, TypeOK
  <2>3. (ReportsFollow /\ SbomsFollow /\ ExitCodeByPlace)'
    BY DEF IInv, ReportsFollow, SbomsFollow, NothingToExport, ExitCodeByPlace, SyftFailedLate
  <2> QED BY <2>1, <2>2, <2>3 DEF IInv
<1>2. CASE LaunchOrSkip \/ \E t \in Tools : Answer(t)
  BY <1>2, LaunchOrSkipIInv, AnswerIInv
<1>3. CASE Conclude
  BY <1>3, EvaluateIInv, WriteReportIInv, ReportsWrittenIInv, ExportSbomIInv, ExportFailsIInv,
     EndOfRunIInv, AbortIInv DEF Conclude
<1>4. CASE Raise \/ OtherRunCleansUp BY <1>4, AbortIInv, OtherRunIInv
<1> QED BY <1>1, <1>2, <1>3, <1>4 DEF Next, Exited
-------------------------------------------------------------------------------
(* Theorems *)

\* The invariant of a run, whatever its scanners do and whatever fails.
THEOREM InvariantHolds == ASSUME RunAssumption PROVE Spec => []IInv
<1>1. Init => IInv BY InitIInv
<1>2. IInv /\ [Next]_vars => IInv' BY StepIInv
<1> QED BY <1>1, <1>2, PTL DEF Spec

\* Type correctness of the run's state.
THEOREM TypeCorrect == ASSUME RunAssumption PROVE Spec => []TypeOK
<1>1. IInv => TypeOK BY DEF IInv
<1> QED BY <1>1, InvariantHolds, PTL

\* Exit code 0: all selected scanners ended well, the baseline was usable, and nothing
\* offending was found, for every set of findings and every policy; the SBOMs asked
\* for are all there, or none is and syft.json was taken away before the export.
THEOREM ZeroIsClean == ASSUME RunAssumption PROVE Spec => []ZeroMeansClean
<1>1. IInv => ZeroMeansClean
  <2> SUFFICES ASSUME IInv, exitCode = EXIT_OK
               PROVE  /\ \A t \in selected : progress[t] = "ok"
                      /\ options.baseline # "missing"
                      /\ Syft \in selected =>
                           options.outputs \cap SBOM_OUTPUTS = sboms \/ NothingToExport
                      /\ \A t \in selected : \A f \in findings[t] : ~Offending(f)
    BY DEF ZeroMeansClean, NothingToExport
  <2> USE DEF IInv
  <2>1. phase = "returned" /\ policy = EXIT_OK
    BY DEF ExitCodeByPlace, TypeOK, EXIT_OK, EXIT_USAGE
  <2>2. Failures(status) = {} /\ ~threshold_exceeded(AllFindings, options)
          /\ ~secrets_failed(AllFindings, options)
    BY <2>1, EvaluateRange DEF VerdictIsCurrent
  <2>3. \A t \in selected : status[t] # "failed" BY <2>2 DEF Failures
  <2>4. \A t \in selected : status[t] = progress[t]
    BY <2>1, <2>3 DEF VerdictIsCurrent, SyftFailedLate, TypeOK
  <2>5. \A t \in selected : progress[t] = "ok"
    BY <2>1, <2>3, <2>4 DEF VerdictIsCurrent, ScannersOK, TypeOK
  <2>6. Syft \in selected => options.outputs \cap SBOM_OUTPUTS = sboms \/ NothingToExport
    BY <2>1, <2>4, <2>5 DEF SbomsFollow
  <2>7. ASSUME NEW t \in selected, NEW f \in findings[t] PROVE ~Offending(f)
    <3>1. f \in AllFindings BY DEF AllFindings
    <3>2. options \in OptionSets /\ options.baseline # "missing"
      BY <2>1 DEF TypeOK, VerdictIsCurrent
    <3> QED BY <2>2, <3>1, <3>2, GateStopsOffending
  <2>8. options.baseline # "missing" BY <2>1 DEF VerdictIsCurrent
  <2> QED BY <2>5, <2>6, <2>7, <2>8
<1> QED BY <1>1, InvariantHolds, PTL

\* A failed scanner, or SBOM conversion, always ends in exit code 2, and never
\* without the reports.
THEOREM FailuresAlwaysReach == ASSUME RunAssumption PROVE Spec => []FailuresReachTheExitCode
<1>1. IInv => FailuresReachTheExitCode
  BY EvaluateRange DEF IInv, FailuresReachTheExitCode, VerdictIsCurrent, ReportsFollow,
     ExitCodeByPlace
<1> QED BY <1>1, InvariantHolds, PTL

\* No report promises an exit code the process does not have, unless syft failed
\* after it was written.
THEOREM ReportsAlwaysForetell == ASSUME RunAssumption PROVE Spec => []ReportsForetellTheExitCode
<1>1. IInv => ReportsForetellTheExitCode
  <2> SUFFICES ASSUME IInv, NEW f \in REPORT_OUTPUTS, phase = "returned", reports[f] # -1
               PROVE  exitCode = reports[f] \/ (exitCode = EXIT_SCANNER /\ SyftFailedLate)
    BY DEF ReportsForetellTheExitCode, SyftFailedLate
  <2>1. exitCode = policy /\ (reports[f] = policy \/ SyftFailedLate)
    BY DEF IInv, ExitCodeByPlace, ReportsFollow
  <2>2. SyftFailedLate => Syft \in selected /\ Failures(status) # {}
    BY DEF IInv, ScannersOK, TypeOK, SyftFailedLate, Failures
  <2> QED BY <2>1, <2>2, EvaluateRange DEF IInv, VerdictIsCurrent
<1> QED BY <1>1, InvariantHolds, PTL
===============================================================================
