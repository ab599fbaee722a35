------------------------------- MODULE ScanRun -------------------------------
(***************************************************************************)
(* One `dsoinabox scan`, from the launch of the scanners to the process's  *)
(* exit code (run.run_scan and the end of cli.scan_main).  The scanners    *)
(* follow ScanPlan, which module ScanScheduler shows `_schedule` to        *)
(* implement; behind them the main thread classifies against the baseline, *)
(* evaluates the gate, writes the reports, exports the SBOMs, removes      *)
(* tools_output and moves `latest`.  A step of that tail may raise, and    *)
(* another run may remove tools_output under it: two runs started within   *)
(* one second share their directory.                                       *)
(***************************************************************************)
EXTENDS Policy

CONSTANTS Tools, DependsOn, Syft,
          Reportable,   \* Reportable[t]: the sets of findings t may return
          OptionSets    \* the option records explored

REPORT_OUTPUTS == {"html", "jenkins_html", "json", "ndjson", "sarif"}
SBOM_OUTPUTS == {"cyclonedx", "spdx"}

Options ==
  [threshold : (Severities \ {"unknown"}) \cup {"none"}, secrets : {"off", "any", "verified"},
   fail_on : {"all", "new"}, baseline : {"unset", "present", "missing"},
   outputs : SUBSET (REPORT_OUTPUTS \cup SBOM_OUTPUTS), keep : BOOLEAN]

ASSUME RunAssumption ==
  /\ DependsOn \in [Tools -> SUBSET Tools]
  /\ Syft \in Tools
  /\ Reportable \in [Tools -> SUBSET (SUBSET Findings)]
  /\ \A t \in Tools : {} \in Reportable[t]
  /\ OptionSets \subseteq Options

VARIABLES
  selected, failFast, progress,  \* the scanners, as in ScanPlan
  options,     \* ScanOptions
  phase,       \* where run_scan is
  findings,    \* findings[t]: ScanResult.findings
  status,      \* status[t]: ScanResult.status, once _schedule has returned
  policy,      \* run.policy.exit_code; -1 before the first evaluate
  todo,        \* outputs of the current loop still to be written
  reports,     \* reports[f]: the exit code recorded in report f, -1 if unwritten
  sboms,       \* SBOM exports written
  timedOut,    \* tools of which a command ran into its timeout
  toolsOutput, \* the run's tools_output: "there", "removed" by this run, or "lost"
               \* to another one
  latest,      \* `latest` points at this run
  exitCode     \* of the process, -1 while it runs

planVars == <<selected, failFast, progress>>
tailVars == <<status, policy, todo, reports, sboms, toolsOutput, latest, exitCode>>
vars == <<planVars, options, phase, findings, timedOut, tailVars>>

Plan == INSTANCE ScanPlan

AllFindings == UNION {findings[t] : t \in selected}
Failures(st) == {t \in selected : st[t] = "failed"}

Init ==
  /\ Plan!Init
  /\ options \in OptionSets
  /\ phase = "scan"
  /\ findings = [t \in Tools |-> {}]
  /\ status = progress
  /\ policy = -1
  /\ todo = {}
  /\ reports = [f \in REPORT_OUTPUTS |-> -1]
  /\ sboms = {}
  /\ timedOut = {}
  /\ toolsOutput = "there"
  /\ latest = FALSE
  /\ exitCode = -1

-------------------------------------------------------------------------------
(* The scanners *)

\* `_run_one`: findings come with an "ok" result, and with a "failed" one when
\* an exception hits after they were normalized.  A timeout is a failure.
Answer(t) ==
  /\ phase = "scan"
  /\ Plan!Answer(t)
  /\ \E fs \in Reportable[t] : findings' = [findings EXCEPT ![t] = fs]
  /\ timedOut' \in {timedOut} \cup
       (IF progress'[t] = "failed" THEN {timedOut \cup {t}} ELSE {})
  /\ UNCHANGED <<options, phase, tailVars>>

LaunchOrSkip ==
  /\ phase = "scan"
  /\ Plan!Skip \/ \E t \in Tools : Plan!Launch(t)
  /\ UNCHANGED <<options, phase, findings, timedOut, tailVars>>

-------------------------------------------------------------------------------
(* The rest of run_scan *)

\* How the process ends: `return`, UsageError, or an exception nobody catches.
End(how, code) == phase' = how /\ exitCode' = code
Ends == {"returned", "usage", "raised"}

\* A missing or invalid baseline file is found only now: a usage error.
BaselineUnusable ==
  /\ phase = "scan" /\ Plan!Done
  /\ options.baseline = "missing"
  /\ End("usage", EXIT_USAGE)
  /\ UNCHANGED <<planVars, options, findings, timedOut, status, policy, todo, reports, sboms,
                 toolsOutput, latest>>

Evaluate ==
  /\ phase = "scan" /\ Plan!Done
  /\ options.baseline # "missing"
  /\ status' = progress
  /\ policy' = evaluate(AllFindings, Failures(progress), options)
  /\ todo' = options.outputs \cap REPORT_OUTPUTS
  /\ phase' = "report"
  /\ UNCHANGED <<planVars, options, findings, timedOut, reports, sboms, toolsOutput, latest,
                 exitCode>>

\* Mutant of WriteReport: the format is not taken off the list.
Mutant_WriteReport(f) ==
  /\ phase = "report"
  /\ f \in todo
  /\ reports' = [reports EXCEPT ![f] = policy]
  /\ UNCHANGED <<planVars, options, phase, findings, timedOut, status, policy, todo, sboms,
                 toolsOutput, latest, exitCode>>

\* report_builder: the report carries the policy as it is when it is written.
WriteReport(f) ==
  /\ phase = "report"
  /\ f \in todo
  /\ reports' = [reports EXCEPT ![f] = policy]
  /\ todo' = todo \ {f}
  /\ UNCHANGED <<planVars, options, phase, findings, timedOut, status, policy, sboms,
                 toolsOutput, latest, exitCode>>

\* Mutant of ReportsWritten: both SBOM formats are exported, asked for or not.
Mutant_ReportsWritten ==
  /\ phase = "report"
  /\ todo = {}
  /\ todo' = IF status[Syft] = "ok" /\ toolsOutput = "there" THEN SBOM_OUTPUTS ELSE {}
  /\ phase' = "sbom"
  /\ UNCHANGED <<planVars, options, findings, timedOut, status, policy, reports, sboms,
                 toolsOutput, latest, exitCode>>

\* _export_sboms only warns without a successful syft, and also when syft.json
\* is gone: then nothing is exported and no failure is recorded.
ReportsWritten ==
  /\ phase = "report"
  /\ todo = {}
  /\ todo' = IF status[Syft] = "ok" /\ toolsOutput = "there"
             THEN options.outputs \cap SBOM_OUTPUTS ELSE {}
  /\ phase' = "sbom"
  /\ UNCHANGED <<planVars, options, findings, timedOut, status, policy, reports, sboms,
                 toolsOutput, latest, exitCode>>

\* `syft convert` reads tools_output/syft.json.
ExportSbom(f) ==
  /\ phase = "sbom"
  /\ f \in todo
  /\ toolsOutput = "there"
  /\ sboms' = sboms \cup {f}
  /\ todo' = todo \ {f}
  /\ UNCHANGED <<planVars, options, phase, findings, timedOut, status, policy, reports,
                 toolsOutput, latest, exitCode>>

\* Mutant of ExportFails: the gate is not evaluated again.
Mutant_ExportFails(f) ==
  /\ phase = "sbom"
  /\ f \in todo
  /\ status' = [status EXCEPT ![Syft] = "failed"]
  /\ todo' = todo \ {f}
  /\ UNCHANGED <<planVars, options, phase, findings, timedOut, policy, reports, sboms,
                 toolsOutput, latest, exitCode>>

\* `syft convert` exited non-zero (as it must once syft.json is lost) or wrote
\* nothing: syft is failed after the fact, the gate is evaluated again and the
\* loop goes on.
ExportFails(f) ==
  /\ phase = "sbom"
  /\ f \in todo
  /\ status' = [status EXCEPT ![Syft] = "failed"]
  /\ policy' = evaluate(AllFindings, Failures(status'), options)
  /\ todo' = todo \ {f}
  /\ UNCHANGED <<planVars, options, phase, findings, timedOut, reports, sboms, toolsOutput,
                 latest, exitCode>>

Cleanup ==
  /\ phase = "sbom"
  /\ todo = {}
  /\ toolsOutput' = IF options.keep \/ toolsOutput = "lost" THEN toolsOutput ELSE "removed"
  /\ phase' = "latest"
  /\ UNCHANGED <<planVars, options, findings, timedOut, status, policy, todo, reports, sboms,
                 latest, exitCode>>

\* Every OSError of _update_latest_pointer becomes a warning.
UpdateLatest ==
  /\ phase = "latest"
  /\ latest' \in BOOLEAN
  /\ phase' = "return"
  /\ UNCHANGED <<planVars, options, findings, timedOut, status, policy, todo, reports, sboms,
                 toolsOutput, exitCode>>

\* Mutant of Return: every unsuccessful run exits with 1.
Mutant_Return ==
  /\ phase = "return"
  /\ End("returned", IF policy = EXIT_OK THEN EXIT_OK ELSE EXIT_POLICY)
  /\ UNCHANGED <<planVars, options, findings, timedOut, status, policy, todo, reports, sboms,
                 toolsOutput, latest>>

\* scan_main prints the summary and returns run.policy.exit_code.
Return ==
  /\ phase = "return"
  /\ End("returned", policy)
  /\ UNCHANGED <<planVars, options, findings, timedOut, status, policy, todo, reports, sboms,
                 toolsOutput, latest>>

\* An exception nobody catches behind the scanners (an unreadable baseline, a
\* full disk under a report, an unremovable tools_output, a failed copy to the
\* Docker mount): Python exits with 1.
Raise ==
  /\ phase \in {"report", "sbom", "return"} \/ (phase = "scan" /\ Plan!Done)
  /\ End("raised", 1)
  /\ UNCHANGED <<planVars, options, findings, timedOut, status, policy, todo, reports, sboms,
                 toolsOutput, latest>>

\* _export_sboms passes the scanner timeout to `syft convert` but catches only
\* ScannerError, so TimeoutExpired is one of those exceptions.
ExportTimesOut(f) ==
  /\ phase = "sbom"
  /\ f \in todo
  /\ timedOut' = timedOut \cup {Syft}
  /\ End("raised", 1)
  /\ UNCHANGED <<planVars, options, findings, status, policy, todo, reports, sboms,
                 toolsOutput, latest>>

\* The environment: the first of two runs in one directory to end removes
\* tools_output under the other.  A loss while the scanners run shows as a
\* failed scanner, or as one of this step; later nobody reads the directory.
OtherRunCleansUp ==
  /\ phase \in {"report", "sbom"}
  /\ toolsOutput = "there"
  /\ toolsOutput' = "lost"
  /\ UNCHANGED <<planVars, options, phase, findings, timedOut, status, policy, todo, reports,
                 sboms, latest, exitCode>>

Conclude ==
  \/ BaselineUnusable \/ Evaluate \/ ReportsWritten \/ Cleanup \/ UpdateLatest \/ Return
  \/ \E f \in REPORT_OUTPUTS : WriteReport(f)
  \/ \E f \in SBOM_OUTPUTS : ExportSbom(f) \/ ExportFails(f) \/ ExportTimesOut(f)

Exited == phase \in Ends /\ UNCHANGED vars

Next ==
  \/ LaunchOrSkip \/ (\E t \in Tools : Answer(t)) \/ Conclude
  \/ Raise \/ OtherRunCleansUp \/ Exited

\* _schedule makes progress (ScanScheduler), and the main thread runs on;
\* every external command of the tail has a timeout.
Fairness == WF_vars(LaunchOrSkip \/ \E t \in Tools : Answer(t)) /\ WF_vars(Conclude)

Spec == Init /\ [][Next]_vars /\ Fairness

-------------------------------------------------------------------------------
(* Properties *)

Phases == {"scan", "report", "sbom", "latest", "return"} \cup Ends

\* Types of the run's state.
TypeOK ==
  /\ selected \in SUBSET Tools
  /\ options \in OptionSets
  /\ phase \in Phases
  /\ findings \in [Tools -> SUBSET Findings]
  /\ DOMAIN status = Tools
  /\ policy \in -1..2
  /\ todo \subseteq options.outputs
  /\ reports \in [REPORT_OUTPUTS -> -1..2]
  /\ sboms \subseteq options.outputs \cap SBOM_OUTPUTS
  /\ timedOut \subseteq selected
  /\ toolsOutput \in {"there", "removed", "lost"} /\ latest \in BOOLEAN
  /\ exitCode \in -1..3

\* What must not go unnoticed: an active secret that the chosen mode counts, or
\* an active finding of known severity at or above the threshold, unless the
\* baseline excuses it.
Offending(f) ==
  /\ ~f.waived
  /\ ~(options.fail_on = "new" /\ options.baseline = "present" /\ f.known)
  /\ IF f.category = "secret"
     THEN options.secrets = "any" \/ (options.secrets = "verified" /\ f.verified)
     ELSE /\ options.threshold # "none"
          /\ \E i, j \in 1..5 :
               /\ i <= j
               /\ f.severity = <<"critical", "high", "medium", "low", "info">>[i]
               /\ options.threshold = <<"critical", "high", "medium", "low", "info">>[j]

\* docs/cli/README.md, exit code 0: the scans completed and the policy passed.
\* Every selected scanner ended well, nothing was skipped, the baseline asked for
\* was usable, and nothing offending was found.  The SBOMs asked for are all there,
\* or none is and another run took syft.json away before the export began (the
\* code then only warns); never some of them.
ZeroMeansClean ==
  exitCode = EXIT_OK =>
    /\ \A t \in selected : progress[t] = "ok"
    /\ options.baseline # "missing"
    /\ Syft \in selected =>
         \/ options.outputs \cap SBOM_OUTPUTS = sboms
         \/ toolsOutput = "lost" /\ sboms = {}
    /\ \A t \in selected : \A f \in findings[t] : ~Offending(f)

\* A scanner failure is never lost: whatever else was found, a run that returns
\* has exit code 2 exactly when a scanner or an SBOM conversion failed, and all
\* the reports asked for were written first.
FailuresReachTheExitCode ==
  phase = "returned" =>
    /\ exitCode = EXIT_SCANNER <=> Failures(status) # {}
    /\ \A f \in options.outputs \cap REPORT_OUTPUTS : reports[f] # -1

\* The exit code a report records is the process's, unless an SBOM conversion
\* failed after the report was written, which only ever raises it to 2.
ReportsForetellTheExitCode ==
  \A f \in REPORT_OUTPUTS :
    phase = "returned" /\ reports[f] # -1 =>
      \/ exitCode = reports[f]
      \/ exitCode = EXIT_SCANNER /\ progress[Syft] = "ok" /\ status[Syft] = "failed"

\* The run ends, whatever fails.
RunEnds == <>(phase \in Ends)

\* docs/cli/README.md: "A timeout is a scanner failure", exit code 2 "one or more
\* scanners failed or timed out".  A step in which a command runs into its
\* timeout does not end the process with any other code.
TimeoutIsScannerFailure ==
  [][timedOut' # timedOut /\ exitCode' # -1 => exitCode' = EXIT_SCANNER]_vars
===============================================================================
