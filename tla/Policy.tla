------------------------------- MODULE Policy --------------------------------
(***************************************************************************)
(* The policy gate (policy.py) and the severity order it uses (model.py),  *)
(* as operators on the findings of a run.                                  *)
(***************************************************************************)
EXTENDS Integers

Severities == {"critical", "high", "medium", "low", "info", "unknown"}

\* Position in SEVERITY_ORDER, most severe first.
SEVERITY_RANK ==
  [s \in Severities |-> CASE s = "critical" -> 0 [] s = "high" -> 1 [] s = "medium" -> 2
                          [] s = "low" -> 3 [] s = "info" -> 4 [] s = "unknown" -> 5]

\* The fields of model.Finding that the gate reads; `known` is its
\* baseline_status, meaningful when the run has a baseline.
Findings ==
  [category : {"secret", "code"}, severity : Severities, verified : BOOLEAN,
   waived : BOOLEAN, known : BOOLEAN]

\* Mutant of severity_at_or_above: the threshold itself does not qualify.
Mutant_severity_at_or_above(severity, threshold) ==
  severity # "unknown" /\ SEVERITY_RANK[severity] < SEVERITY_RANK[threshold]

severity_at_or_above(severity, threshold) ==
  severity # "unknown" /\ SEVERITY_RANK[severity] <= SEVERITY_RANK[threshold]

OnlyNew(o) == o.fail_on = "new" /\ o.baseline # "unset"

\* The findings the gate looks at: active, and new if only new ones count.
Gated(fs, o) == {f \in fs : ~f.waived /\ ~(OnlyNew(o) /\ f.known)}

threshold_exceeded(fs, o) ==
  o.threshold # "none" /\
  \E f \in Gated(fs, o) :
     f.category # "secret" /\ severity_at_or_above(f.severity, o.threshold)

secrets_failed(fs, o) ==
  o.secrets # "off" /\
  \E f \in Gated(fs, o) : f.category = "secret" /\ (o.secrets = "verified" => f.verified)

EXIT_OK == 0
EXIT_POLICY == 1
EXIT_SCANNER == 2
EXIT_USAGE == 3

\* `fs` are the findings of all results, `failures` the tools whose result is
\* "failed": a failed scanner outranks the verdict on what the others found.
evaluate(fs, failures, o) ==
  IF failures # {} THEN EXIT_SCANNER
  ELSE IF threshold_exceeded(fs, o) \/ secrets_failed(fs, o) THEN EXIT_POLICY
  ELSE EXIT_OK
===============================================================================
