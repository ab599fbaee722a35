------------------------------ MODULE MCScanRun -------------------------------
(***************************************************************************)
(* TLC instance of ScanRun: a secret scanner, syft and grype, with results *)
(* that tell every clause of the gate apart.                               *)
(***************************************************************************)
EXTENDS ScanRun

CONSTANTS trufflehog, syft, grype

MCTools == {trufflehog, syft, grype}
MCDependsOn == [t \in MCTools |-> IF t = grype THEN {syft} ELSE {}]

Secret(verified, waived, known) ==
  [category |-> "secret", severity |-> "high", verified |-> verified,
   waived |-> waived, known |-> known]
Code(severity, waived, known) ==
  [category |-> "code", severity |-> severity, verified |-> FALSE,
   waived |-> waived, known |-> known]

MCReportable ==
  [t \in MCTools |->
     CASE t = trufflehog -> {{}, {Secret(FALSE, FALSE, FALSE)},
                             {Secret(TRUE, FALSE, TRUE), Secret(FALSE, TRUE, FALSE)}}
       [] t = grype -> {{}, {Code("unknown", FALSE, FALSE), Code("low", FALSE, FALSE)},
                        {Code("medium", FALSE, TRUE), Code("critical", TRUE, FALSE)},
                        {Code("high", FALSE, FALSE)}}
       [] t = syft -> {{}}]

MCOptions ==
  [threshold : {"none", "medium"}, secrets : {"off", "any", "verified"},
   fail_on : {"all", "new"}, baseline : {"unset", "present", "missing"},
   outputs : {{"json"}, {"json", "cyclonedx", "spdx"}}, keep : {FALSE}]
===============================================================================
