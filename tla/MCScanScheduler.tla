--------------------------- MODULE MCScanScheduler ----------------------------
(***************************************************************************)
(* TLC instance of ScanScheduler: the registry's five scanners and every   *)
(* selection of them.                                                      *)
(***************************************************************************)
EXTENDS ScanScheduler

CONSTANTS trufflehog, opengrep, syft, grype, checkov

MCTools == {trufflehog, opengrep, syft, grype, checkov}
MCOrder == <<trufflehog, opengrep, syft, grype, checkov>>
MCDependsOn == [t \in MCTools |-> IF t = grype THEN {syft} ELSE {}]
MCWorkerOptions == {1, 2, 5}
OneWorker == {1}
===============================================================================
