---------------------------- MODULE MCTrackedCopy -----------------------------
(***************************************************************************)
(* TLC instance of TrackedCopy: the scanner that may bypass the copy, the  *)
(* producer and the reader of the SBOM, and one that walks the copy.       *)
(***************************************************************************)
EXTENDS TrackedCopy

CONSTANTS trufflehog, opengrep, syft, grype

MCTools == {trufflehog, opengrep, syft, grype}
MCDependsOn == [t \in MCTools |-> IF t = grype THEN {syft} ELSE {}]
===============================================================================
