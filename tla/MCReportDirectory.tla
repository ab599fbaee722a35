-------------------------- MODULE MCReportDirectory ---------------------------
(***************************************************************************)
(* TLC instance of ReportDirectory: two runs, in one second or in two.     *)
(***************************************************************************)
EXTENDS ReportDirectory

MCRuns == {"r1", "r2"}
MCAllMounts == {"none", "separate", "base"}
MCNoMount == {"none"}
MCMountIsBase == {"base"}
===============================================================================
