----------------------------- MODULE MCWaiverFile -----------------------------
(***************************************************************************)
(* TLC instance of WaiverFile.  Two opengrep findings share their RULE     *)
(* fingerprint (the same code in two files, r) and its version-1 form (l), *)
(* and each has an EXACT one of its own; grype reports a package.          *)
(***************************************************************************)
EXTENDS WaiverFile

Opengrep(exact, path) ==
  [tool |-> "opengrep", fingerprints |-> {"r", exact}, primary |-> "r", legacy |-> {"l"},
   paths |-> {path}]
Grype ==
  [tool |-> "grype", fingerprints |-> {"g"}, primary |-> "g", legacy |-> {}, paths |-> {"a", "b"}]

MCFindings == {Opengrep("x", "a"), Opengrep("y", "b"), Grype}

MCEntryChoices ==
  {[section |-> "finding_waivers"] @@ New("r", 1, {}),
   [section |-> "finding_waivers"] @@ New("g", NoDate, {"typo"}),
   [section |-> "finding_waivers"] @@ New("g", NoDate, {"sca"}),
   [section |-> "benchmark"] @@ New("r", NoDate, {})}

\* An old file, with a scope its schema does not know; a current one with an
\* expired path exclusion among others; no file.
MCInitialFiles ==
  {[EmptyDocument EXCEPT !.finding_waivers = <<New("l", NoDate, {"sca"}), New("x", 1, {})>>,
                         !.benchmark = <<New("g", NoDate, {})>>],
   [EmptyDocument EXCEPT !.version = "1.1",
                         !.finding_waivers = <<New("x", 1, {}), New("l", NoDate, {"opengrep"})>>,
                         !.benchmark = <<New("l", 2, {}), New("r", NoDate, {})>>,
                         !.path_exclusions = <<New({"a"}, 0, {}), New({"b"}, NoDate, {"sast"})>>],
   Missing}

MCFingerprints == {"r", "x", "y", "g", "l"}
MCPaths == {"a", "b"}
MCWords == Scopes \cup {"typo"}
MCExpiries == {NoDate, 1}
MCGraceOptions == {0, 1}
===============================================================================
