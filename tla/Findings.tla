------------------------------- MODULE Findings -------------------------------
(***************************************************************************)
(* A finding's way through a run: what a scanner reports about the source, *)
(* its fingerprints, its repo-relative path, and the waiver that a         *)
(* fingerprint of an earlier run became (run._run_one, normalize/*.py,     *)
(* run.py).                                                                *)
(*                                                                         *)
(* Between runs the source is edited and committed, and the repository is  *)
(* checked out on another machine: elsewhere, under another remote URL or  *)
(* line end, with the rules mounted elsewhere or another vulnerability     *)
(* database.  The source may also be edited while a run is on: scanners    *)
(* report first, and the fingerprints read the files afterwards.           *)
(***************************************************************************)
EXTENDS Fingerprints, OpengrepRuleIds

CONSTANTS Trees,     \* the states the source may start in
          NewNames,  \* the names a file may be given
          Machines,  \* the machines a run may happen on
          MaxEdits, MaxCommits

W == INSTANCE Waivers
P == INSTANCE ProjectId

\* A line is nothing special, one of two secrets, the first of them with separators,
\* something a detector reports without its value, bad code of two kinds, or one
\* of two vulnerable packages.
Secrets == {"key", "k-e-y", "pin", "?"}
Code == {"bad", "worse"}
Packages == {"pkg", "lib"}
Tokens == {"-"} \cup Secrets \cup Code \cup Packages

\* A name of a file is relative, a source has finitely many files.
IsName(name) == name \in Seq(STRING) \ {<<>>, <<".">>} /\ name[1] # "/"
IsSource(files) ==
  /\ files \in [DOMAIN files -> Seq(Tokens)]
  /\ IsFiniteSet(DOMAIN files) /\ \A name \in DOMAIN files : IsName(name)
ASSUME TreeAssumption == (\A files \in Trees : IsSource(files)) /\ \A name \in NewNames : IsName(name)

\* Paths and ids are sequences of names, with a slash only at the start; all machines have
\* the one repository, under at most one remote each.
IsPath(path) == path \in Seq(STRING) \ {<<>>} /\ \A i \in 2..Len(path) : path[i] # "/"
ASSUME MachineAssumption ==
  \A m \in Machines :
    /\ IsPath(m.cwd) /\ IsAbsolute(m.cwd) /\ IsPath(m.source) /\ m.mount \in Seq(STRING)
    /\ m.eol \in Nat
    /\ IsFiniteSet(m.rules)
    /\ \A r \in m.rules : r.dir \in Seq(STRING) /\ r.id \in Seq(STRING) \ {<<>>}
    /\ \A r, s \in m.repo.remote : r = s
    /\ \A n \in Machines : \A r \in m.repo.remote, s \in n.repo.remote :
         r.host.name = s.host.name /\ r.path = s.path

VARIABLES
  machine,  \* where the next run happens
  tree,     \* the working tree
  commits,  \* the history, oldest first; the last commit is checked out
  edits,    \* how often the tree has been edited
  raw,      \* the raw findings of the run that is on
  scanned,  \* whether the scanners of a run have reported
  report,   \* the machine, the waiver and the findings of the last run
  waivers   \* the waiver file: no entry or one, with what it was written for

vars == <<machine, tree, commits, edits, raw, scanned, report, waivers>>

-------------------------------------------------------------------------------
(* The scanners *)

Raw(tool, rule, path, line, match, commit, severity, fix, of) ==
  [tool |-> tool, check_id |-> rule, original_check_id |-> <<>>, path |-> path, line |-> line,
   match |-> match, commit |-> commit, severity |-> severity, fix |-> fix, of |-> of]

\* What a finding is about, which no fingerprint says: the local rule, the file
\* and its text when it was scanned.
Of(rule, file, text) == [rule |-> rule, file |-> file, text |-> text]

Lines(files, tokens) ==
  {fi \in UNION {{f} \X DOMAIN files[f] : f \in DOMAIN files} : files[fi[1]][fi[2]] \in tokens}

\* The value in the payload; a detector may leave it empty.
Candidate(token) == IF token = "?" THEN NoText ELSE token

\* git mode reports the lines each commit adds, filesystem mode those there are.
Added(c, fi) ==
  c = 1 \/ fi[1] \notin DOMAIN commits[c - 1] \/ commits[c][fi[1]][fi[2]] \notin Range(commits[c - 1][fi[1]])
run_trufflehog(m) ==
  IF m.repo.git
  THEN UNION {{Raw("trufflehog", <<"detector">>, fi[1], fi[2], Candidate(commits[c][fi[1]][fi[2]]), c,
                   NoText, NoText, Of({}, fi[1], commits[c][fi[1]])) :
                 fi \in {l \in Lines(commits[c], Secrets) : Added(c, l)}} : c \in DOMAIN commits}
  ELSE {Raw("trufflehog", <<"detector">>, Spelled(m, fi[1]), fi[2], Candidate(tree[fi[1]][fi[2]]), 0,
            NoText, NoText, Of({}, fi[1], tree[fi[1]])) : fi \in Lines(tree, Secrets)}

\* Local rules report under the place they are mounted at, then get their bare id.
Reported(m, q, fi) ==
  strip_rule_id_prefixes(
    Raw("opengrep", CheckId(m.mount, q), Spelled(m, fi[1]), fi[2], tree[fi[1]][fi[2]], 0,
        NoText, NoText, Of({q}, fi[1], tree[fi[1]])), m.rules)
run_opengrep(m) == UNION {{Reported(m, q, fi) : fi \in Lines(tree, Code)} : q \in m.rules}

\* Locations are rooted at the source; severity and fix come from the database.
run_grype(m) ==
  {Raw("grype", <<"CVE">>, <<"/">> \o fi[1], 0, tree[fi[1]][fi[2]], 0, m.db.severity, m.db.fix,
       Of({}, fi[1], tree[fi[1]])) : fi \in Lines(tree, Packages)}

\* The SARIF of an absolute source has no leading slash.
run_checkov(m) ==
  {Raw("checkov", <<"CKV">>, unrooted(Spelled(m, fi[1])), fi[2], tree[fi[1]][fi[2]], 0,
       NoText, NoText, Of({}, fi[1], tree[fi[1]])) : fi \in Lines(tree, {"bad"})}

-------------------------------------------------------------------------------
(* One run *)

ProjectOf(m) == P!derive_project_id(m.repo, m.project_id)
KeyOf(m) == P!resolve_project_key(ProjectOf(m), m.key)

\* fingerprint_findings of the tool, on the files as they are now.
fingerprints(m, r) ==
  CASE r.tool = "trufflehog" -> trufflehog_fingerprints(m, tree, commits, ProjectOf(m), KeyOf(m), r)
    [] r.tool = "opengrep" -> opengrep_fingerprints(m, tree, ProjectOf(m), KeyOf(m), r, 2)
    [] r.tool = "grype" -> grype_fingerprints(m, ProjectOf(m), KeyOf(m), r)
    [] r.tool = "checkov" -> checkov_fingerprints(m, ProjectOf(m), KeyOf(m), r)

legacy_fingerprints(m, r) ==
  UNION {opengrep_fingerprints(m, tree, ProjectOf(m), KeyOf(m), r, v) : v \in EMIT_LEGACY_VERSIONS[r.tool]}

\* The text they read, if any: only the EXACT of secrets and of code covers it.
read_text(m, r) ==
  CASE r.tool = "trufflehog" -> read_file_bytes_generic(m, tree, commits, r)
    [] r.tool = "opengrep" -> {tree[f] : f \in FileAt(m, tree, Join(m.source, r.path))}
    [] OTHER -> {}

\* The tool's normalize and attach_common.
attach_common(m, r) ==
  [tool |-> r.tool, rule_id |-> r.check_id, line |-> r.line,
   fingerprints |-> fingerprints(m, r), legacy |-> legacy_fingerprints(m, r),
   paths |-> {relativize_path(m, tree, r.path)}, waived |-> FALSE, match |-> r.match, of |-> r.of,
   read |-> read_text(m, r)]

\* The waiver file as the engine gets it.
WaiverSet ==
  [W!EmptyDocument EXCEPT !.version = "1.1",
     !.finding_waivers = SetToSeq({[key |-> w.fingerprint, expires |-> W!NoDate, tools |-> {}] : w \in waivers})]

apply_waivers_to_model(f) == [f EXCEPT !.waived = W!Waived(WaiverSet, f, 0, 0)]

\* run.fingerprint_aliases: each legacy fingerprint and the current one of its tier.
fingerprint_aliases(findings) ==
  UNION {{p \in f.legacy \X f.fingerprints : parse_fingerprint(p[1]).tier = parse_fingerprint(p[2]).tier} :
           f \in findings}

-------------------------------------------------------------------------------
\* A report is only looked at until the source or the machine changes.
NoReport(m) == [machine |-> m, waivers |-> {}, findings |-> {}, files |-> {}]

Init ==
  /\ machine \in Machines
  /\ tree \in Trees
  /\ commits = <<tree>>
  /\ edits = 0
  /\ raw = {} /\ scanned = FALSE
  /\ report = NoReport(machine)
  /\ waivers = {}

\* The scanners report.  Each tool's job reads the source on its own; they are
\* one step here because the files they read do not depend on each other.
Scan ==
  /\ ~scanned
  /\ ProjectOf(machine) # P!NoProject
  /\ raw' = run_trufflehog(machine) \cup run_opengrep(machine) \cup run_grype(machine) \cup run_checkov(machine)
  /\ scanned' = TRUE
  /\ report' = NoReport(machine)
  /\ UNCHANGED <<machine, tree, commits, edits, waivers>>

\* Fingerprints, normalised findings, waivers.
Fingerprint ==
  /\ scanned
  /\ report' = [machine |-> machine, waivers |-> waivers, files |-> DOMAIN tree,
                findings |-> {apply_waivers_to_model(attach_common(machine, r)) : r \in raw}]
  /\ scanned' = FALSE
  /\ raw' = {}
  /\ UNCHANGED <<machine, tree, commits, edits, waivers>>

\* An entry is added to the waiver file for a fingerprint of the last report.
Waive(f, fingerprint) ==
  /\ ~scanned
  /\ waivers = {}
  /\ waivers' = {[fingerprint |-> fingerprint, machine |-> report.machine,
                 for |-> [tool |-> f.tool, line |-> f.line, match |-> f.match, of |-> f.of, read |-> f.read]]}
  /\ UNCHANGED <<machine, tree, commits, edits, raw, scanned, report>>

\* The ways the source changes: a line more at the top or the end of a file, a
\* file gone, a file renamed.
Renamed(f, g) == [h \in (DOMAIN tree \ {f}) \cup {g} |-> IF h = g THEN tree[f] ELSE tree[h]]
Changed(f) ==
  {[tree EXCEPT ![f] = <<"-">> \o @], [tree EXCEPT ![f] = @ \o <<"-">>],
   Restrict(tree, DOMAIN tree \ {f})} \cup
  {Renamed(f, g) : g \in NewNames \ DOMAIN tree}
Edit(f) ==
  /\ edits < MaxEdits
  /\ tree' \in Changed(f)
  /\ edits' = edits + 1
  /\ report' = NoReport(machine)
  /\ UNCHANGED <<machine, commits, raw, scanned, waivers>>

Commit ==
  /\ machine.repo.git
  /\ Len(commits) < MaxCommits
  /\ tree # Last(commits)
  /\ commits' = Append(commits, tree)
  /\ report' = NoReport(machine)
  /\ UNCHANGED <<machine, tree, edits, raw, scanned, waivers>>

\* The next run happens on another machine.
Move(m) ==
  /\ ~scanned
  /\ machine' = m
  /\ report' = NoReport(m)
  /\ UNCHANGED <<tree, commits, edits, raw, scanned, waivers>>

Next ==
  \/ Scan
  \/ Fingerprint
  \/ \E f \in report.findings : \E fp \in f.fingerprints \cup f.legacy : Waive(f, fp)
  \/ \E f \in DOMAIN tree : Edit(f)
  \/ Commit
  \/ \E m \in Machines \ {machine} : Move(m)

Spec == Init /\ [][Next]_vars

-------------------------------------------------------------------------------
(* Properties *)

\* Both findings are about the same thing: the same secret, the same code
\* under the same rule, the same package, the same check in the same file.
SameCause(f, g) ==
  /\ f.tool = g.tool /\ f.of.rule = g.of.rule
  /\ normalize_secret(f.match) = normalize_secret(g.match)
  /\ f.tool = "checkov" => f.of.file = g.of.file

\* The same project for who reads the documentation: one override, or one
\* repository under any URL that is taken apart, and one key.
Readable(m) == m.repo.git /\ \E r \in m.repo.remote : r.form # "ssh"
SameProject(m, n) ==
  /\ m.key = n.key /\ m.project_id = n.project_id
  /\ m.project_id # P!NoText \/ m.repo = n.repo \/ (Readable(m) /\ Readable(n))

\* The id of a rule reads the same on both machines: no other rule has the id
\* or an id that ends the reported one, or the rules are the same ones.
Overlap(m, q, r) == q.id # r.id /\ IsSuffix(q.id, CheckId(m.mount, r))
NoOverlap(m) == \A q, r \in m.rules : ~Overlap(m, q, r)
Bare(m, r) == \A q \in m.rules \ {r} : q.id # r.id /\ ~Overlap(m, q, r)
SameRules(m, n) == m.mount = n.mount /\ m.rules = n.rules
RuleIdStays(r, m, n) == SameRules(m, n) \/ (Bare(m, r) /\ Bare(n, r))

\* Two rules that OpenGrep tells apart.
Apart(m, q, r) == CheckId(m.mount, q) # CheckId(m.mount, r)

\* A waiver for the fingerprint the documentation recommends (of the secret,
\* the rule and its code, the package, the check and its file) keeps waiving
\* what it was written for: on every machine, after every edit, move and
\* commit, and even when files changed between the scan and the fingerprints.
\* Checkov's depends on how an absolute source is spelled.
FingerprintsFollow ==
  \A w \in report.waivers :
    LET fp == parse_fingerprint(w.fingerprint)
        m == w.machine
        n == report.machine
    IN fp.tier \in {"SECRET", "RULE", "PKG"} /\ fp.version = CURRENT_FP_VERSION[fp.tool] /\ SameProject(m, n) =>
       \A f \in report.findings :
         /\ SameCause(w.for, f)
         /\ \A r \in f.of.rule : RuleIdStays(r, m, n)
         /\ f.tool = "checkov" => ~IsAbsolute(m.source) /\ ~IsAbsolute(n.source)
         => f.waived

\* The same waiver waives nothing else, whatever is edited between the runs or between
\* scan and fingerprints: not another tool's finding, another secret (but for its
\* separators), other code, another package or another project; for checkov, where both
\* machines spell the source alike, not another file, but for leading dots.  Rules are
\* told apart where the rules are the same ones, and where each has its bare id.
SameSpelling(m, n) == m.source = n.source \/ (~IsAbsolute(m.source) /\ ~IsAbsolute(n.source))
SameFile(file, other) == undotted(Head(file)) = undotted(Head(other)) /\ Tail(file) = Tail(other)
RecommendedWaiverIsNarrow ==
  \A w \in report.waivers :
    LET fp == parse_fingerprint(w.fingerprint)
        m == w.machine
        n == report.machine
    IN fp.tier \in {"SECRET", "RULE", "PKG"} =>
       \A f \in report.findings : f.waived =>
         /\ f.tool = w.for.tool /\ ProjectOf(m) = ProjectOf(n) /\ KeyOf(m) = KeyOf(n)
         /\ f.tool # "checkov" => normalize_secret(f.match) = normalize_secret(w.for.match)
         /\ f.tool = "checkov" /\ SameSpelling(m, n) =>
              SameFile(f.of.file, w.for.of.file)
         /\ \A q \in f.of.rule, r \in w.for.of.rule :
              /\ SameRules(m, n) /\ NoOverlap(m) => ~Apart(m, q, r)
              /\ fp.version = CURRENT_FP_VERSION.opengrep /\ Bare(n, q) /\ Bare(m, r) => q.id = r.id

\* A waiver from before the bare rule ids (version 1) goes on waiving the same
\* code while the rules are mounted where they were, whatever other rules
\* come or go.
LegacyWaiverHolds ==
  \A w \in report.waivers :
    LET fp == parse_fingerprint(w.fingerprint)
    IN /\ fp.tool = "opengrep" /\ fp.version = 1 /\ fp.tier = "RULE"
       /\ SameProject(w.machine, report.machine) /\ w.machine.mount = report.machine.mount
       => \A f \in report.findings : SameCause(w.for, f) => f.waived

\* A waiver for one place (EXACT of a secret or of code) waives nothing in a
\* file with another text, no other line and no other rule, unless a file was
\* changed between the scan and the fingerprints, or could not be read.  The
\* line is that of the first occurrence for a secret, and bytes are counted
\* with the line ends of the checkout.
ReadAsScanned(f) == f.read = {f.of.text}
LocatedWaiverIsNarrow ==
  \A w \in report.waivers :
    /\ parse_fingerprint(w.fingerprint).tier = "EXACT" /\ ReadAsScanned(w.for)
    => \A f \in report.findings : f.waived /\ f.read \subseteq {f.of.text} =>
         LET m == w.machine
             n == report.machine
         IN /\ f.tool = w.for.tool
            /\ f.of.text = w.for.of.text
            /\ f.tool = "opengrep" /\ m.eol = n.eol => f.line = w.for.line
            /\ SameRules(m, n) /\ NoOverlap(m) =>
                 \A q \in f.of.rule, r \in w.for.of.rule : ~Apart(m, q, r)

\* Stripping the prefixes of rule ids merges no two rules that OpenGrep reports
\* apart (module comment of opengrep_rule_ids.py), unless the id of one is the end
\* of another's.
RulesStayApart ==
  NoOverlap(report.machine) =>
    \A f, g \in {h \in report.findings : h.tool = "opengrep"} :
      (\A q \in f.of.rule, r \in g.of.rule : Apart(report.machine, q, r)) =>
        f.rule_id # g.rule_id /\ f.fingerprints \cap g.fingerprints = {}

\* Replacing a legacy fingerprint in a waiver file by its alias loses no
\* finding: the alias is a fingerprint of every finding the old one matched.
AliasesKeepWaivers ==
  \A p \in fingerprint_aliases(report.findings) : \A f \in report.findings :
    p[1] \in f.legacy => p[2] \in f.fingerprints

\* A reported path has another reading: directories of the source are named like the last
\* ones of the way to it, the path leads to another file from the root of the machine, or
\* a location rooted at the source reads like an absolute path under it.
Misread(m, f, files) ==
  LET root == AbsPath(m, m.source)
  IN \/ \E i \in 2..Len(root) : SubSeq(root, i, Len(root)) \o f.of.file \in files
     \/ \E file \in files \ {f.of.file} : root \o file = <<"/">> \o Spelled(m, f.of.file)
     \/ f.tool = "grype" /\ Len(root) > 1 /\ IsPrefix(root, <<"/">> \o f.of.file)

\* A finding names its file relative to the source on every machine, as path exclusions
\* expect, if the file is still there and its path has no other reading; a relative source
\* of several names may stay in the path.
Nested(m) == ~IsAbsolute(m.source) /\ Len(m.source) > 1
PathsAreRelative ==
  \A f \in report.findings :
    LET m == report.machine
    IN f.of.file \in report.files /\ ~Misread(m, f, report.files) =>
         f.paths = {f.of.file} \/ (Nested(m) /\ f.paths = {m.source \o f.of.file})

\* An upgrade of the fingerprints costs no waiver, with or without a migration of
\* the waiver file.
LegacyWaiversSurvive == LegacyWaiverHolds /\ AliasesKeepWaivers
===============================================================================
