------------------------------ MODULE WaiverFile ------------------------------
(***************************************************************************)
(* The life of a waiver or benchmark file (waivers/migrate.py and the      *)
(* `waivers` and `baseline` commands): scans report what the file did,     *)
(* `waivers add`, `prune` and `migrate` and `baseline update` rewrite it,  *)
(* some of them from an earlier scan's JSON report, days go by, and a      *)
(* rewrite may be interrupted.  The commands are those with --in-place;    *)
(* --dry-run writes nothing and --output leaves the file alone.            *)
(***************************************************************************)
EXTENDS Waivers, SequencesExt

CONSTANTS
  Fingerprints,  \* texts of fingerprints, current and legacy
  Paths, Words,  \* of the project, and in scopes
  Findings,      \* what the scanners can report
  InitialFiles,  \* documents the project may start with, or Missing
  EntryChoices,  \* [section, key, expires, tools] of `waivers add`
  Expiries,      \* --expires of `baseline update`, NoDate if not given
  GraceOptions,  \* values of --waiver_grace_days
  Missing,       \* there is no such file
  NoReport,      \* there is no report yet
  MaxDay, MaxSteps, MaxCrashes   \* bounds of the exploration

\* Documents as the loader parses them, with keys in K, patterns in P and scopes of
\* words in T.
Entries(K, T) == Seq([key : K, expires : Int, tools : SUBSET T])
Documents(K, P, T) ==
  [version : Versions, finding_waivers : Entries(K, T), benchmark : Entries(K, T),
   path_exclusions : Entries(P, T), benchmark_expires_at : Int]

ASSUME TypeAssumption ==
  /\ IsFiniteSet(Findings)
  /\ Findings \subseteq [tool : Tools, fingerprints : SUBSET Fingerprints, primary : Fingerprints,
                         legacy : SUBSET Fingerprints, paths : SUBSET Paths]
  /\ InitialFiles \ {Missing} \subseteq Documents(Fingerprints, SUBSET Paths, Words)
  /\ Missing \notin Documents(Fingerprints, SUBSET Paths, Words)
  /\ EntryChoices \subseteq [section : {"finding_waivers", "benchmark"}, key : Fingerprints,
                             expires : Int, tools : SUBSET Words]
  /\ Expiries \subseteq Int
  /\ MaxDay \in Nat /\ MaxSteps \in Nat /\ MaxCrashes \in Nat

\* A finding's primary fingerprint is one of its own, and a legacy fingerprint
\* stands for one current fingerprint of the same tier; its text names its version,
\* so it is never a current one.
ASSUME FindingAssumption ==
  \A f \in Findings :
    /\ f.primary \in f.fingerprints
    /\ \A g \in Findings : f.legacy \cap g.legacy # {} => f.primary = g.primary
    /\ \A g \in Findings : f.legacy \cap g.fingerprints = {}

\* The project starts without a file, or with one the loader accepts.
ASSUME InitialAssumption == \A doc \in InitialFiles : doc # Missing => Loads(doc)

VARIABLES
  now,      \* today
  file,     \* the document, or Missing
  backup,   \* its .bak
  report,   \* the last JSON report: the findings seen, those waived, those
            \* known to the baseline, the unused refs; `fresh` is not in the
            \* report: neither the file nor the day has changed since
  steps, crashes   \* bounded by MaxSteps, MaxCrashes

vars == <<now, file, backup, report, steps, crashes>>

Init ==
  /\ now = 0
  /\ file \in InitialFiles
  /\ backup = Missing
  /\ report = NoReport
  /\ steps = 0
  /\ crashes = 0

Step == steps < MaxSteps /\ steps' = steps + 1

Aged(fresh) == IF report = NoReport THEN report ELSE [report EXCEPT !.fresh = @ /\ fresh]

-------------------------------------------------------------------------------
(* Time, scans and the files they leave *)

Tick ==
  /\ now < MaxDay
  /\ now' = now + 1
  /\ report' = Aged(FALSE)
  /\ UNCHANGED <<file, backup, steps, crashes>>

\* The source has the findings `fs`, or the selected tools find only these.
\* Waiver file and baseline are the same document here.
Scan(fs, grace) ==
  LET ws == to_waiver_set(file)
  IN /\ Step
     /\ report' = IF file = Missing
                  THEN [seen |-> fs, waived |-> {}, known |-> {}, unused |-> {}, fresh |-> TRUE]
                  ELSE [seen |-> fs, waived |-> {f \in fs : Waived(ws, f, now, grace)},
                        known |-> {f \in fs : Known(ws, f)}, unused |-> unused_refs(ws, fs),
                        fresh |-> TRUE]
     /\ UNCHANGED <<now, file, backup, crashes>>

New(key, expires, tools) == [key |-> key, expires |-> expires, tools |-> tools]

\* --benchmark: one entry per active finding, equal fingerprints included.
generate_benchmark_yaml(active) ==
  LET order == SetToSeq(active)
  IN [EmptyDocument EXCEPT !.version = "1.1",
        !.benchmark = [i \in DOMAIN order |-> New(order[i].primary, NoDate, {})]]

\* The user commits the generated benchmark.yaml where there was no file.
AdoptBenchmark ==
  /\ Step
  /\ file = Missing /\ report # NoReport
  /\ file' = generate_benchmark_yaml(report.seen \ report.waived)
  /\ report' = Aged(FALSE)
  /\ UNCHANGED <<now, backup, crashes>>

-------------------------------------------------------------------------------
(* Writing *)

\* Mutant of Write: the backup is taken after the file has been opened.
Mutant_Write(new) ==
  IF new = file THEN UNCHANGED <<file, backup, report, crashes>>
  ELSE /\ \/ file' = new /\ backup' = (IF file = Missing THEN backup ELSE file) /\ UNCHANGED crashes
          \/ /\ crashes < MaxCrashes
             /\ crashes' = crashes + 1
             /\ file' \in {file, EmptyDocument}
             /\ backup' = backup
       /\ report' = Aged(file' = file)

\* _write_result: nothing if the text is the same; else the file is copied to
\* .bak, opened (which truncates it) and written.  A crash leaves the backup
\* made and the file either untouched or empty.
Write(new) ==
  IF new = file THEN UNCHANGED <<file, backup, report, crashes>>
  ELSE /\ \/ file' = new /\ UNCHANGED crashes
          \/ /\ crashes < MaxCrashes
             /\ crashes' = crashes + 1
             /\ file' \in {file, EmptyDocument}
       /\ backup' = IF file = Missing THEN backup ELSE file
       /\ report' = Aged(file' = file)

\* Mutant of Command: the result is not loaded before it is written.
Mutant_Command(new) == Step /\ UNCHANGED now /\ Write(new)

\* Every command validates its result with the regular loader before writing.
Command(new) ==
  /\ Step
  /\ UNCHANGED now
  /\ IF Loads(new) THEN Write(new) ELSE UNCHANGED <<file, backup, report, crashes>>

\* What a command starts from when there is no file.
Original == IF file = Missing THEN [EmptyDocument EXCEPT !.version = "1.1"] ELSE file

Keys(entries) == {entries[i].key : i \in DOMAIN entries}

\* Mutant of Keep: an entry that is removed leaves a hole.
Mutant_KeepHoles(entries, kept) == [i \in kept |-> entries[i]]

\* The entries at the indexes `kept`, in order.
Keep(entries, kept) ==
  LET Place(i) == Cardinality({j \in kept : j <= i})
  IN [k \in 1..Cardinality(kept) |-> entries[CHOOSE i \in kept : Place(i) = k]]

-------------------------------------------------------------------------------
(* waivers add *)

\* Mutant of add_entry: a fingerprint in either section counts as present.
Mutant_add_entry(doc, c) ==
  IF c.key \in Keys(doc.finding_waivers) \cup Keys(doc.benchmark) THEN doc
  ELSE [doc EXCEPT ![c.section] = Append(@, New(c.key, c.expires,
                                    IF c.section = "benchmark" THEN {} ELSE c.tools))]

\* A fingerprint that is in the section already is skipped, whatever its entry
\* says; the scope is written for finding waivers only, in a 1.0 file too.
add_entry(doc, c) ==
  IF c.key \in Keys(doc[c.section]) THEN doc
  ELSE [doc EXCEPT ![c.section] = Append(@, New(c.key, c.expires,
                                    IF c.section = "benchmark" THEN {} ELSE c.tools))]

Add(c) == Command(add_entry(Original, c))

-------------------------------------------------------------------------------
(* waivers prune *)

\* Expired entries go, whatever the grace period, and those whose position the
\* report lists as unused.  The dates are read from the file as it stands, a
\* 1.0 file's benchmark_expires_at included.
prune_data(doc, unused) ==
  LET kept(s) == {i \in DOMAIN doc[s] :
                    ~Expired(Expiry(doc, <<s, i>>), now, 0) /\ <<s, i>> \notin unused}
  IN [doc EXCEPT !.finding_waivers = Keep(@, kept("finding_waivers")),
                 !.benchmark = Keep(@, kept("benchmark")),
                 !.path_exclusions = Keep(@, kept("path_exclusions"))]

Prune == file # Missing /\ Command(prune_data(file, {}))

PruneWithReport ==
  file # Missing /\ report # NoReport /\ Command(prune_data(file, report.unused))

-------------------------------------------------------------------------------
(* waivers migrate *)

\* Mutant of fingerprint_aliases: any current fingerprint, not the same tier's.
Mutant_fingerprint_aliases(fs) ==
  [l \in UNION {f.legacy : f \in fs} |->
     CHOOSE fp \in (CHOOSE f \in fs : l \in f.legacy).fingerprints :
       \A f \in fs : l \in f.legacy => fp # f.primary]

\* Legacy fingerprints of a run and the current one each stands for.
fingerprint_aliases(fs) ==
  [l \in UNION {f.legacy : f \in fs} |-> (CHOOSE f \in fs : l \in f.legacy).primary]

rewrite_fingerprints(entries, aliases) ==
  [i \in DOMAIN entries |->
     IF entries[i].key \in DOMAIN aliases
     THEN [entries[i] EXCEPT !.key = aliases[@]] ELSE entries[i]]

migrate_data(doc, to, aliases) ==
  [doc EXCEPT !.version = to,
              !.finding_waivers = rewrite_fingerprints(@, aliases),
              !.benchmark = rewrite_fingerprints(@, aliases)]

\* --to an older version is refused; `fs` are the findings of --from-report.
Migrate(to, fs) ==
  /\ file # Missing
  /\ file.version = "1.1" => to = "1.1"
  /\ Command(migrate_data(file, to, fingerprint_aliases(fs)))

ReportedFindings == {{}} \cup IF report = NoReport THEN {} ELSE {report.seen}

-------------------------------------------------------------------------------
(* baseline update *)

\* Mutant of seen_any: waived findings are left out here too.
Mutant_seen_any(r) == UNION {f.fingerprints \cup f.legacy : f \in r.seen \ r.waived}

\* Every fingerprint of the report, of waived findings as well.
seen_any(r) == UNION {f.fingerprints \cup f.legacy : f \in r.seen}

\* The fingerprints to be covered: active findings, or all of them.
to_cover(r, include_waived) ==
  {f.primary : f \in IF include_waived THEN r.seen ELSE r.seen \ r.waived}

\* `existing` maps a fingerprint to the last index it occurs at.
LastOfKey(entries, i) == \A j \in DOMAIN entries : j > i => entries[j].key # entries[i].key

PruneUnseen(entries, seen) ==
  Keep(entries, {i \in DOMAIN entries : entries[i].key \in seen \/ ~LastOfKey(entries, i)})

\* --expires dates the whole baseline, which needs schema 1.1.
Dated(doc, expires) ==
  IF expires = NoDate THEN doc
  ELSE [doc EXCEPT !.benchmark_expires_at = expires, !.version = "1.1"]

update_baseline(doc, r, prune, include_waived, expires) ==
  LET dated == Dated(doc, expires)
      old == IF prune THEN PruneUnseen(dated.benchmark, seen_any(r)) ELSE dated.benchmark
      added == SetToSeq(to_cover(r, include_waived) \ Keys(old))
  IN [dated EXCEPT !.benchmark = old \o [i \in DOMAIN added |-> New(added[i], NoDate, {})]]

BaselineUpdate(prune, include_waived, expires) ==
  /\ report # NoReport
  /\ Command(update_baseline(Original, report, prune, include_waived, expires))

-------------------------------------------------------------------------------
Next ==
  \/ Tick
  \/ \E fs \in SUBSET Findings, grace \in GraceOptions : Scan(fs, grace)
  \/ AdoptBenchmark
  \/ \E c \in EntryChoices : Add(c)
  \/ Prune
  \/ PruneWithReport
  \/ \E to \in Versions, fs \in ReportedFindings : Migrate(to, fs)
  \/ \E prune, include_waived \in BOOLEAN, expires \in Expiries :
       BaselineUpdate(prune, include_waived, expires)

Spec == Init /\ [][Next]_vars

-------------------------------------------------------------------------------
(* Properties *)

IsEntries(entries, K, T) ==
  /\ DOMAIN entries = 1..Cardinality(DOMAIN entries)
  /\ \A i \in DOMAIN entries : entries[i] \in [key : K, expires : Int, tools : SUBSET T]

Document(doc) ==
  /\ doc.version \in Versions
  /\ IsEntries(doc.finding_waivers, Fingerprints, Words)
  /\ IsEntries(doc.benchmark, Fingerprints, Words)
  /\ IsEntries(doc.path_exclusions, SUBSET Paths, Words)
  /\ doc.benchmark_expires_at \in Int

\* Types of the two files and of the report.
TypeOK ==
  /\ now \in 0..MaxDay
  /\ file # Missing => Document(file)
  /\ backup # Missing => Document(backup)
  /\ report # NoReport =>
       /\ report \in [seen : SUBSET Findings, waived : SUBSET Findings, known : SUBSET Findings,
                      unused : SUBSET (Sections \X Nat), fresh : BOOLEAN]
       /\ report.waived \cup report.known \subseteq report.seen
  /\ steps \in 0..MaxSteps /\ crashes \in 0..MaxCrashes

\* No command leaves a file the next scan would reject: not even a migration that
\* brings a scope to life that schema 1.0 never looked at.
FileAlwaysLoads == file # Missing => Loads(file)

\* What a scan without grace decides about a finding on a given day.
Verdict(doc, f, day) == doc # Missing /\ Waived(to_waiver_set(doc), f, day, 0)

Completed == crashes' = crashes
Future == now..MaxDay

\* Keys of a 1.0 file that its loader ignores and a 1.1 loader obeys.
Dormant(doc) ==
  /\ doc.version = "1.0"
  /\ \/ doc.benchmark_expires_at # NoDate
     \/ \E i \in DOMAIN doc.finding_waivers : doc.finding_waivers[i].tools # {}

\* Pruning expired entries is cosmetic: no verdict changes, today or later, on
\* any finding, except for a 1.0 file with a dormant benchmark_expires_at.
PruneKeepsVerdicts ==
  Prune /\ Completed /\ ~Dormant(file) =>
    \A f \in Findings, day \in Future : Verdict(file', f, day) = Verdict(file, f, day)

\* Pruning with the report of a scan of the file as it is now changes no verdict
\* on a finding of that scan either, today or later: an entry that only stands
\* behind another one today counts as used.
FreshPruneKeepsVerdicts ==
  PruneWithReport /\ Completed /\ report.fresh /\ ~Dormant(file) =>
    \A f \in report.seen, day \in Future :
       Verdict(file', f, day) = Verdict(file, f, day)

\* docs/waivers/compatibility.md: existing waivers keep matching.  A migration,
\* with any report's aliases, never turns a waived finding active, today or
\* later, whether or not the finding was in that report.
MigrateKeepsWaivers ==
  [][(\E to \in Versions, fs \in ReportedFindings : Migrate(to, fs)) /\ Completed /\ ~Dormant(file) =>
       \A f \in Findings, day \in Future : Verdict(file, f, day) => Verdict(file', f, day)]_vars

\* `waivers add` does waive the findings named, on the day it is used and for as
\* long as it says, unless the section already has an entry for the fingerprint.
AddWaives ==
  [][\A c \in EntryChoices :
       Add(c) /\ Completed /\ Loads(add_entry(Original, c))
         /\ c.key \notin Keys(Original[c.section])
         /\ (c.section = "benchmark" => Original.benchmark_expires_at = NoDate) =>
       \A f \in Findings, day \in Future :
         /\ c.key \in f.fingerprints \cup f.legacy
         /\ entry_applies_to_tool(IF c.section = "benchmark" THEN {} ELSE c.tools, f.tool)
         /\ ~Expired(c.expires, day, 0)
         => Verdict(file', f, day)]_vars

\* After `baseline update` every active finding of the report is known to the
\* baseline, though the file may have been pruned or replaced since the scan.
UpdateCoversReport ==
  \A prune, include_waived \in BOOLEAN, expires \in Expiries :
    BaselineUpdate(prune, include_waived, expires) /\ Completed
      /\ Loads(update_baseline(Original, report, prune, include_waived, expires)) =>
    \A f \in report.seen \ report.waived : Known(to_waiver_set(file'), f)

\* `baseline update --prune` drops no entry that matches a finding of the report,
\* though the finding is waived (by that very entry) or matches by a legacy
\* fingerprint only.
UpdateKeepsWhatMatches ==
  \A include_waived \in BOOLEAN, expires \in Expiries :
    BaselineUpdate(TRUE, include_waived, expires) /\ Completed /\ file # Missing =>
    \A f \in report.seen :
      (f.fingerprints \cup f.legacy) \cap Keys(file.benchmark) \subseteq Keys(file'.benchmark)

\* Whenever a command changes the file, through a crash too, the content it had
\* is in the .bak.
PreviousContentKept == [][file' # file /\ file # Missing => backup' = file]_vars

\* docs/waivers/README.md: entries that matched nothing in a run are listed as
\* unused and `waivers prune --report` removes them.  So an entry that matches a
\* finding of the report and has not expired stays.
PruneRemovesOnlyUnused ==
  [][PruneWithReport /\ Completed =>
       \A ref \in Refs(file) :
         /\ ~Expired(Expiry(file, ref), now, 0)
         /\ \E f \in report.seen : ref \in matches_for(to_waiver_set(file), f)
         => \E i \in DOMAIN file'[ref[1]] : file'[ref[1]][i] = Entry(file, ref)]_vars

\* docs/waivers/README.md: with benchmark_expires_at the whole baseline must be
\* revalidated by then, and it expires every benchmark entry at once.  So after
\* that day no benchmark entry makes a finding known to the scan.
LapsedBaselineKnowsNothing ==
  file # Missing /\ report # NoReport =>
    LET ws == to_waiver_set(file)
    IN report.fresh /\ Expired(ws.benchmark_expires_at, now, 0) =>
         \A f \in report.known :
           (f.fingerprints \cup f.legacy) \cap Keys(ws.finding_waivers) # {}

\* `baseline update` leaves a baseline that covers the report it was given and has
\* lost nothing the report needs.
UpdateFollowsReport == [][UpdateCoversReport /\ UpdateKeepsWhatMatches]_vars

\* Neither way of pruning turns a waived finding active, now or later.
PruningKeepsVerdicts == [][PruneKeepsVerdicts /\ FreshPruneKeepsVerdicts]_vars
===============================================================================
