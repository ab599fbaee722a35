# dsoinabox: specifications, model checking, proofs

`dsoinabox` runs five security scanners over a source tree, merges their findings, applies waivers
and a baseline, decides an exit code, and writes reports. This directory holds TLA+ specifications
of the parts of it whose correctness is a matter of order, of failure or of long histories: the
configuration of a run, the scheduler, the copy it scans, the tail of a run, the directories several
runs share, the fingerprints that tie a waiver to a finding, and the files that decide what is
suppressed.

Paths below are relative to `src/dsoinabox/` unless they start with `docs/`.

## 1. Inventory

| Component | State | Operations | Talks to | Hard behaviour |
|---|---|---|---|---|
| scheduler (`run.py` `_schedule`, `scanners/registry.py`) | `pending`, `futures`, `results`, `aborted`; the executor's queue and workers | submit, wait, collect, skip | wrappers through the pool; the run through the result list | main thread against workers; several completions at once; `--fail_fast`; dependencies of unselected, failed or slow tools |
| wrappers (`scanners/*`, `utils/runner.py`) | files in `tools_output` | run, convert | external tools; syft and grype through `syft.json` | timeouts, non-zero exits, an exception while a file is half written |
| run (`run.py` `run_scan`, end of `cli.py`) | results, policy, reports, SBOMs, `tools_output`, `latest` | classify, gate, report, export, clean up, return | everything | a step that fails after the verdict; the verdict changing after the reports; uncaught exceptions |
| gate (`policy.py`, `model.py`) | none | `evaluate`, `severity_at_or_above` | the run | boundaries: threshold itself, `unknown`, waived, known, verified |
| waivers: loading (`waivers/models.py`, `loader.py`, `schema.py`) | none | `load_waiver_data`, `to_waiver_set` | the engine, the maintenance commands | two schema versions; keys one ignores and the other obeys |
| waivers: engine (`waivers/apply.py`) | `WaiverUsage` | `matches_for`, `decide`, `unused_refs` | the run; reports feed `prune` | expiry on the day, grace, benchmark-wide date, several entries for one finding |
| waivers: maintenance (`waivers/migrate.py`, `commands/waivers.py`) | the file and its `.bak` | `add`, `prune`, `migrate` | earlier reports | stale reports, positions, duplicates, interrupted writes, long histories over two schemas |
| baseline (`waivers/baseline.py`, `benchmark.py`, `commands/baseline.py`) | the benchmark file | classify, generate, update | the run, earlier reports | duplicates, expiry, waived against seen |
| tracked copy (`utils/tracked.py`) | a temporary tree | create, restore, cleanup | the scheduler, SIGTERM, whoever edits the tree | a signal between two steps; the pool draining behind it; entries swapped between `lstat` and `open` |
| report directory (`cli.py`, `run.py`) | `dsoinabox_<timestamp>/`, `latest`, the Docker mount | create, point, copy | other runs | two runs in one second; unlink and symlink |
| configuration (`cli.py`, `utils/config.py`) | none | merge flags, environment, file | the run | precedence; keys parsed in several places; contradictory settings from different origins |
| opengrep rule ids (`scanners/sast/opengrep_rule_ids.py`) | none | strip the mount's prefix | opengrep, fingerprints | duplicated and overlapping ids |
| fingerprints (`fingerprints/*`, `utils/project_id.py`) | none (they read the source) | one per tier and version | the scanners' output, git, the source | files read again after the scan; machines that spell things differently; two versions |
| normalizers (`normalize/*`, `reporting/fields.py`) | none | paths, fingerprints, severities | the engine, the reports | source spelling |
| reporting, console (`reporting/*`) | none | one report per format | the run | none modelled: a selection and a layout of what the run holds |
| the rest (`deterministic`, `jsonschema`, `validate`, `matcher`, `tools`, `config`) | none | reading and printing | | |

What makes the main components correct:

* **scheduler**: every selected tool ends with exactly one result, its own; grype never runs beside
  syft; nothing is skipped without `--fail_fast` and a failure; nothing is submitted after one; it
  returns.
* **run**: exit code 0 says that everything ran, nothing offending was found and what was asked for is
  there, up to one case; a failure of a scanner always reaches the exit code; a report never promises a
  better exit code than the process has, up to one case; the process ends.
* **configuration**: a documented value has the same effect from every origin; no scan starts on a
  contradictory setting, nor on a wrong one, up to a list of them.
* **tracked copy**: it is gone when the process is; no scanner walks a copy that is being filled or
  removed, if its result is reported; it holds what was examined and what git tracks, and
  nothing from outside the source but what is moved there behind a check.
* **report directory**: a run's report is its own and stays; `latest` leads to a finished run, and to
  the last one.
* **fingerprints**: a waiver follows what it was written for, to other machines, through edits, moves
  and an upgrade of the tool, and waives nothing else; no two rules are taken for one.
* **waiver file**: no command leaves a file the next scan rejects; pruning what has expired or was
  unused does not change a verdict; a migration never turns a waived finding active; what is added
  suppresses; `baseline update` covers the report; the previous content survives in the `.bak`.

`PROJECT.json` lists every component with its status and, under `hazards`, each of these behaviours
at the line where it bites, with the properties that watch it.

## 2. Modules

| Module | Models | Run |
|---|---|---|
| `RuntimeConfig` | `argv`, environment and file to `ScanOptions`, and the checks before the launch | `runtime_config` |
| `ScanPlan` | what `_schedule` promises: launch, answer, skip | through the three below |
| `ScanScheduler` | `_schedule`, the pool, `syft.json`; refines `ScanPlan` | `scheduler` |
| `TrackedCopy` | `--git_tracked_only` under SIGTERM, from `mkdtemp` to the exit | `tracked_copy` |
| `TrackedFiles` | the copy loop while somebody edits the tree | `tracked_files` |
| `Policy` | the gate and its severity order, operators | through `ScanRun` |
| `ScanRun` | one run from launch to exit code | `scan_run`, `convert_timeout` |
| `ReportDirectory` | several runs, their directories, `latest`, the Docker mount | `report_directory`, `mount_is_base` |
| `ProjectId`, `OpengrepRuleIds`, `Fingerprints` | operators: the project id and remotes, rule ids, the tiers of the four tools | through `Findings` |
| `Findings` | scan, fingerprint, waive, edit, commit, move to another machine | `findings` |
| `Waivers` | documents, loading, engine, baseline, operators | through `WaiverFile` and `Findings` |
| `WaiverFile` | the life of a waiver or benchmark file | `waiver_file`, `stale_prune`, `expired_baseline` |
| `ScanSchedulerProofs`, `ScanRunProofs`, `TrackedCopyProofs`, `TrackedFilesProofs`, `ReportDirectoryProofs`, `RuntimeConfigProofs`, `WaiverFileProofs`, `FindingsProofs` | the theorems about the module each is named after | tlapm |
| `MC*` | constants for TLC | |

The composition: `RuntimeConfig` ends where `_schedule` starts. `ScanScheduler` is shown to implement
`ScanPlan` (checked by TLC with liveness, proved for safety); `ScanRun` and `TrackedCopy` are built on
`ScanPlan`, so what they assume of the scheduler is what it was shown to do. `TrackedFiles` opens up
the one step `CopyFiles` of `TrackedCopy`, `ReportDirectory` what `ScanRun` has as `latest` and
`toolsOutput`. `WaiverFile` and `Findings` use the operators of `Waivers`: the first over the life of
one file with abstract findings, the second over the life of a finding with one waiver, and the
assumption on fingerprints that `WaiverFile` makes (`FindingAssumption`) is what `Findings` checks of
the algorithms (`LegacyWaiversSurvive`). `ScanRun` takes the outcome of the engine as the `waived` and
`known` flags of findings.

### RuntimeConfig

Each origin is a partial map from keys to texts. `ParseArgs`, `ReadEnv` and `LoadConfig` parse the keys
their code parses, and only those; `Merge` is the loop over `MERGEABLE_KEYS`; `BuildOptions` parses the
rest; `UsageProblem` collects the checks of `scan_main` and `run_scan` in their order. How a mistake
ends the process (exit code 1, 2 or 3) depends on who finds it, and the model keeps that. A text stands
for a class of texts: `on` for every spelling of a true boolean, `bad` for everything the key does not
know. The wrong texts the parsers treat differently are apart: negative numbers (`-7`), a threshold
`unknown`, among the tools' timeouts one of no tool at all (`bare`, which a variable skips and a file
rejects) and one of a tool that does not exist (`stranger`). A baseline that does not exist passes here
and is found by `ScanRun`. Left out are the keys whose text goes on as it is: `report_directory`,
`report_name`, `db_cache` and the `<tool>_args`. `Situations` is what an instance explores, any number
of settings (`Slots`: who says something of which key) on a machine (`World`); every theorem is for any
set of them (`SituationAssumption`).

### ScanScheduler

The variables are the locals of `_schedule` (`pending`, `futures`, `results`, `aborted`; `batch` is
what is left of `done` in the `for` loop; `pc` is the place in the loop), the executor's (`queue`,
`running`, `outcome`) and `syft.json` with what grype found there. `Submit` is one iteration of the
submit pass, `StartWait` and `Leave` the two ways on from it, `WaitReturns` the return of `wait`,
`Collect` one iteration over `done` (a set: any order), `EndBatch` the skipping behind it. On the
workers' side: `Launch`, `Finish` (any status: a scanner may exit non-zero, time out or raise),
`SyftOpens`/`SyftWrites` (open truncates, `json.dump` and close complete; under
`--git_tracked_only` twice), `GrypeReads` (the file if it exists, else the directory). Every
interleaving of these is explored. `progress` reads a tool's outcome off the scheduler's state: it
is the refinement mapping to `ScanPlan`, where a tool is *waiting* until a worker takes it, though
it was submitted long before.

### ScanRun

`findings`, `status` and `policy` are those of the results and of `run.policy`; `phase` is the place
in `run_scan`; `reports[f]` remembers the exit code that report `f` was written with. `Evaluate`
is the gate, `WriteReport` one pass of the report loop, `ReportsWritten` the entry into
`_export_sboms`: with a syft that did not succeed, and also without `syft.json`, it only warns and
exports nothing. `ExportSbom`, `ExportFails` and `ExportTimesOut` are the three ends of one `syft
convert`, `BaselineUnusable` the usage error that is
found only after the scanners ran, `Raise` any exception nobody catches. `OtherRunCleansUp` is the
environment: another run of the same second, in the same directory, removes `tools_output` under this
one (`toolsOutput` is `lost`, where `removed` is this run's own doing). Failed scanners may have
findings, because `_run_one` catches exceptions behind the normalization too. The usage checks
before the scanners are in `RuntimeConfig`; a run starts at their end.

### TrackedCopy and TrackedFiles

`pc` is the place of the main thread between `mkdtemp` and the exit, `ending` the exit code of the
exception that propagates, `copy` how complete the tree is. `MakeDir` to `Bind` are the lines of
`create` and the assignment of its result, `Submit`, `SkipRest` and `PoolLeft` the scheduling loop
and the exit of the executor's `with`, `Launch` and `Answer` the pool, which goes on while an
exception propagates. `Interrupt` is SIGTERM as `SystemExit` at any of these places, `AfterSignal` the
handler or `finally` it reaches from there; behind the tail SIGTERM has its old meaning (`Kill`).
`torn` collects scanners that walked a copy while it was not whole.

`TrackedFiles` has one action per system call of `copy_tracked_files`: `Visit` (with the `realpath`
check of the path's directory, made once per directory and remembered in `inside`), `LStat`, `Open`
(`O_NOFOLLOW`, `O_NONBLOCK`), `FStat`, and `ReadLink`; `Raise` is any other `OSError`. An entry is a
kind, an inode and whether it lies outside the source. Between any two calls `Edit` replaces an entry
and `Redirect` swaps directories for links that lead out of the source, or puts them back: `away` are
those that lead out now. A call on a path below one of them finds one of `Elsewhere`. So a path may be
checked, led out, and then read (the docstring of the function concedes it), and `swapped` remembers
the directories of which that is true. `FilesAssumption`: finitely many paths, each in a directory,
submodules among them, something elsewhere, and any kinds of entries with files, links and nothing among
them.

### ReportDirectory

`Start` names the directory by the second, `WriteRaw` and `ReadRaw` are a scanner's output under its
fixed name, `Look`, `Unlink` and `Link` the three system calls of `_update_latest_pointer`,
`RemoveTarget` and `CopyTree` those of `copy_reports_to_mount`. `mount` says whether there is a
container and whether `--report_directory` is its mount. `Crash` kills a run anywhere.
`DirectoryAssumption` tells the places apart: a container's own base is named after its run, and no
run is called `base` or `/reports`.

### Findings and its operator modules

A source is a map from names to sequences of lines, a line one of nine tokens (nothing, a secret, the
same with separators, another secret, a secret without a value, two pieces of bad code, two vulnerable
packages). A machine is everything a run's fingerprints could depend on without being told: the working
directory and the spelling of `--source`, the remotes, line ends, where the rules are mounted and which,
the state of the vulnerability database. `TreeAssumption` has finitely many files with relative names,
and `MachineAssumption` a working directory that is absolute, finitely many rules, and one repository
that all machines have a clone of, under at most one remote each. A path is a sequence of names with a
slash at most at its start, and no file outside the source counts as existing. `Scan` produces raw
findings, `Fingerprint` reads the source again, fingerprints, normalizes, waives and reports; `Edit` may
come between the two. `Waive` puts the fingerprint of any reported finding (current or legacy) into the
waiver file, together with what it was written for, which only the properties look at. `Commit` and
`Move` change history and machine. `Fingerprints` has each tier as the tuple of what is hashed, so
hashes and key derivation are taken to be injective. Scanners report in one step, and the report is
dropped when the source or the machine changes; how OpenGrep, Checkov and trufflehog spell paths and
which lines a commit adds is external and taken from how the wrappers read them.

### Waivers and WaiverFile

An entry is a key, a date and a scope; dates are days; a path pattern stands for the paths it
matches. `Loads` and `to_waiver_set` keep the differences of the schema versions: 1.0 has no scopes
on finding waivers and no `benchmark_expires_at`, and does not look at them when a file has them.
`Scan` produces a report, as `metadata.waivers.unused` and the findings list do, for any set of
findings (sources change, and `--tools` narrows a run) and with or without grace. `Add`, `Prune`,
`PruneWithReport`, `Migrate`, `BaselineUpdate` and `AdoptBenchmark` are the commands. Each goes
through `Command` (the result is loaded before it is written) and `Write` (nothing if nothing
changed; copy to `.bak`; truncate; write), and `Write` may be interrupted: the file is then as
before or empty. An empty file is an empty 1.0 document for the loaders. A rewrite that changes only
layout is a stutter here. `Keep` is the list a command leaves, in the order it was. `TypeAssumption`
bounds what the texts range over (`Fingerprints`, `Paths`, `Words`), the findings and the files a project
may start with. Waiver file and benchmark file are one document, which has both kinds of
entries in the code as well. `report.fresh` is not in a report: it says that neither file nor day
has changed since, and only properties and no action use it.

A legacy fingerprint is an alias of one current fingerprint of the same tier, and its text is never
that of a current one. This is an assumption (`FindingAssumption`) on the fingerprint algorithms,
which `Findings` models.

## 3. Runs

| Run | Instance and bounds | Distinct states |
|---|---|---|
| `scheduler` | the five scanners of the registry, all 31 selections, pools of 1, 2 and 5, with and without `--fail_fast` | 251,343 |
| `scan_run` | a secret scanner, syft and grype; per scanner the findings that tell the clauses of the gate apart; 72 option records; every failure, and the loss of `tools_output` to another run | 2,061,696 |
| `tracked_copy` | four scanners, all selections, with and without `--fail_fast`, in and outside a git repository; `MaxSignals = 3` | 73,234 |
| `tracked_files` | two paths in one directory, one in another, a submodule; any directories led out from the start; four kinds of entries, three elsewhere; `MaxChanges = 2` | 1,352,820 |
| `report_directory` | two runs, without Docker, with, and with the base directory on the mount; `MaxClock = 1`, `MaxCrashes = 1` | 8,981 |
| `runtime_config` | any two settings of any origins on a machine where all is well, any one on a machine with something missing | 235,742 |
| `findings` | four sources, five machines (one with a nested relative source), three rules each; `MaxEdits = 1`, `MaxCommits = 2`, one waiver | 249,446 |
| `waiver_file` | two opengrep findings that share a fingerprint tier and a legacy form, one grype finding; an old, a current and no file; `MaxDay = 2`, `MaxSteps = 4`, `MaxCrashes = 1` | 92,620 |
| `convert_timeout`, `stale_prune`, `expired_baseline`, `mount_is_base` | as above | violated: section 5 |

Why the bounds are enough.

* `scheduler` has no bound: the registry is the real one, and the pool sizes cover one worker
  (everything queues), contention and none.
* In `scan_run` three scanners suffice because the tail looks at a set of failures and a set of
  findings; the registry's dependency is among them.
* In `tracked_copy` three SIGTERMs are one more than any property distinguishes: one interrupts the
  work, a second the drain, a third whatever cleans up behind that. The four scanners are the one that
  may bypass the copy, the writer and the reader of the SBOM, and one that always walks the copy.
* In `tracked_files` two edits are a swap and a swap back between the calls on one path, of an entry or
  of its directory; the second path of a directory relies on the check made for the first, and the other
  directory has a check of its own.
* In `report_directory` two runs, in one second or in two, and one kill are the shortest races for a
  directory and for `latest`. A third run adds more of the same pairs.
* In `runtime_config` two settings are what a conflict takes: two origins for a key, or two keys that
  exclude each other. Rules about more than two keys do not occur in the code.
* In `findings` a waiver, the scan it came from and the scan it meets are the whole story of a
  fingerprint; the machines differ in a few things each, between them in everything that varies, and
  the rules include one id in two files and an id that ends another.
* In `waiver_file` three days separate expired, expiring and valid for a date; four commands are a
  scan, two rewrites and a use of the stale report, the shortest histories in which the hazards
  appear. A second crash adds nothing a property speaks of.

Deadlock is not checked where a bound or the end of all runs stops the model (`waiver_file`,
`report_directory`, `findings`).

What is checked, besides types:

* `scheduler`: `NoToolDropped`, `ResultIsTheRunsOwn`, `SkippedOnlyBehindFailure`,
  `GrypeReadsFinishedSbom`, `NothingSubmittedAfterFailure`, `Terminates`, and the refinement
  `ImplementsPlan` (which has `DependenciesEndFirst` in it).
* `scan_run`: `ZeroMeansClean` (with the severities spelled out, not with the gate's own operators; the
  SBOMs are all there, or none is and `syft.json` was lost to another run),
  `FailuresReachTheExitCode`, `ReportsForetellTheExitCode`, `RunEnds`.
* `tracked_copy`: `CopyRemoved` (unless a signal hits one of four windows, see section 5),
  `ScannersKeepTheirCopy`, `ReportedResultsAreWhole`, `Ends`.
* `tracked_files`: `OnlyExaminedEntries` (an entry from outside the source is copied only if its
  directory was led out behind its check), `CopyIsExact`, `CopyEnds` (a fifo in the place of a file must
  not block the loop).
* `report_directory`: `ReportIsOwn`, `LatestIsComplete`, `LatestLeadsToLastRun`.
* `runtime_config`: `DocumentedValuesTakeEffect`, `NoScanOnWrongSettings` (up to `Lenient`, which lists the
  wrong settings that start a scan all the same), `SwitchesAgree`.
* `findings`: `FingerprintsFollow` and its converse `RecommendedWaiverIsNarrow` (the recommended waiver
  waives nothing but what it was written for), `LegacyWaiversSurvive`, `LocatedWaiverIsNarrow`,
  `RulesStayApart`, `PathsAreRelative`.
* `waiver_file`: `FileAlwaysLoads`, `PruningKeepsVerdicts`, `MigrateKeepsWaivers`, `AddWaives`,
  `UpdateFollowsReport`, `PreviousContentKept`.

Each is stated in words above its definition, and for each a mutant of the code (`Mutant_...`, next to
the definition it replaces) is known that violates it. The exceptions in them (`Windows`, `Alone`,
`Overlap`, `Misread`, `Dormant`, `Lenient`, `swapped`, ...) are not conveniences: each is a behaviour of
the code that TLC showed, and section 5 lists them.

### Fairness

`ScanScheduler`: weak fairness of the main thread as a whole, of the workers taking the next item,
and of the end of each scanner. The main thread and idle workers of an executor run whenever they
can. A scanner ends because `run_cmd` gives `subprocess.run` a timeout (1800 s by default;
`--scan_timeout 0` switches it off, and then liveness rests on the scanner). The steps on
`syft.json` need no fairness: the wrapper may raise instead. `ScanRun`: weak fairness of the
scanners' part, which is what `ImplementsPlan` shows of the scheduler, and of the main thread's
tail. `TrackedCopy`: the same of main thread, pool and each scanner, and of `rmtree` coming to its end,
since the tree is finite; signals owe nothing. `TrackedFiles`: of the copying thread only, not of the
editor. The other modules have no liveness property and no fairness.

## 4. Proofs

Eight modules of theorems. All assumptions are named `ASSUME`s of the modules they are about, and TLC
evaluates them on the instances. Every invariant and every action property of the passing runs is a
theorem, for every value of the constants, bounds included. The scheme is the same in all: an `IInv`
of named parts, one lemma per action (or per part) that shows it is kept, and the properties from it.

### ScanSchedulerProofs

Proves, for every registry, dependency relation, selection, pool size and interleaving, the safety
properties of `ScanScheduler` and the safety part of the refinement. Assumptions: the registry's order
lists the tools; `depends_on` is well-founded (each non-empty set of tools has a member that depends
on none of the set); grype depends on syft; worker counts are numbers.

The properties are not inductive. `IInv` adds to the types:

* `Partition`: a selected tool is pending, submitted or reported, and only one of these;
* `PoolOrder`: a submitted tool is queued once, running, or has an outcome, and a result is that
  outcome;
* `AbortFlag`: `aborted` stands for a collected failure under `--fail_fast`, and an aborted run has
  nothing pending outside the collecting loop;
* `DepsAnswered`: what was submitted has the results of its dependencies;
* `Drained`: the loop is left with nothing pending and nothing in flight.

One lemma per action shows that it preserves `IInv`. The step with content is `LeaveIInv`: at `if
not futures: break` a pass submitted nothing and nothing is in flight, so all results are in, and a
minimal pending tool of the well-founded `depends_on` would have been ready; hence nothing is
pending. `AbortFlag` is what `NothingSubmittedAfterFailure` and `SkippedOnlyBehindFailure` need,
`DepsAnswered` with `PoolOrder` what `DependenciesEndFirst` needs. `SbomInv` adds what the file looks
like before, while and after syft runs. The refinement maps `Launch`, `Finish` and `EndBatch` to the
plan's `Launch`, `Answer` and `Skip`, and every other step to a stutter.

### ScanRunProofs

Proves `ZeroMeansClean`, `FailuresReachTheExitCode` and `ReportsForetellTheExitCode` for every set of
scanners, dependency relation, set of results and set of options (`RunAssumption`). The three speak of
the exit code at the end; `IInv` carries what they need through the tail:

* `ScannersOK`: only selected tools make progress, and a skip stands behind a failure;
* `VerdictIsCurrent`: from the gate on, `policy` is `evaluate` of the statuses as they are now, and
  those are the scanners' own but for a syft that failed late;
* `ReportsFollow`: a report has the verdict of now, or syft failed after it; none asked for is missing
  once the loop is left;
* `SbomsFollow`: while syft counts as successful, each SBOM asked for is there or still to come, unless
  `tools_output` was lost before the export began, and then none is (`NothingToExport`);
* `ExitCodeByPlace`: why the process has the exit code it has.

The step with content is `ExportFailsIInv`, the only one that changes the verdict behind the reports:
it makes `Failures(status)` non-empty, so the verdict is 2 from there on. `GateStopsOffending` shows
that the gate's clauses, written with ranks, stop what `Offending` spells out.

### TrackedCopyProofs

Proves `CopyRemoved`, `ScannersKeepTheirCopy` and `ReportedResultsAreWhole` for every set of scanners
and any number of signals (`CopyAssumption`). `IInv` adds to the types `CopyByPlace` (what the main
thread's place says of the copy), `PoolByPlace` (only submitted tools run, and none is submitted before
the copy is bound), `SignalCount` (it takes two signals to be past the pool with a scanner still in
flight, since leaving the executor waits) and `NormalEnd` (without a pending exception every selected
tool has its result).

### TrackedFilesProofs

Proves `CopyIsExact` and `OnlyExaminedEntries` for every index, every set of kinds and any number of
edits and redirections behind the loop's back. `IInv` is

* `LoopInv`: each path is visited once, nothing of it is in the copy before, and what `lstat` said chose
  the branch;
* `RedirectInv`: a directory that leads out though it was found inside has been swapped behind its check,
  and what the calls on the current path saw outside the source they saw through such a directory;
* `QuietInv`: as long as nobody has touched the tree, what was read of it and of its directories still
  stands, and a path that is done is in the copy exactly if it is a tracked file or link;
* `CountIsTheCopy`, with the lemma `CopiedCounts`: one entry more in the copy is one more in the counter
  that decides "nothing is tracked".

### ReportDirectoryProofs

Proves `ReportIsOwn`, `LatestIsComplete` and `LatestLeadsToLastRun` for any number of runs, seconds and
kills. None is inductive, since runs of one second may do anything to each other's directory. `IInv` has

* `PlaceInv`: a run works at its base, or behind the copy at the mount, and ends well only behind the
  last of them;
* `OwnInv`: what a run that has its second for itself wrote is still its own, place by place;
* `WrittenInv`: away from the mount nothing takes a report out of a directory;
* `LatestInv`: whoever made `latest` what it is has no step left that touches its report (`Settled`);
* `KeptInv`: once `latest` has been there it is there, or somebody is about to make it, or was killed in
  between;
* `OrderInv`: with one run at a time, each finds `latest` as it left it.

`ReportsAreWrittenAwayFromTheMount` is the other half of the run `mount_is_base`: what that run refutes
holds whenever the base directory is not the mount itself.

### RuntimeConfigProofs

Proves `DocumentedValuesTakeEffect`, `NoScanOnWrongSettings` and `SwitchesAgree` for settings of all
keys by all origins at once, on any machine; the run has at most two. `IInv` says what is behind each
place: `ParsersAgree` (the origins read so far parsed), `MergeDone` (the loop over the origins left the
value of the strongest that says something, `Laid`), `OptionsBuilt` and `ChecksPassed`. The lemma with
content is `WrongStaysWrong`: a wrong text of the origin that wins is found by a parser, by the
construction of the options or by a check, whichever of them knows the key, unless it is one of
`Lenient`.

### WaiverFileProofs

Proves all six properties of `waiver_file`, and `TypeOK`, for every set of findings, every document the
project starts with, any texts, and every bound (`TypeAssumption`, `FindingAssumption`,
`InitialAssumption`). `IInv` is `TypeInv` (every command leaves a document of the loader's types) and
`FreshInv` (a fresh report lists what the file leaves unused). What `Keep` and the community modules'
`SetToSeq` return is shown by `KeepLists` and `SetToSeqLists`. Two theorems are about the operators, for
every document: `MigrationLosesNoWaiver` and `AddedEntryWaives`, and the properties of the histories
follow from them. `PruningNeverChangesVerdicts` rests on `SameEntry` (what was kept decides as it did)
and `ExpiredLater` (what has expired stays so).

### FindingsProofs

Proves the six properties of `findings` for every source, every number of machines and rules, every
history of edits and commits. Hashing is injective in the model, so the argument is about what goes into
a fingerprint. `IInv` is

* `SourceInv`: working tree and commits are sources;
* `RawInv`: what the scanners reported is of the machine of the run; `SecretRaw`, `CodeRaw`,
  `PackageRaw` and `CheckRaw` say for each tool what of it can be relied on though the source may have
  been edited since;
* `WaiverInv`: an entry of the waiver file has a fingerprint of some finding of the machine it was
  written on;
* `ReportInv`: each finding of a report has the fingerprints of its tool (`FindingOK`: `SecretFinding`,
  `CodeFinding`, `PackageFinding`, `CheckFinding`), is waived exactly if one of them is in the file, and
  has the path `PathsAreRelative` promises.

`WaiverInv` and `FindingOK` quantify over all findings there could be, which TLC cannot enumerate: what
TLC checks is what they imply. `FingerprintsFollow` and `LegacyWaiversSurvive` follow because tool,
version and tier of a fingerprint are part of it, so a waived fingerprint can only meet one of the same
kind; `TierByTier` shows that two findings that share a legacy fingerprint share the current one of each
tier, though they may have been read from different texts. `RulesStayApart` rests on `CheckIds` and
`Stripping`: a bare id is the longest end of the reported one that is the id of one rule file only.
`PathsAreRelative` is the lemma `RelativePath`, which goes through the spellings of the four tools and
the readings `relativize_path` tries. `RecommendedWaiverIsNarrow` goes the other way (`NarrowHolds`):
what was waived has a fingerprint of the waiver's, so both hash the same fields, and the fields
determine what the finding is about. `RecommendedFields` and `PrintFields` say which fields those are,
`HashedAlike` and `CheckedApart` that checkov's name the file up to leading dots.

### Only model-checked

* The liveness properties: `Terminates`, `RunEnds`, `Ends`, `CopyEnds`. Liveness under fairness needs
  ENABLED, which is out of this prover's reach.
* The liveness part of `ImplementsPlan`; its safety part is the theorem `SchedulerImplementsPlan`.
* The four runs that expect a violation: they are counterexamples, found by TLC.

No module has a recursive operator, and no theorem rests on an induction over data.

## 5. Disagreements between code and documentation

With a run that shows them:

1. `convert_timeout`: "A timeout is a scanner failure" (`docs/cli/README.md:72`), exit code 2; a
   timeout of `syft convert` is caught by nobody and ends the process with 1.
2. `stale_prune`: `waivers prune --report` is to remove the unused entries of a run
   (`docs/waivers/README.md:80`); it removes what is at their positions now. With a report of the file
   as it is, pruning keeps every verdict (`PruningKeepsVerdicts`).
3. `expired_baseline`: `benchmark_expires_at` "expires every benchmark entry at once"
   (`docs/waivers/README.md:69`) and `--expires` "forces a revalidation date" (line 108); the
   classification with `--baseline` looks at no date.
4. `mount_is_base`: a run whose scanners ran exits with "reports written" (`docs/cli/README.md:137`); in
   Docker with `--report_directory /reports`, `copy_reports_to_mount` (`cli.py:446`) removes the run's own
   directory, and copying it then raises.

Met while modelling, in the models as behaviours or as exceptions in properties, without a run of
their own:

* `--fail_fast` is to "stop launching scanners after the first failure" (`docs/cli/README.md:73`);
  `_schedule` (`run.py:184`) skips only what was not submitted, and the pool launches the rest of its
  queue.
* `baseline update --prune` "drops entries that no longer match" (`docs/waivers/README.md:108`); of
  equal fingerprints it drops one (`migrate.py:391`), and `--benchmark` writes equal fingerprints.
* "SIGTERM must not leave it behind" (`run.py:310`); after `mkdtemp`, before `tracked` is assigned and
  within either `rmtree` it does (`Windows`).
* "parallel CI jobs never collide" (`cli.py:549`); two runs started in one second share a directory
  (`Alone`).
* `latest` is "always the newest run" (`docs/output/README.md:22`); of two runs that race, the one that
  ends last may fail on both `symlink` and `copytree` and leave it on the other.
* Exit code 3 is "bad flag value" (`docs/cli/README.md:139`); argparse ends with 2, and a bad
  environment variable ends with 1 (`cli.py:496`).
* "A missing explicit file is a usage error" (`docs/cli/README.md:64`); an explicit waiver file with the
  default's name is taken for the default (`cli.py:583`).
* "Only these can be used as thresholds" (`model.py:38`); `unknown` can (`model.py:52`).
* An `ssh://` remote is to give the same project id as its other forms (`utils/project_id.py:33`,
  `docs/waivers/README.md:121`); it is hashed as it stands (`project_id.py:52`).
* Stripping rule id prefixes is to keep ids apart (`opengrep_rule_ids.py:14`); an id that ends another,
  or is in two files, is merged (line 75; `Overlap`).
* With a relative source directory every opengrep finding is unlocatable (`fingerprints/opengrep.py:325`),
  and the EXACT fingerprint of a rule is one for all files.
* A secret of the checked out commit is fingerprinted from the working tree, changed or not
  (`fingerprints/trufflehog.py:217`); and by its first occurrence in the file, whatever line was
  reported (line 451, against the docstring in line 449).
* Checkov's fingerprints, grype's EXACT and opengrep's CTX depend on the spelling of an absolute source;
  grype's CTX changes with the database; the offsets in EXACT depend on line ends, though the content
  hash beside them does not.
* "Paths are repo-relative POSIX everywhere" (`docs/output/README.md:61`); a relative `--source a/b` may
  stay in front of the path (`Nested`), because only the last name of the source is stripped
  (`reporting/fields.py:77`). And a path with two readings may get the wrong one (`Misread`): if the source
  has directories named like the way to it; if a relative path leads to another file from the root of the
  machine (a source `a` in `/a` with files `a/f` and `f`); and Grype's `/app/x` for the file `app/x` under
  the source `/app` becomes `x`, because the prefix is cut before anybody asks whether the file exists.
* Rules with the same id in two files of one directory are one rule for OpenGrep already (`Apart`).
* Exit code 0 says that the scans completed (`docs/cli/README.md:136`); a run that finds its `syft.json`
  gone exports no SBOM, warns, and may end with 0 (`run.py:457`).
* Among the tools' timeouts of a variable, an item without "=" is skipped (`utils/config.py:203`), and the
  empty mapping that is left still overrides the file's; names of tools are not checked anywhere, and
  negative numbers are numbers, though wrong values are to end with exit code 3 (`Lenient`).
* A baseline that does not exist is a usage error only behind the scanners (`run.py:353`).
* Files whose paths differ in leading dots (`f`, `.f`) share their fingerprints: `lstrip("./")` takes
  characters, not a prefix (`fingerprints/checkov.py:20`, `fingerprints/trufflehog.py:413`, and so on;
  `SameFile`).
* A directory that is led out of the source behind its check is read (`utils/tracked.py:103`), as the
  docstring (line 63) says; "nothing is read through a directory that resolves outside" holds otherwise.
* A 1.0 waiver file may hold keys its loader ignores (`Dormant`): `prune` reads `benchmark_expires_at` all
  the same, and `migrate` brings the keys to life, so both change verdicts.

## 6. Not modelled, and the plan

Not modelled because it is data without state, or plain input and output: the selection and rendering of
the reports of the five formats and of the console, the severities and texts of findings,
`reporting/sarif_formatter.py` and `parser.py` (the formatter for reports without a run), console
wording, `waivers validate`, JSON schema, the legacy matcher of 0.1.x (kept for callers, not used by a
scan), `tools` and `config`, command lines of the scanners, the clock and UUID seam for tests. Left
out of modelled parts: the merging of `WaiverUsage` counters, annotations of findings, comments and
layout of YAML files, an interrupted write that leaves a prefix of the text, `--output` and
`--dry-run`, the reading of the unused list from a report of another file, mapping the copy's paths
back (`restore`), git's own plumbing, `latest` as a copy where there are no symlinks, PEM blocks and
secrets over several lines, tool arguments and logging flags.

Next, in this order:

1. `WaiverFile`: a command after an interrupted write (`migrate.py:430` copies the truncated file over
   the `.bak`); it is in the state space, but no document promises more than the previous content.
2. `TrackedCopy`: `restore`, and linked worktrees, whose repository lies outside the source and which
   need `--project_id`.
3. `RuntimeConfig` composed with `ReportDirectory`: usage errors found behind `makedirs` leave an empty
   report directory.
4. Proofs: that `TrackedCopy`, as long as no exception propagates, lets scanners make only the steps
   of `ScanPlan` (`ScanRun` is built from them); that the findings of a report of `Findings` have what
   `FindingAssumption` asks of those of `WaiverFile`; what the copied report at the mount is, beside
   where it is.
