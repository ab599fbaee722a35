---------------------------- MODULE RuntimeConfig -----------------------------
(***************************************************************************)
(* From the command line to the launch of the scanners: argparse, the      *)
(* DSOINABOX_* variables, .dsoinabox.yaml, their merge into ScanOptions    *)
(* (cli.scan_main, utils/config.py, model.py), and the checks run_scan     *)
(* makes before it starts anything (run.py).  Each origin parses some keys *)
(* on its own, other keys are parsed after the merge, and each mistake     *)
(* ends the process in its own way.                                        *)
(*                                                                         *)
(* A value is a text: "on" and "off" for every spelling of a boolean, ""   *)
(* for an empty string, "null" for a key without value in the YAML file,   *)
(* "bad" for anything else the key does not know.  Left out are the keys   *)
(* whose text goes on as it is (report_directory, report_name, db_cache    *)
(* and the <tool>_args).                                                   *)
(***************************************************************************)
EXTENDS Integers

CONSTANTS Situations   \* explored: the (origin, key)s that say something, and the machine

BOOL_KEYS == {"fail_fast", "verify_secrets", "always_update", "git_tracked_only", "tool_output",
              "benchmark", "sarif_include_waived"}
INT_KEYS == {"waiver_grace_days", "scan_timeout"}
CHOICE_KEYS == {"grype_db", "fail_on"}
THRESHOLD_KEYS == {"failure_threshold", "report_threshold"}
MERGEABLE_KEYS ==
  BOOL_KEYS \cup INT_KEYS \cup CHOICE_KEYS \cup THRESHOLD_KEYS \cup
  {"fail_on_secrets", "show_findings", "tools", "source", "waiver_file", "tool_timeouts",
   "opengrep_rules", "project_id", "output", "baseline"}

\* The documented values of a key (docs/config/README.md), and those beside them.
Documented(k) ==
  CASE k \in BOOL_KEYS -> {"on", "off"}
    [] k \in INT_KEYS -> {"0", "7"}
    [] k = "tool_timeouts" -> {"7"}
    [] k = "grype_db" -> {"auto", "offline"}
    [] k = "fail_on" -> {"all", "new"}
    [] k \in THRESHOLD_KEYS -> {"none", "high"}
    [] k = "fail_on_secrets" -> {"off", "on", "any", "verified"}
    [] k = "show_findings" -> {"off", "on", "full"}
    [] k = "tools" -> {"all", "grype"}
    [] k = "source" -> {"repo"}
    [] k = "waiver_file" -> {"default", "custom"}
    [] k = "opengrep_rules" -> {"auto", "rules"}
    [] k = "project_id" -> {"id"}
    [] k = "output" -> {"html", "json"}
    [] k = "baseline" -> {"file"}

\* Among a tool's timeouts, "bare" is an item without the tool's name, "stranger" one
\* of a tool that does not exist.
Wrong(k) ==
  CASE k \in {"source", "baseline"} -> {"missing"}
    [] k = "opengrep_rules" -> {"missing", "auto,rules"}
    [] k \in THRESHOLD_KEYS -> {"bad", "unknown"}
    [] k \in INT_KEYS -> {"bad", "-7"}
    [] k = "tool_timeouts" -> {"bad", "-7", "bare", "stranger"}
    [] k \in {"waiver_file", "project_id"} -> {}
    [] OTHER -> {"bad"}

Origins == <<"file", "env", "flag">>   \* lowest precedence first

\* What each origin can say: store_true flags only switch on, tool_timeouts has
\* no flag, and only the file has keys without a value.
Sayable(o, k) ==
  IF o = "flag" /\ k \in BOOL_KEYS THEN {"on"}
  ELSE IF o = "flag" /\ k = "tool_timeouts" THEN {}
  ELSE Documented(k) \cup Wrong(k) \cup {""} \cup (IF o = "file" THEN {"null"} ELSE {})

Slots == {"file", "env", "flag"} \X MERGEABLE_KEYS

Absent == "absent"
Error == "error"

-------------------------------------------------------------------------------
(* Parsers *)

str_to_bool(t) == IF t \in {"on", "off"} THEN t ELSE IF t = "null" THEN "on" ELSE Error

parse_fail_on_secrets(t) ==
  CASE t \in {"null", Absent} -> "off"
    [] t \in {"any", "verified"} -> t
    [] OTHER -> IF str_to_bool(t) = "on" THEN "any" ELSE str_to_bool(t)

normalize_show_findings(t) == IF t = "full" THEN "full" ELSE str_to_bool(t)

normalize_opengrep_rules(t) == IF t \in {"", "null", Absent} THEN "auto" ELSE t

\* A negative number is a number.
int(t) == IF t \in {"0", "7", "-7"} THEN t ELSE Error

\* The seconds have to be numbers; the names of the tools are not looked at.
timeouts(t) == IF t = "stranger" THEN t ELSE int(t)

\* Severity has `unknown`, and the legacy names are mapped.
parse_threshold(t) ==
  CASE t \in {"", "none", "null", Absent} -> "none"
    [] t \in {"high", "unknown"} -> t
    [] OTHER -> Error

\* argparse: type= and choices=.
FlagValue(k, t) ==
  CASE k \in INT_KEYS -> int(t)
    [] k = "show_findings" -> normalize_show_findings(t)
    [] k \in CHOICE_KEYS -> IF t \in Documented(k) THEN t ELSE Error
    [] OTHER -> t

\* _normalize_value
FileValue(k, t) ==
  CASE k \in BOOL_KEYS -> str_to_bool(t)
    [] k = "show_findings" -> normalize_show_findings(t)
    [] k = "fail_on_secrets" -> parse_fail_on_secrets(t)
    [] k \in INT_KEYS -> int(t)
    [] k = "tool_timeouts" -> timeouts(t)
    [] k = "opengrep_rules" -> normalize_opengrep_rules(t)
    [] OTHER -> t

\* read_env_overrides: the same, but among the tools' timeouts an item without "="
\* is skipped, which leaves an empty mapping.
EnvValue(k, t) ==
  IF k = "tool_timeouts" /\ t \in {"", "bare"} THEN "" ELSE FileValue(k, t)

Parse(o, k, t) ==
  IF t = Absent THEN Absent
  ELSE CASE o = "flag" -> FlagValue(k, t) [] o = "env" -> EnvValue(k, t) [] o = "file" -> FileValue(k, t)

-------------------------------------------------------------------------------
VARIABLES
  said,      \* said[<<o, k>>]: what origin o says of key k
  world,     \* what is on the machine
  pc,        \* where scan_main is
  merged,    \* merged_values over the parser's defaults
  options,   \* ScanOptions
  exitCode   \* -1 while the process runs

vars == <<said, world, pc, merged, options, exitCode>>
inputs == <<said, world>>

World ==
  [workTree : BOOLEAN,              \* git accepts the source
   project : BOOLEAN,               \* a remote or a first commit gives a project id
   path : BOOLEAN,                  \* the selected scanners are on PATH
   waivers : SUBSET {"default", "custom"},  \* the waiver files that exist
   loads : BOOLEAN]                 \* ... and load

ASSUME SituationAssumption == \A s \in Situations : s.slots \subseteq Slots /\ s.world \in World

Setting(o, k) == IF <<o, k>> \in DOMAIN said THEN said[<<o, k>>] ELSE Absent

\* The file is looked up beside the source that flags and variables name.
source_for_config ==
  IF Setting("flag", "source") \notin {"", Absent} THEN Setting("flag", "source")
  ELSE Setting("env", "source")

Parsed(o) ==
  [k \in MERGEABLE_KEYS |->
    IF o = "file" /\ source_for_config = "missing" THEN Absent ELSE Parse(o, k, Setting(o, k))]
Rejects(o) == \E k \in MERGEABLE_KEYS : Parsed(o)[k] = Error

Init ==
  /\ \E s \in Situations :
       /\ world = s.world
       /\ said \in [s.slots -> UNION {Sayable(slot[1], slot[2]) : slot \in s.slots}]
       /\ \A slot \in s.slots : said[slot] \in Sayable(slot[1], slot[2])
  /\ pc = "argv"
  /\ merged = [k \in MERGEABLE_KEYS |-> Absent]
  /\ options = merged
  /\ exitCode = -1

End(code) == pc' = "exited" /\ exitCode' = code

\* argparse exits with 2 by itself.
ParseArgs ==
  /\ pc = "argv"
  /\ IF Rejects("flag") THEN End(2) ELSE pc' = "env" /\ UNCHANGED exitCode
  /\ UNCHANGED <<inputs, merged, options>>

\* Nobody catches the ValueError of a variable that does not parse.
ReadEnv ==
  /\ pc = "env"
  /\ IF Rejects("env") THEN End(1) ELSE pc' = "file" /\ UNCHANGED exitCode
  /\ UNCHANGED <<inputs, merged, options>>

\* A file that does not load is reported.
LoadConfig ==
  /\ pc = "file"
  /\ IF Rejects("file") THEN End(3) ELSE pc' = "merge" /\ UNCHANGED exitCode
  /\ UNCHANGED <<inputs, merged, options>>

\* Mutant of Merge: the environment is laid over the flags.
Mutant_Merge ==
  /\ pc = "merge"
  /\ merged' = [k \in MERGEABLE_KEYS |->
       CASE Parsed("env")[k] # Absent -> Parsed("env")[k]
         [] Parsed("env")[k] = Absent /\ Parsed("flag")[k] # Absent -> Parsed("flag")[k]
         [] OTHER -> Parsed("file")[k]]
  /\ pc' = "options"
  /\ UNCHANGED <<inputs, options, exitCode>>

\* The three updates of merged_values, and setattr over the defaults.
Merge ==
  /\ pc = "merge"
  /\ merged' = [k \in MERGEABLE_KEYS |->
       CASE Parsed("flag")[k] # Absent -> Parsed("flag")[k]
         [] Parsed("flag")[k] = Absent /\ Parsed("env")[k] # Absent -> Parsed("env")[k]
         [] OTHER -> Parsed("file")[k]]
  /\ pc' = "options"
  /\ UNCHANGED <<inputs, options, exitCode>>

OrDefault(v, falsy, default) == IF v \in falsy \cup {Absent} THEN default ELSE v

\* What ScanOptions is given for a key, from the merged value of that key.  A null
\* for tools or output is the text "None", which is no selector and no format.
Option(k, v) ==
  CASE k \in BOOL_KEYS -> OrDefault(v, {}, "off")
    [] k \in THRESHOLD_KEYS -> parse_threshold(v)
    [] k = "fail_on_secrets" -> parse_fail_on_secrets(v)
    [] k = "grype_db" -> OrDefault(v, {"", "null"}, "auto")
    [] k = "fail_on" -> OrDefault(v, {"", "null"}, "all")
    [] k = "tools" -> OrDefault(v, {""}, "all")
    [] k = "output" -> OrDefault(v, {""}, "html")
    [] k = "baseline" -> OrDefault(v, {"", "null"}, "none")
    [] k = "source" -> OrDefault(v, {"null"}, "repo")
    [] k = "waiver_file" -> IF v \in {"", "null"} THEN "none" ELSE OrDefault(v, {}, "default")
    [] k = "waiver_grace_days" -> OrDefault(v, {}, "0")
    [] k = "scan_timeout" -> IF v = "0" THEN "none" ELSE OrDefault(v, {}, "1800")
    [] k = "opengrep_rules" -> normalize_opengrep_rules(v)
    [] k = "project_id" -> OrDefault(v, {"", "null"}, "derived")
    [] k = "show_findings" -> OrDefault(v, {}, "off")
    [] k = "tool_timeouts" -> OrDefault(v, {""}, "none")

\* The arguments of ScanOptions: the verified gate switches verification on.
ScanOptions(m) ==
  [k \in MERGEABLE_KEYS |->
    IF k = "verify_secrets" /\ parse_fail_on_secrets(m["fail_on_secrets"]) = "verified" THEN "on"
    ELSE Option(k, m[k])]

\* A threshold that does not parse is caught; a secrets mode is not, nor what
\* pydantic rejects.
BuildOptions ==
  /\ pc = "options"
  /\ options' = ScanOptions(merged)
  /\ CASE \E k \in THRESHOLD_KEYS : options'[k] = Error -> End(3)
       [] (\A k \in THRESHOLD_KEYS : options'[k] # Error)
            /\ (options'["fail_on_secrets"] = Error
                  \/ \E k \in CHOICE_KEYS : options'[k] \notin Documented(k)) -> End(1)
       [] OTHER -> pc' = "checks" /\ UNCHANGED exitCode
  /\ UNCHANGED <<inputs, merged>>

\* _load_waivers: a missing file is fine if its name is the default one.
WaiverProblem ==
  /\ options["waiver_file"] # "none"
  /\ IF options["waiver_file"] \in world.waivers THEN ~world.loads
     ELSE options["waiver_file"] # "default"

\* _resolve_opengrep_rules
RulesProblem ==
  options["tools"] = "all" /\ options["opengrep_rules"] \in Wrong("opengrep_rules")

\* git_work_tree_problem, derive_project_id and check_tool_available.
WorldProblem ==
  \/ options["git_tracked_only"] = "on" /\ ~world.workTree
  \/ options["project_id"] = "derived" /\ ~world.project
  \/ ~world.path

\* Mutant of UsageProblem: the database's two switches are not compared.
Mutant_UsageProblem ==
  \/ options["source"] # "repo"
  \/ options["output"] \notin Documented("output")
  \/ options["tools"] \notin Documented("tools")
  \/ RulesProblem
  \/ WorldProblem
  \/ WaiverProblem

\* Mutant of UsageProblem: selectors nobody knows select nothing, quietly.
Mutant_UnknownSelectorsIgnored ==
  \/ options["source"] # "repo"
  \/ options["output"] \notin Documented("output")
  \/ options["always_update"] = "on" /\ options["grype_db"] = "offline"
  \/ RulesProblem
  \/ WorldProblem
  \/ WaiverProblem

\* Everything run_scan raises a UsageError for before the scanners start.
UsageProblem ==
  \/ options["source"] # "repo"
  \/ options["output"] \notin Documented("output")
  \/ options["always_update"] = "on" /\ options["grype_db"] = "offline"
  \/ options["tools"] \notin Documented("tools")
  \/ RulesProblem
  \/ WorldProblem
  \/ WaiverProblem

RunChecks ==
  /\ pc = "checks"
  /\ IF UsageProblem THEN End(3) ELSE pc' = "scan" /\ UNCHANGED exitCode
  /\ UNCHANGED <<inputs, merged, options>>

\* ScanRun takes over, or the process has ended.
Handed == pc \in {"scan", "exited"} /\ UNCHANGED vars

Next == ParseArgs \/ ReadEnv \/ LoadConfig \/ Merge \/ BuildOptions \/ RunChecks \/ Handed

Spec == Init /\ [][Next]_vars

-------------------------------------------------------------------------------
(* Properties *)

\* The text that should count: of the highest origin that says anything.
Winner(k) ==
  LET heard == {i \in DOMAIN Origins : Setting(Origins[i], k) # Absent}
  IN IF heard = {} THEN Absent
     ELSE Setting(Origins[CHOOSE i \in heard : \A j \in heard : j <= i], k)

\* What a documented value means: no timeout is written 0, and a gate on secrets
\* that is just switched on fails on any of them.
Meaning(k, t) ==
  CASE k = "scan_timeout" /\ t = "0" -> "none"
    [] k = "fail_on_secrets" /\ t = "on" -> "any"
    [] OTHER -> t

\* A documented value that wins has the same effect from every origin, though
\* flags, variables and file are parsed by different code and some keys twice.
DocumentedValuesTakeEffect ==
  pc = "scan" =>
    \A k \in MERGEABLE_KEYS \ {"verify_secrets"} : Winner(k) \in Documented(k) =>
      options[k] = Meaning(k, Winner(k))

\* The wrong settings that start a scan all the same: the threshold `unknown`, local
\* rules nobody runs, negative numbers, timeouts of tools that do not exist, those a
\* variable gives without a tool, and a baseline that is missed behind the scanners
\* (ScanRun!BaselineUnusable).
Lenient(k) ==
  \/ k \in THRESHOLD_KEYS /\ Winner(k) = "unknown"
  \/ k = "opengrep_rules" /\ options["tools"] = "grype"
  \/ k \in INT_KEYS \cup {"tool_timeouts"} /\ Winner(k) \in {"-7", "stranger"}
  \/ k = "tool_timeouts" /\ Setting("env", k) = "bare"
  \/ k = "baseline"

\* But for those, no scanner starts on a setting that is wrong, whichever parser was
\* the one to see it: a selector, gate, format, path or choice that is not known never
\* falls back to something else in silence, and a waiver file that was asked for is
\* there, unless it has the default's name.
NoScanOnWrongSettings ==
  pc = "scan" =>
    /\ \A k \in MERGEABLE_KEYS : Winner(k) \in Wrong(k) => Lenient(k)
    /\ Winner("waiver_file") = "custom" => "custom" \in world.waivers

\* docs/cli/README.md: `verified` implies --verify_secrets, also if another
\* origin switches verification off: otherwise the gate could never fail.
VerifiedGateVerifies ==
  pc = "scan" /\ options["fail_on_secrets"] = "verified" => options["verify_secrets"] = "on"

\* Whichever origins the two switches come from, a run that is offline never
\* checks for updates.
OfflineNeverUpdates ==
  pc = "scan" => ~(options["grype_db"] = "offline" /\ options["always_update"] = "on")

\* No run starts on switches that defeat each other, whichever origins they come
\* from: the conflicts are looked for behind the merge.
SwitchesAgree == VerifiedGateVerifies /\ OfflineNeverUpdates
===============================================================================
