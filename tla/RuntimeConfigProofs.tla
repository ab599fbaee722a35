------------------------- MODULE RuntimeConfigProofs --------------------------
(***************************************************************************)
(* What reaches the scanners, whatever flags, variables and file say of    *)
(* any number of keys, on any machine.                                     *)
(***************************************************************************)
EXTENDS RuntimeConfig, TLAPS

Places == {"argv", "env", "file", "merge", "options", "checks", "scan", "exited"}
OriginNames == {"file", "env", "flag"}

\* What the loop over the origins leaves for a key.
Laid(k) ==
  CASE Parsed("flag")[k] # Absent -> Parsed("flag")[k]
    [] Parsed("flag")[k] = Absent /\ Parsed("env")[k] # Absent -> Parsed("env")[k]
    [] OTHER -> Parsed("file")[k]

\* Nobody says what cannot be said.
InputsOK ==
  \A o \in OriginNames, k \in MERGEABLE_KEYS : Setting(o, k) \in Sayable(o, k) \cup {Absent}

\* What is behind each place: the parsers that accepted their origin, the merge,
\* the options, the checks.
ParsersAgree ==
  /\ pc \notin {"argv", "exited"} => ~Rejects("flag")
  /\ pc \notin {"argv", "env", "exited"} => ~Rejects("env")
  /\ pc \notin {"argv", "env", "file", "exited"} => ~Rejects("file")
MergeDone == pc \in {"options", "checks", "scan"} => merged = [k \in MERGEABLE_KEYS |-> Laid(k)]
OptionsBuilt ==
  pc \in {"checks", "scan"} =>
    /\ options = ScanOptions(merged)
    /\ options["fail_on_secrets"] # Error /\ \A k \in THRESHOLD_KEYS : options[k] # Error
    /\ \A k \in CHOICE_KEYS : options[k] \in Documented(k)
ChecksPassed == pc = "scan" => ~UsageProblem

IInv == pc \in Places /\ InputsOK /\ ParsersAgree /\ MergeDone /\ OptionsBuilt /\ ChecksPassed
-------------------------------------------------------------------------------
LEMMA InitInvariant == Init => IInv
<1> SUFFICES ASSUME Init PROVE IInv OBVIOUS
<1>1. InputsOK
  <2> SUFFICES ASSUME NEW o \in OriginNames, NEW k \in MERGEABLE_KEYS, <<o, k>> \in DOMAIN said
               PROVE  said[<<o, k>>] \in Sayable(o, k)
    BY DEF InputsOK, Setting
  <2>1. \A slot \in DOMAIN said : said[slot] \in Sayable(slot[1], slot[2]) BY DEF Init
  <2> QED BY <2>1
<1> QED
  BY <1>1 DEF Init, IInv, Places, ParsersAgree, MergeDone, OptionsBuilt, ChecksPassed

\* The inputs never change, nor what is computed of them alone.
LEMMA InputsStay ==
  ASSUME UNCHANGED inputs
  PROVE  /\ \A o, k : Setting(o, k)' = Setting(o, k)
         /\ source_for_config' = source_for_config
         /\ \A o : Parsed(o)' = Parsed(o) /\ (Rejects(o)' <=> Rejects(o))
         /\ \A k : Laid(k)' = Laid(k)
         /\ InputsOK' <=> InputsOK
<1>1. \A o, k : Setting(o, k)' = Setting(o, k) BY DEF Setting, inputs
<1>2. source_for_config' = source_for_config BY <1>1 DEF source_for_config
<1>3. \A o : Parsed(o)' = Parsed(o) BY <1>1, <1>2 DEF Parsed
<1>4. \A o : Rejects(o)' <=> Rejects(o) BY <1>3 DEF Rejects
<1>5. \A k : Laid(k)' = Laid(k) BY <1>3 DEF Laid
<1>6. InputsOK' <=> InputsOK BY <1>1 DEF InputsOK
<1> QED BY <1>1, <1>2, <1>3, <1>4, <1>5, <1>6

LEMMA StepInvariant == IInv /\ [Next]_vars => IInv'
<1> SUFFICES ASSUME IInv, [Next]_vars PROVE IInv' OBVIOUS
<1>1. UNCHANGED inputs
  BY DEF Next, vars, inputs, ParseArgs, ReadEnv, LoadConfig, Merge, BuildOptions, RunChecks, Handed
<1>2. InputsOK' BY <1>1, InputsStay DEF IInv
<1> USE DEF IInv, Places, End
<1>3. CASE ParseArgs
  BY <1>1, <1>2, <1>3, InputsStay DEF ParseArgs, ParsersAgree, MergeDone, OptionsBuilt, ChecksPassed
<1>4. CASE ReadEnv
  BY <1>1, <1>2, <1>4, InputsStay DEF ReadEnv, ParsersAgree, MergeDone, OptionsBuilt, ChecksPassed
<1>5. CASE LoadConfig
  BY <1>1, <1>2, <1>5, InputsStay DEF LoadConfig, ParsersAgree, MergeDone, OptionsBuilt, ChecksPassed
<1>6. CASE Merge
  <2>1. merged' = [k \in MERGEABLE_KEYS |-> Laid(k)] BY <1>6 DEF Merge, Laid
  <2>2. MergeDone' BY <1>1, <2>1, InputsStay DEF MergeDone
  <2> QED
    BY <1>1, <1>2, <1>6, <2>2, InputsStay DEF Merge, ParsersAgree, OptionsBuilt, ChecksPassed
<1>7. CASE BuildOptions
  <2>1. merged' = merged /\ options' = ScanOptions(merged) /\ pc = "options"
    BY <1>7 DEF BuildOptions
  <2>2. ScanOptions(merged)' = ScanOptions(merged) BY <2>1
  <2>3. \/ pc' = "exited"
        \/ /\ pc' = "checks" /\ options'["fail_on_secrets"] # Error
           /\ \A k \in THRESHOLD_KEYS : options'[k] # Error
           /\ \A k \in CHOICE_KEYS : options'[k] \in Documented(k)
    BY <1>7 DEF BuildOptions
  <2>4. OptionsBuilt' BY <2>1, <2>2, <2>3 DEF OptionsBuilt
  <2>5. MergeDone' BY <1>1, <2>1, InputsStay DEF MergeDone
  <2>6. ParsersAgree' /\ ChecksPassed' BY <1>1, <2>1, <2>3, InputsStay DEF ParsersAgree, ChecksPassed
  <2> QED BY <1>2, <2>3, <2>4, <2>5, <2>6
<1>8. CASE RunChecks
  <2>1. merged' = merged /\ options' = options /\ UNCHANGED inputs /\ pc = "checks"
    BY <1>8 DEF RunChecks
  <2>2. UsageProblem' <=> UsageProblem
    BY <2>1 DEF inputs, UsageProblem, RulesProblem, WorldProblem, WaiverProblem
  <2>3. pc' = "exited" \/ (pc' = "scan" /\ ~UsageProblem) BY <1>8 DEF RunChecks
  <2>4. MergeDone' BY <2>1, InputsStay DEF MergeDone
  <2>5. ScanOptions(merged)' = ScanOptions(merged) BY <2>1
  <2>6. OptionsBuilt' BY <2>1, <2>5 DEF OptionsBuilt
  <2>7. ParsersAgree' BY <1>1, <2>1, InputsStay DEF ParsersAgree
  <2>8. ChecksPassed' BY <2>2, <2>3 DEF ChecksPassed
  <2> QED BY <1>2, <2>3, <2>4, <2>6, <2>7, <2>8
<1>9. CASE UNCHANGED vars
  <2>1. UNCHANGED <<pc, merged, options, said, world>> BY <1>9 DEF vars, inputs
  <2>2. UsageProblem' <=> UsageProblem
    BY <2>1 DEF UsageProblem, RulesProblem, WorldProblem, WaiverProblem
  <2>3. MergeDone' BY <1>1, <2>1, InputsStay DEF MergeDone
  <2>4. ScanOptions(merged)' = ScanOptions(merged) BY <2>1
  <2>5. OptionsBuilt' BY <2>1, <2>4 DEF OptionsBuilt
  <2>6. ParsersAgree' BY <1>1, <2>1, InputsStay DEF ParsersAgree
  <2>7. ChecksPassed' BY <2>1, <2>2 DEF ChecksPassed
  <2> QED BY <1>2, <2>1, <2>3, <2>5, <2>6, <2>7
<1> QED BY <1>3, <1>4, <1>5, <1>6, <1>7, <1>8, <1>9 DEF Next, Handed

\* What is known at each place of the way to the scanners.
THEOREM InvariantHolds == Spec => []IInv
  BY InitInvariant, StepInvariant, PTL DEF Spec
-------------------------------------------------------------------------------
(* What is merged *)

\* The highest origin that says anything, spelled out.
LEMMA WinnerByPrecedence ==
  ASSUME NEW k
  PROVE  Winner(k) = IF Setting("flag", k) # Absent THEN Setting("flag", k)
                     ELSE IF Setting("env", k) # Absent THEN Setting("env", k)
                     ELSE Setting("file", k)
<1> DEFINE heard == {i \in DOMAIN Origins : Setting(Origins[i], k) # Absent}
           top == CHOOSE i \in heard : \A j \in heard : j <= i
<1>1. /\ DOMAIN Origins = {1, 2, 3}
      /\ Origins[1] = "file" /\ Origins[2] = "env" /\ Origins[3] = "flag"
  BY DEF Origins
<1>2. Winner(k) = IF heard = {} THEN Absent ELSE Setting(Origins[top], k) BY DEF Winner
<1>3. ASSUME NEW i \in heard, \A j \in heard : j <= i PROVE top = i
  <2>1. top \in heard /\ \A j \in heard : j <= top BY <1>3
  <2> QED BY <1>1, <1>3, <2>1
<1>4. 3 \in heard => top = 3 BY <1>1, <1>3
<1>5. 3 \notin heard /\ 2 \in heard => top = 2 BY <1>1, <1>3
<1>6. 3 \notin heard /\ 2 \notin heard /\ 1 \in heard => top = 1 BY <1>1, <1>3
<1>7. /\ 3 \in heard <=> Setting("flag", k) # Absent
      /\ 2 \in heard <=> Setting("env", k) # Absent
      /\ 1 \in heard <=> Setting("file", k) # Absent
      /\ heard = {} <=> 1 \notin heard /\ 2 \notin heard /\ 3 \notin heard
  BY <1>1
<1> HIDE DEF heard, top
<1> QED BY <1>1, <1>2, <1>4, <1>5, <1>6, <1>7

\* No text is one of the marks, and no parser makes nothing of a text.
LEMMA TextsAreTexts ==
  ASSUME NEW o \in OriginNames, NEW k \in MERGEABLE_KEYS, NEW t \in Sayable(o, k)
  PROVE  t # Absent /\ t # Error
  BY DEF OriginNames, MERGEABLE_KEYS, BOOL_KEYS, INT_KEYS, CHOICE_KEYS, THRESHOLD_KEYS, Sayable,
         Documented, Wrong, Absent, Error

LEMMA TextsAreParsed ==
  ASSUME NEW o \in OriginNames, NEW k \in MERGEABLE_KEYS, NEW t \in Sayable(o, k)
  PROVE  Parse(o, k, t) # Absent
<1>1. t # Absent BY TextsAreTexts
<1>2. FlagValue(k, t) # Absent
  BY <1>1 DEF FlagValue, int, normalize_show_findings, str_to_bool, Absent, Error
<1>3. FileValue(k, t) # Absent
  BY <1>1 DEF FileValue, int, timeouts, normalize_show_findings, str_to_bool, parse_fail_on_secrets,
              normalize_opengrep_rules, Absent, Error
<1>4. EnvValue(k, t) # Absent BY <1>3 DEF EnvValue, Absent
<1> QED BY <1>1, <1>2, <1>3, <1>4 DEF Parse, OriginNames

\* A source that does not exist stops the run, so the file that was read is the one
\* beside the source.
LEMMA SourceExists == ASSUME IInv, pc = "scan" PROVE source_for_config # "missing"
<1> SUFFICES ASSUME source_for_config = "missing" PROVE options["source"] # "repo"
  BY DEF IInv, ChecksPassed, UsageProblem
<1>1. "source" \in MERGEABLE_KEYS BY DEF MERGEABLE_KEYS
<1>2. Laid("source") \in {"", "missing"}
  <2>1. \A t : FlagValue("source", t) = t /\ EnvValue("source", t) = t
    BY DEF FlagValue, EnvValue, FileValue, BOOL_KEYS, INT_KEYS, CHOICE_KEYS
  <2>2. Parsed("flag")["source"] = Setting("flag", "source") /\ Parsed("env")["source"] = Setting("env", "source")
    BY <1>1, <2>1 DEF Parsed, Parse
  <2>3. CASE Setting("flag", "source") \notin {"", Absent}
    BY <2>2, <2>3 DEF Laid, source_for_config
  <2>4. CASE Setting("flag", "source") = "" BY <2>2, <2>4 DEF Laid, Absent
  <2>5. CASE Setting("flag", "source") = Absent
    BY <2>2, <2>5 DEF Laid, source_for_config, Absent
  <2> QED BY <2>3, <2>4, <2>5
<1>3. merged["source"] = Laid("source") BY <1>1 DEF IInv, MergeDone
<1>4. options["source"] = Option("source", merged["source"])
  BY <1>1 DEF IInv, OptionsBuilt, ScanOptions
<1>5. Option("source", merged["source"]) = merged["source"]
  BY <1>2, <1>3 DEF Option, OrDefault, BOOL_KEYS, THRESHOLD_KEYS, Absent
<1> QED BY <1>2, <1>3, <1>4, <1>5

\* The value merged for a key is what the highest origin that says anything makes of
\* its text, and that origin accepted it.
LEMMA MergedByPrecedence ==
  ASSUME IInv, pc = "scan", NEW k \in MERGEABLE_KEYS
  PROVE  \/ Winner(k) = Absent /\ merged[k] = Absent
         \/ \E o \in OriginNames : /\ Winner(k) \in Sayable(o, k) /\ Setting(o, k) = Winner(k)
                                   /\ merged[k] = Parse(o, k, Winner(k))
                                   /\ merged[k] # Error
<1>1. merged[k] = Laid(k) BY DEF IInv, MergeDone
<1>2. \A o \in OriginNames : Parsed(o)[k] = Parse(o, k, Setting(o, k))
  BY SourceExists DEF Parsed
<1>3. \A o \in OriginNames : Parsed(o)[k] # Error
  BY DEF IInv, ParsersAgree, Rejects, OriginNames
<1>4. \A o \in OriginNames : Setting(o, k) = Absent <=> Parsed(o)[k] = Absent
  <2> TAKE o \in OriginNames
  <2>1. Setting(o, k) \in Sayable(o, k) \cup {Absent} BY DEF IInv, InputsOK
  <2>2. Parse(o, k, Absent) = Absent BY DEF Parse
  <2> QED BY <1>2, <2>1, <2>2, TextsAreParsed
<1>5. \A o \in OriginNames : Setting(o, k) # Absent => Setting(o, k) \in Sayable(o, k)
  BY DEF IInv, InputsOK
<1>6. "flag" \in OriginNames /\ "env" \in OriginNames /\ "file" \in OriginNames BY DEF OriginNames
<1>7. CASE Setting("flag", k) # Absent
  BY <1>1, <1>2, <1>3, <1>4, <1>5, <1>6, <1>7, WinnerByPrecedence DEF Laid
<1>8. CASE Setting("flag", k) = Absent /\ Setting("env", k) # Absent
  BY <1>1, <1>2, <1>3, <1>4, <1>5, <1>6, <1>8, WinnerByPrecedence DEF Laid
<1>9. CASE Setting("flag", k) = Absent /\ Setting("env", k) = Absent
  <2>1. Winner(k) = Setting("file", k) /\ merged[k] = Parsed("file")[k]
    BY <1>1, <1>4, <1>6, <1>9, WinnerByPrecedence DEF Laid
  <2> QED BY <1>2, <1>3, <1>4, <1>5, <1>6, <2>1
<1> QED BY <1>7, <1>8, <1>9

\* From the merged values to the options.
LEMMA OptionsByKey ==
  ASSUME IInv, pc = "scan", NEW k \in MERGEABLE_KEYS \ {"verify_secrets"}
  PROVE  options[k] = Option(k, merged[k])
  BY DEF IInv, OptionsBuilt, ScanOptions
-------------------------------------------------------------------------------
(* What takes effect *)

\* A documented text means the same wherever it is written.
LEMMA DocumentedMeaning ==
  ASSUME NEW o \in OriginNames, NEW k \in MERGEABLE_KEYS \ {"verify_secrets"},
         NEW t \in Documented(k), t \in Sayable(o, k)
  PROVE  Option(k, Parse(o, k, t)) = Meaning(k, t)
<1> USE DEF OriginNames, BOOL_KEYS, INT_KEYS, CHOICE_KEYS, THRESHOLD_KEYS, Documented, Absent, Error,
            Option, OrDefault, Meaning, Parse, EnvValue
<1>1. CASE k \in BOOL_KEYS BY <1>1 DEF FlagValue, FileValue, str_to_bool
<1>2. CASE k \in INT_KEYS BY <1>2 DEF FlagValue, FileValue, int
<1>3. CASE k \in CHOICE_KEYS BY <1>3 DEF FlagValue, FileValue
<1>4. CASE k \in THRESHOLD_KEYS BY <1>4 DEF FlagValue, FileValue, parse_threshold
<1>5. CASE k = "fail_on_secrets" BY <1>5 DEF FlagValue, FileValue, parse_fail_on_secrets, str_to_bool
<1>6. CASE k = "show_findings" BY <1>6 DEF FlagValue, FileValue, normalize_show_findings, str_to_bool
<1>7. CASE k \in {"tools", "source", "waiver_file", "project_id", "output", "baseline"}
  <2>1. Parse(o, k, t) = t
    <3>1. t # Absent BY <1>7
    <3>2. FlagValue(k, t) = t /\ FileValue(k, t) = t BY <1>7 DEF FlagValue, FileValue
    <3> QED BY <1>7, <3>1, <3>2
  <2>2. CASE k \in {"tools", "source"} BY <2>1, <2>2
  <2>3. CASE k \in {"waiver_file", "project_id"} BY <2>1, <2>3
  <2>4. CASE k \in {"output", "baseline"} BY <2>1, <2>4
  <2> QED BY <1>7, <2>2, <2>3, <2>4
<1>8. CASE k = "tool_timeouts" BY <1>8 DEF FlagValue, FileValue, int, timeouts, Sayable
<1>9. CASE k = "opengrep_rules" BY <1>9 DEF FlagValue, FileValue, normalize_opengrep_rules
<1> QED BY <1>1, <1>2, <1>3, <1>4, <1>5, <1>6, <1>7, <1>8, <1>9 DEF MERGEABLE_KEYS

\* A documented value that wins has the same effect from every origin, whatever is
\* said of the other keys.
THEOREM DocumentedAlwaysTakesEffect == Spec => []DocumentedValuesTakeEffect
<1>1. IInv => DocumentedValuesTakeEffect
  <2> SUFFICES ASSUME IInv, pc = "scan", NEW k \in MERGEABLE_KEYS \ {"verify_secrets"},
                      Winner(k) \in Documented(k)
               PROVE  options[k] = Meaning(k, Winner(k))
    BY DEF DocumentedValuesTakeEffect
  <2>1. Winner(k) # Absent
    BY DEF MERGEABLE_KEYS, BOOL_KEYS, INT_KEYS, CHOICE_KEYS, THRESHOLD_KEYS, Documented, Absent
  <2>2. PICK o \in OriginNames : Winner(k) \in Sayable(o, k) /\ merged[k] = Parse(o, k, Winner(k))
    BY <2>1, MergedByPrecedence
  <2> QED BY <2>2, DocumentedMeaning, OptionsByKey
<1> QED BY <1>1, InvariantHolds, PTL
-------------------------------------------------------------------------------
(* What stops a run *)

\* The keys of which only one text is wrong.
OneWrongText == BOOL_KEYS \cup CHOICE_KEYS \cup {"tools", "output", "fail_on_secrets", "show_findings"}

LEMMA WrongTexts ==
  /\ \A k \in OneWrongText : Wrong(k) = {"bad"}
  /\ \A k \in INT_KEYS : Wrong(k) = {"bad", "-7"}
  /\ \A k \in THRESHOLD_KEYS : Wrong(k) = {"bad", "unknown"}
  /\ Wrong("tool_timeouts") = {"bad", "-7", "bare", "stranger"}
  /\ Wrong("source") = {"missing"} /\ Wrong("baseline") = {"missing"}
  /\ Wrong("opengrep_rules") = {"missing", "auto,rules"}
  /\ Wrong("waiver_file") = {} /\ Wrong("project_id") = {}
  BY DEF Wrong, OneWrongText, BOOL_KEYS, INT_KEYS, CHOICE_KEYS, THRESHOLD_KEYS

LEMMA WrongIsSaid ==
  ASSUME NEW k \in MERGEABLE_KEYS, NEW t \in Wrong(k) PROVE t # Absent /\ t # "" /\ t # "null"
<1> USE WrongTexts DEF Absent
<1>1. CASE k \in OneWrongText BY <1>1
<1>2. CASE k \in INT_KEYS BY <1>2
<1>3. CASE k \in THRESHOLD_KEYS BY <1>3
<1>4. CASE k \in {"tool_timeouts", "source", "baseline", "opengrep_rules", "waiver_file", "project_id"}
  BY <1>4
<1> QED BY <1>1, <1>2, <1>3, <1>4 DEF MERGEABLE_KEYS, OneWrongText

\* The texts that Lenient lets pass, of the keys that are not looked at again.
Accepted(o, k, t) ==
  \/ k \in THRESHOLD_KEYS /\ t = "unknown"
  \/ k \in INT_KEYS \cup {"tool_timeouts"} /\ t \in {"-7", "stranger"}
  \/ k = "tool_timeouts" /\ o = "env" /\ t = "bare"
  \/ k = "baseline"

\* What is left of a wrong text once its parser has accepted it: it is still wrong,
\* and the options or the checks behind them say so.
LEMMA WrongStaysWrong ==
  ASSUME NEW o \in OriginNames, NEW k \in MERGEABLE_KEYS \ {"verify_secrets"},
         NEW t \in Wrong(k), t \in Sayable(o, k), Parse(o, k, t) # Error
  PROVE  \/ Accepted(o, k, t)
         \/ k \in CHOICE_KEYS /\ Option(k, Parse(o, k, t)) \notin Documented(k)
         \/ k \in THRESHOLD_KEYS \cup {"fail_on_secrets"} /\ Option(k, Parse(o, k, t)) = Error
         \/ k \in {"tools", "source", "output", "opengrep_rules"} /\ Option(k, Parse(o, k, t)) = t
<1> USE WrongTexts DEF BOOL_KEYS, INT_KEYS, CHOICE_KEYS, THRESHOLD_KEYS, OneWrongText
<1>1. t # Absent /\ t # "" /\ t # "null" BY WrongIsSaid
<1>2. CASE k = "tool_timeouts"
  <2>1. o # "flag" BY <1>2 DEF Sayable
  <2>2. t \in {"bad", "-7", "bare", "stranger"} BY <1>2
  <2>3. CASE t = "bare" /\ o = "env" BY <1>2, <2>3 DEF Accepted
  <2>4. CASE t = "bad" \/ (t = "bare" /\ o = "file")
    <3>1. FileValue(k, t) = Error BY <1>2, <2>4 DEF FileValue, timeouts, int
    <3>2. Parse(o, k, t) = FileValue(k, t) BY <1>1, <1>2, <2>1, <2>4 DEF Parse, EnvValue, OriginNames
    <3> QED BY <3>1, <3>2
  <2>5. CASE t \in {"-7", "stranger"} BY <1>2, <2>5 DEF Accepted
  <2> QED BY <2>1, <2>2, <2>3, <2>4, <2>5 DEF OriginNames
<1>3. k # "tool_timeouts" => Parse(o, k, t) = IF o = "flag" THEN FlagValue(k, t) ELSE FileValue(k, t)
  BY <1>1 DEF Parse, EnvValue, OriginNames
<1>4. CASE k \in BOOL_KEYS
  <2>1. t = "bad"
    <3>1. k \in OneWrongText BY <1>4
    <3>2. Wrong(k) = {"bad"} BY <3>1, WrongTexts
    <3> QED BY <3>2
  <2>2. o # "flag" BY <1>4, <2>1 DEF Sayable
  <2>3. FileValue(k, t) = Error BY <1>4, <2>1 DEF FileValue, str_to_bool
  <2> QED BY <1>3, <1>4, <2>2, <2>3
<1>5. CASE k \in INT_KEYS
  <2>1. CASE t = "-7" BY <1>5, <2>1 DEF Accepted
  <2>2. CASE t = "bad"
    <3>1. FlagValue(k, t) = Error /\ FileValue(k, t) = Error
      BY <1>5, <2>2 DEF FlagValue, FileValue, int
    <3> QED BY <1>3, <1>5, <3>1
  <2> QED BY <1>5, <2>1, <2>2
<1>6. CASE k \in CHOICE_KEYS
  <2>1. t = "bad" BY <1>6
  <2>2. t \notin Documented(k) BY <1>6, <2>1 DEF Documented
  <2>3. FlagValue(k, t) = Error BY <1>6, <2>2 DEF FlagValue
  <2>4. FileValue(k, t) = t BY <1>6 DEF FileValue
  <2>5. Option(k, t) = t BY <1>1, <1>6 DEF Option, OrDefault
  <2> QED BY <1>3, <1>6, <2>2, <2>3, <2>4, <2>5
<1>7. CASE k \in THRESHOLD_KEYS
  <2>1. CASE t = "unknown" BY <1>7, <2>1 DEF Accepted
  <2>2. CASE t = "bad"
    <3>1. FlagValue(k, t) = t /\ FileValue(k, t) = t BY <1>7 DEF FlagValue, FileValue
    <3>2. Option(k, t) = Error BY <1>7, <2>2 DEF Option, parse_threshold, Absent
    <3> QED BY <1>3, <1>7, <3>1, <3>2
  <2> QED BY <1>7, <2>1, <2>2
<1>8. CASE k = "fail_on_secrets"
  <2>1. t = "bad" BY <1>8
  <2>2. FlagValue(k, t) = t BY <1>8 DEF FlagValue
  <2>3. parse_fail_on_secrets(t) = Error BY <2>1 DEF parse_fail_on_secrets, str_to_bool, Absent, Error
  <2>4. FileValue(k, t) = Error /\ Option(k, t) = Error BY <1>8, <2>3 DEF FileValue, Option
  <2> QED BY <1>3, <1>8, <2>2, <2>4
<1>9. CASE k = "show_findings"
  <2>1. t = "bad" BY <1>9
  <2>2. normalize_show_findings(t) = Error BY <2>1 DEF normalize_show_findings, str_to_bool
  <2>3. FlagValue(k, t) = Error /\ FileValue(k, t) = Error BY <1>9, <2>2 DEF FlagValue, FileValue
  <2> QED BY <1>3, <1>9, <2>3
<1>10. CASE k \in {"tools", "source", "output"}
  <2>1. FlagValue(k, t) = t /\ FileValue(k, t) = t BY <1>10 DEF FlagValue, FileValue
  <2>2. Option(k, t) = t BY <1>1, <1>10 DEF Option, OrDefault, Absent
  <2> QED BY <1>3, <1>10, <2>1, <2>2
<1>11. CASE k = "opengrep_rules"
  <2>1. normalize_opengrep_rules(t) = t BY <1>1 DEF normalize_opengrep_rules
  <2>2. FlagValue(k, t) = t /\ FileValue(k, t) = t /\ Option(k, t) = t
    BY <1>11, <2>1 DEF FlagValue, FileValue, Option
  <2> QED BY <1>3, <1>11, <2>2
<1>12. CASE k \in {"waiver_file", "project_id", "baseline"} BY <1>12 DEF Accepted
<1> QED
  BY <1>2, <1>4, <1>5, <1>6, <1>7, <1>8, <1>9, <1>10, <1>11, <1>12 DEF MERGEABLE_KEYS

\* But for the settings Lenient names, no scanner starts on one that is wrong, however
\* the origins combine and whichever parser sees it.
THEOREM WrongSettingsNeverScan == Spec => []NoScanOnWrongSettings
<1>1. ASSUME IInv, pc = "scan", NEW k \in MERGEABLE_KEYS, Winner(k) \in Wrong(k) PROVE Lenient(k)
  <2>1. Winner(k) # Absent BY <1>1, WrongIsSaid
  <2>2. PICK o \in OriginNames : /\ Winner(k) \in Sayable(o, k) /\ Setting(o, k) = Winner(k)
                                 /\ merged[k] = Parse(o, k, Winner(k)) /\ merged[k] # Error
    BY <1>1, <2>1, MergedByPrecedence
  <2>3. CASE k = "verify_secrets"
    <3>1. Winner(k) = "bad" BY <1>1, <2>3, WrongTexts DEF OneWrongText, BOOL_KEYS
    <3>2. o # "flag"
      <4>1. "bad" \in Sayable(o, "verify_secrets") BY <2>2, <2>3, <3>1
      <4>2. Sayable("flag", "verify_secrets") = {"on"} BY DEF Sayable, BOOL_KEYS
      <4> QED BY <4>1, <4>2
    <3>3. FileValue(k, "bad") = Error BY <2>3 DEF FileValue, str_to_bool, BOOL_KEYS, INT_KEYS, Error
    <3>4. Parse(o, k, "bad") = FileValue(k, "bad")
      BY <2>3, <3>2 DEF Parse, EnvValue, OriginNames, Absent
    <3> QED BY <2>2, <3>1, <3>3, <3>4
  <2>4. CASE k # "verify_secrets"
    <3>1. k \in MERGEABLE_KEYS \ {"verify_secrets"} BY <1>1, <2>4
    <3>2. options[k] = Option(k, Parse(o, k, Winner(k))) BY <1>1, <2>2, <3>1, OptionsByKey
    <3>3. /\ options["fail_on_secrets"] # Error /\ \A c \in THRESHOLD_KEYS : options[c] # Error
          /\ \A c \in CHOICE_KEYS : options[c] \in Documented(c)
      BY <1>1 DEF IInv, OptionsBuilt
    <3>4. /\ options["source"] = "repo" /\ options["tools"] \in Documented("tools")
          /\ options["output"] \in Documented("output") /\ ~RulesProblem
      BY <1>1 DEF IInv, ChecksPassed, UsageProblem
    <3>5. Documented("tools") = {"all", "grype"} /\ Documented("output") = {"html", "json"}
      BY DEF Documented, BOOL_KEYS, INT_KEYS, THRESHOLD_KEYS
    <3>6. CASE k \in {"tools", "source", "output"} /\ options[k] = Winner(k)
      BY <1>1, <3>4, <3>5, <3>6, WrongTexts DEF OneWrongText
    <3>7. CASE k = "opengrep_rules" /\ options[k] = Winner(k)
      BY <1>1, <3>4, <3>5, <3>7 DEF RulesProblem, Lenient
    <3>8. CASE Accepted(o, k, Winner(k)) BY <2>2, <3>8 DEF Accepted, Lenient
    <3> QED BY <1>1, <2>2, <3>1, <3>2, <3>3, <3>6, <3>7, <3>8, WrongStaysWrong
  <2> QED BY <2>3, <2>4
<1>2. ASSUME IInv, pc = "scan", Winner("waiver_file") = "custom" PROVE "custom" \in world.waivers
  <2>1. "waiver_file" \in MERGEABLE_KEYS \ {"verify_secrets"} /\ "custom" \in Documented("waiver_file")
    BY DEF MERGEABLE_KEYS, Documented, BOOL_KEYS, INT_KEYS, THRESHOLD_KEYS
  <2>2. PICK o \in OriginNames : /\ "custom" \in Sayable(o, "waiver_file")
                                 /\ merged["waiver_file"] = Parse(o, "waiver_file", "custom")
    BY <1>2, <2>1, MergedByPrecedence DEF Absent
  <2>3. options["waiver_file"] = Meaning("waiver_file", "custom")
    BY <1>2, <2>1, <2>2, OptionsByKey, DocumentedMeaning
  <2>4. options["waiver_file"] = "custom" BY <2>3 DEF Meaning
  <2>5. ~WaiverProblem BY <1>2 DEF IInv, ChecksPassed, UsageProblem
  <2> QED BY <2>4, <2>5 DEF WaiverProblem
<1>3. IInv => NoScanOnWrongSettings BY <1>1, <1>2 DEF NoScanOnWrongSettings
<1> QED BY <1>3, InvariantHolds, PTL

\* No run starts on switches that defeat each other, whichever origins they come from.
THEOREM SwitchesAlwaysAgree == Spec => []SwitchesAgree
<1>1. ASSUME IInv, pc = "scan", options["fail_on_secrets"] = "verified"
      PROVE  options["verify_secrets"] = "on"
  <2>1. options = ScanOptions(merged) BY <1>1 DEF IInv, OptionsBuilt
  <2>2. options["fail_on_secrets"] = parse_fail_on_secrets(merged["fail_on_secrets"])
    BY <2>1 DEF ScanOptions, Option, MERGEABLE_KEYS, BOOL_KEYS, THRESHOLD_KEYS
  <2> QED BY <1>1, <2>1, <2>2 DEF ScanOptions, MERGEABLE_KEYS, BOOL_KEYS, THRESHOLD_KEYS
<1>2. ASSUME IInv, pc = "scan" PROVE ~(options["grype_db"] = "offline" /\ options["always_update"] = "on")
  BY <1>2 DEF IInv, ChecksPassed, UsageProblem
<1>3. IInv => SwitchesAgree BY <1>1, <1>2 DEF SwitchesAgree, VerifiedGateVerifies, OfflineNeverUpdates
<1> QED BY <1>3, InvariantHolds, PTL
===============================================================================
