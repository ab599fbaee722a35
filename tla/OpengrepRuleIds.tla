--------------------------- MODULE OpengrepRuleIds ----------------------------
(***************************************************************************)
(* Bare rule ids for findings from local OpenGrep rules                    *)
(* (scanners/sast/opengrep_rule_ids.py).  A rule is [dir, name, id]: the   *)
(* directory under the configured source, the file's name, and the id, a   *)
(* sequence of the words between its dots.  OpenGrep reports               *)
(* mount.dir.id, where `mount` is the place of the source on this machine. *)
(***************************************************************************)
EXTENDS Naturals, FiniteSets, Sequences, SequencesExt

RuleFile(rule) == <<rule.dir, rule.name>>

\* What OpenGrep puts in `check_id` for a rule loaded from a local source.
CheckId(mount, rule) == mount \o rule.dir \o rule.id

\* Mutant of local_rule_ids: an id defined in several files counts as unique.
Mutant_local_rule_ids(rules) == [unique |-> {r.id : r \in rules}, duplicated |-> {}]

\* Ids of one rule file only, and ids of several.
FilesOf(id, rules) == {RuleFile(r) : r \in {q \in rules : q.id = id}}
local_rule_ids(rules) ==
  LET ids == {r.id : r \in rules}
      duplicated == {id \in ids : Cardinality(FilesOf(id, rules)) > 1}
  IN [unique |-> ids \ duplicated, duplicated |-> duplicated]

\* The longest known id that check_id ends with; {} when there is none.
bare_rule_id(check_id, ids) ==
  LET known == {id \in ids : IsSuffix(id, check_id)}
  IN {id \in known : \A other \in known : Len(other) <= Len(id)}

\* One result: the bare id takes the place of the reported one, which stays on
\* the result as original_check_id (<<>> when nothing was replaced).
strip_rule_id_prefixes(result, rules) ==
  LET bare == bare_rule_id(result.check_id, local_rule_ids(rules).unique)
  IN IF bare = {} \/ bare = {result.check_id} THEN result
     ELSE [result EXCEPT !.check_id = CHOOSE id \in bare : TRUE,
                         !.original_check_id = result.check_id]
===============================================================================
