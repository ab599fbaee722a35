------------------------------- MODULE Waivers -------------------------------
(***************************************************************************)
(* Waiver documents and what they do to a finding: loading (models.py,     *)
(* loader.py), the waiver engine (apply.py) and the baseline (baseline.py),*)
(* as operators.                                                           *)
(*                                                                         *)
(* An entry is [key, expires, tools]: `key` is the fingerprint, or for a   *)
(* path exclusion the set of paths its pattern matches; `expires` is a day *)
(* or NoDate; `tools` is the scope, {} when the file has none.  A finding  *)
(* is [tool, fingerprints, primary, legacy, paths].                        *)
(***************************************************************************)
EXTENDS Integers, FiniteSets, Sequences

NoDate == -1

Sections == {"finding_waivers", "benchmark", "path_exclusions"}

Versions == {"1.0", "1.1"}

\* fields.TOOL_CATEGORY
tool_category == [trufflehog |-> "secret", opengrep |-> "sast", syft |-> "sbom",
                  grype |-> "sca", checkov |-> "iac"]

Tools == DOMAIN tool_category
Scopes == {"all"} \cup Tools \cup {tool_category[t] : t \in Tools}

\* A file without a word in it: what an interrupted write leaves.  A missing
\* schema_version is taken for the oldest.
EmptyDocument ==
  [version |-> "1.0", finding_waivers |-> <<>>, benchmark |-> <<>>,
   path_exclusions |-> <<>>, benchmark_expires_at |-> NoDate]

-------------------------------------------------------------------------------
(* Loading *)

\* load_waiver_data accepts the document.  Schema 1.0 has no `tools` on a
\* finding waiver, so there it is an unknown key and nobody looks at its value.
Loads(doc) ==
  /\ doc.version = "1.1" =>
       \A i \in DOMAIN doc.finding_waivers : doc.finding_waivers[i].tools \subseteq Scopes
  /\ \A i \in DOMAIN doc.path_exclusions : doc.path_exclusions[i].tools \subseteq Scopes

Unscoped(entries) == [i \in DOMAIN entries |-> [entries[i] EXCEPT !.tools = {}]]

\* to_waiver_set.  From a 1.0 file the scope of finding waivers and the
\* benchmark-wide expiry are dropped; benchmark entries keep their extra keys.
to_waiver_set(doc) ==
  IF doc.version = "1.1" THEN doc
  ELSE [doc EXCEPT !.finding_waivers = Unscoped(@), !.benchmark_expires_at = NoDate]

-------------------------------------------------------------------------------
(* The engine *)

entry_applies_to_tool(tools, tool) ==
  tools = {} \/ tools \cap {"all", tool, tool_category[tool]} # {}

Refs(ws) == UNION {{s} \X DOMAIN ws[s] : s \in Sections}
Entry(ws, ref) == ws[ref[1]][ref[2]]

\* The date that counts for an entry: a benchmark-wide expiry applies when the
\* entry has none or a later one.
Expiry(ws, ref) ==
  LET own == Entry(ws, ref).expires
      all == ws.benchmark_expires_at
  IN IF ref[1] = "benchmark" /\ all # NoDate /\ (own = NoDate \/ all < own) THEN all ELSE own

\* _expiry_state: past the date, and past the grace period too.
Expired(date, now, grace) == date # NoDate /\ date <= now /\ now >= date + grace

\* Entries that match a finding, expired or not: by any of its fingerprints,
\* current or legacy, or because the pattern matches every path it points at.
matches_for(ws, f) ==
  {ref \in Refs(ws) :
     /\ entry_applies_to_tool(Entry(ws, ref).tools, f.tool)
     /\ IF ref[1] = "path_exclusions"
        THEN f.paths # {} /\ f.paths \subseteq Entry(ws, ref).key
        ELSE Entry(ws, ref).key \in f.fingerprints \cup f.legacy}

\* decide finds an active match.
Waived(ws, f, now, grace) ==
  \E ref \in matches_for(ws, f) : ~Expired(Expiry(ws, ref), now, grace)

\* Mutant of unused_refs: only one match per finding counts as used.
Mutant_unused_refs(ws, fs) ==
  Refs(ws) \ UNION {{CHOOSE ref \in matches_for(ws, f) : TRUE} : f \in {g \in fs : matches_for(ws, g) # {}}}

\* Entries that matched nothing, active or expired, in a run that reported `fs`.
unused_refs(ws, fs) == Refs(ws) \ UNION {matches_for(ws, f) : f \in fs}

-------------------------------------------------------------------------------
(* The baseline *)

baseline_fingerprints(ws) ==
  {ws.benchmark[i].key : i \in DOMAIN ws.benchmark} \cup
  {ws.finding_waivers[i].key : i \in DOMAIN ws.finding_waivers}

\* classify: any fingerprint, current or legacy; expiry and scope are not looked at.
Known(ws, f) == (f.fingerprints \cup f.legacy) \cap baseline_fingerprints(ws) # {}
===============================================================================
