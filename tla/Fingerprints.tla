----------------------------- MODULE Fingerprints -----------------------------
(***************************************************************************)
(* The fingerprints of a finding (fingerprints/*.py) and its repo-relative *)
(* path (reporting/fields.py), as operators.                               *)
(*                                                                         *)
(* A path is a sequence of names, "/" first when it is absolute.  A file is*)
(* a sequence of lines, a line one token.  `tree` maps the files there are,*)
(* as paths under the source, to their text.  A machine `m` is a record    *)
(* with at least cwd, source (as given to --source) and eol, the bytes its *)
(* checkout ends a line with.                                              *)
(*                                                                         *)
(* A fingerprint is the tuple of what its text is made of, with what is    *)
(* hashed in place of the hash: <<tool, version, tier, rule, ..., hint>>.  *)
(* A raw finding is [tool, check_id, original_check_id, path, line, match, *)
(* commit, ...]: `match` is the secret, the code or the package, `commit`  *)
(* is 0 for a finding in the working tree.                                 *)
(***************************************************************************)
EXTENDS Naturals, FiniteSets, Sequences, SequencesExt

NoText == ""

CURRENT_FP_VERSION == [trufflehog |-> 1, opengrep |-> 2, grype |-> 1, checkov |-> 1]
EMIT_LEGACY_VERSIONS == [trufflehog |-> {}, opengrep |-> {1}, grype |-> {}, checkov |-> {}]

\* registry.parse_fingerprint
parse_fingerprint(fp) == [tool |-> fp[1], version |-> fp[2], tier |-> fp[3]]

-------------------------------------------------------------------------------
(* Paths *)

IsAbsolute(path) == path # <<>> /\ path[1] = "/"

\* os.path.join and os.path.abspath
Join(root, path) ==
  IF IsAbsolute(path) \/ root = <<".">> THEN path ELSE root \o path
AbsPath(m, path) ==
  IF IsAbsolute(path) THEN path ELSE IF path = <<".">> THEN m.cwd ELSE m.cwd \o path

\* The file of the source that a path leads to, as a set of at most one.
FileAt(m, tree, path) ==
  {f \in DOMAIN tree : AbsPath(m, m.source) \o f = AbsPath(m, path)}
Exists(m, tree, path) == FileAt(m, tree, path) # {}

\* How a tool that walks the source spells a file of it.
Spelled(m, file) == Join(m.source, file)

\* Without leading slashes.
unrooted(path) == IF IsAbsolute(path) THEN Tail(path) ELSE path

\* Without leading dots.
undotted(name) == IF name = ".f" THEN "f" ELSE name

\* Mutant of path_norm_sha: the directories are left out.
Mutant_path_norm_sha(path) == <<Last(path)>>

\* Hashed are paths without leading slashes and dots.
path_norm_sha(path) == [unrooted(path) EXCEPT ![1] = undotted(@)]

\* Mutant of relativize_path: only absolute paths are made relative.
Mutant_relativize_path(m, tree, path) ==
  LET root == AbsPath(m, m.source)
  IN IF IsAbsolute(path) /\ IsPrefix(root, path) THEN SubSeq(path, Len(root) + 1, Len(path)) ELSE path

\* An absolute path without its slash, an absolute path under the source, a path
\* rooted at the source, and a path that starts with the source's own name.
relativize_path(m, tree, path) ==
  LET root == AbsPath(m, m.source)
      slashed == <<"/">> \o path
      text == IF ~IsAbsolute(path) /\ ~Exists(m, tree, Join(m.source, path)) /\ Exists(m, tree, slashed)
              THEN slashed ELSE path
      inside == IF IsAbsolute(text) /\ IsPrefix(root, text) THEN SubSeq(text, Len(root) + 1, Len(text))
                ELSE text
      bare == unrooted(inside)
  IN IF IsAbsolute(inside) /\ ~Exists(m, tree, inside) /\ Exists(m, tree, Join(m.source, bare))
     THEN bare
     ELSE IF /\ ~Exists(m, tree, Join(m.source, inside))
             /\ Len(bare) > 1 /\ bare[1] = Last(root)
             /\ Exists(m, tree, Join(m.source, Tail(bare)))
          THEN Tail(bare)
          ELSE inside

-------------------------------------------------------------------------------
(* Text *)

\* Mutant of file_sha: the content is left out.
Mutant_file_sha(text) == <<>>

\* Line ends are normalised before hashing.
file_sha(text) == text

\* Where a line starts, in bytes of this machine's checkout; past the last
\* line, the end of the file.
ByteOffset(m, text, line) ==
  (IF line \in DOMAIN text THEN line - 1 ELSE Len(text)) * (1 + m.eol)
ByteEnd(m, text, line) ==
  ByteOffset(m, text, line) + (IF line \in DOMAIN text THEN 1 ELSE 0)

\* The surroundings of a line, itself cut out.
LineAt(text, i) == IF i \in DOMAIN text THEN <<text[i]>> ELSE <<>>
context_hash(text, line) ==
  LET at == IF line \in DOMAIN text THEN line ELSE Len(text) + 1
  IN LineAt(text, at - 1) \o <<"<redacted>">> \o LineAt(text, at + 1)

-------------------------------------------------------------------------------
(* trufflehog *)

\* "k-e-y" and "key" are one secret: separators do not count.
normalize_secret(candidate) == IF candidate = "k-e-y" THEN "key" ELSE candidate
candidate_variants(candidate) == <<candidate, normalize_secret(candidate)>>

\* The first line with the first variant found anywhere: the line the finding
\* names is looked at only when no variant is in the file as it stands.
FirstLine(text, token) ==
  {i \in DOMAIN text : text[i] = token /\ \A j \in 1..(i - 1) : text[j] # token}
find_span_in_file(text, candidate) ==
  LET variants == candidate_variants(candidate)
      asWritten == FirstLine(text, variants[1])
  IN IF asWritten # {} THEN asWritten ELSE FirstLine(text, variants[2])

\* Bytes of the file a git finding names: the working tree's if the commit is
\* checked out, changed or not, else the commit's.
read_file_bytes_from_git_finding(m, tree, commits, raw) ==
  IF raw.commit = Len(commits) /\ Exists(m, tree, Join(m.source, raw.path))
  THEN {tree[raw.path]} ELSE {commits[raw.commit][raw.path]}

\* No bytes when the path, joined to the source it already starts with, leads nowhere.
read_file_bytes_generic(m, tree, commits, raw) ==
  IF raw.commit > 0 THEN read_file_bytes_from_git_finding(m, tree, commits, raw)
  ELSE {tree[f] : f \in FileAt(m, tree, Join(m.source, raw.path))}

trufflehog_path_used(m, raw) == IF raw.commit > 0 THEN raw.path ELSE Join(m.source, raw.path)

trufflehog_fingerprints(m, tree, commits, project, key, raw) ==
  LET read == read_file_bytes_generic(m, tree, commits, raw)
      text == CHOOSE t \in read : TRUE
      span == find_span_in_file(text, raw.match)
      line == CHOOSE i \in span : TRUE
      path == path_norm_sha(trufflehog_path_used(m, raw))
      secret == <<"trufflehog", 1, "SECRET", raw.check_id, key, normalize_secret(raw.match), project>>
  IN IF raw.match = NoText THEN {}
     ELSE IF read = {} THEN {secret}
     ELSE IF span = {}
          THEN {secret, <<"trufflehog", 1, "CTXSOFT", raw.check_id, path, file_sha(text), raw.line>>}
     ELSE {secret,
           <<"trufflehog", 1, "EXACT", raw.check_id, file_sha(text), ByteOffset(m, text, line),
             ByteEnd(m, text, line), project>>,
           <<"trufflehog", 1, "CTX", raw.check_id, path, context_hash(text, line), project>>}

-------------------------------------------------------------------------------
(* opengrep *)

\* Mutant of rule_id_for_version: every version hashes the id in the payload.
Mutant_rule_id_for_version(raw, version) == raw.check_id

\* Version 1 hashes the id as OpenGrep reported it.
rule_id_for_version(raw, version) ==
  IF version = 1 /\ raw.original_check_id # <<>> THEN raw.original_check_id ELSE raw.check_id

\* fingerprint_tiers, with the unlocatable finding whose file cannot be read.
opengrep_fingerprints(m, tree, project, key, raw, version) ==
  LET read == FileAt(m, tree, Join(m.source, raw.path))
      text == tree[CHOOSE f \in read : TRUE]
      path == path_norm_sha(raw.path)
      id == rule_id_for_version(raw, version)
      rule == <<"opengrep", version, "RULE", id, key, raw.match, project>>
  IN IF read = {}
     THEN {rule, <<"opengrep", version, "EXACT", id, "<unlocatable>">>,
           <<"opengrep", version, "CTX", id, path, "<unlocatable>">>}
     ELSE {rule,
           <<"opengrep", version, "EXACT", id, file_sha(text), ByteOffset(m, text, raw.line),
             ByteEnd(m, text, raw.line), project>>,
           <<"opengrep", version, "CTX", id, path, context_hash(text, raw.line), project>>}

-------------------------------------------------------------------------------
(* checkov *)

\* A uri that starts with the source as given is made relative to it; the
\* SARIF of an absolute source has no leading slash, so its uri never does.
checkov_rel_path(m, uri) ==
  IF m.source # <<".">> /\ IsPrefix(m.source, uri)
  THEN SubSeq(uri, Len(m.source) + 1, Len(uri)) ELSE uri

checkov_fingerprints(m, project, key, raw) ==
  LET path == path_norm_sha(checkov_rel_path(m, raw.path))
  IN {<<"checkov", 1, "RULE", raw.check_id, key, path, project>>,
      <<"checkov", 1, "EXACT", raw.check_id, path, raw.line, project>>,
      <<"checkov", 1, "CTX", raw.check_id, path, raw.match, project>>}

-------------------------------------------------------------------------------
(* grype *)

\* EXACT covers the source as given; CTX the severity and the fix of the
\* vulnerability database.
grype_fingerprints(m, project, key, raw) ==
  {<<"grype", 1, "PKG", raw.check_id, key, raw.match, project>>,
   <<"grype", 1, "EXACT", raw.check_id, m.source, path_norm_sha(raw.path), raw.match, project>>,
   <<"grype", 1, "CTX", raw.check_id, raw.match, raw.severity, raw.fix, project>>}
===============================================================================
