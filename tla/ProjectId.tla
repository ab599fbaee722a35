------------------------------ MODULE ProjectId -------------------------------
(***************************************************************************)
(* The project identity fingerprints are tied to: derived from an override,*)
(* the git remote or the first commit (utils/project_id.py), and the key   *)
(* every fingerprint is computed with (fingerprints/registry.py).          *)
(*                                                                         *)
(* A remote is [form, user, host, port, git, path]: `form` is how the URL  *)
(* is written, `host` a name with its capitals ([name, upper]), `user` and *)
(* `port` are NoText when the URL has none, `git` tells whether it ends in *)
(* .git.  A project id is a sequence, never empty, whose first element     *)
(* tells the kinds apart.                                                  *)
(***************************************************************************)
EXTENDS Naturals, Sequences

NoText == ""
NoProject == <<>>

\* http: http[s]://[user@]host[:port]/path      scp: git@host:[port:]path
\* bare: host/path                              ssh: ssh://[user@]host[:port]/path
Forms == {"http", "scp", "bare", "ssh"}

\* Mutant of normalize_git_remote: credentials and port stay in the id.
Mutant_normalize_git_remote(r) == <<"remote", r.user, r.host.name, r.port, r.path>>

\* Only `http://`, `https://` and `git@` are taken apart: anything else counts
\* as normalised already and keeps its scheme, user, port and, after a scheme,
\* the capitals of its host.
normalize_git_remote(r) ==
  IF r.form = "ssh"
  THEN <<"as written", r.user, r.host, r.port, r.path>>
  ELSE <<"remote", r.host.name, r.path>>

\* `repo` is [git, remote, initial]: remote is a set of at most one remote and
\* initial the first commit, NoText before there is one.
get_initial_commit_hash(repo) ==
  IF repo.git /\ repo.initial # NoText THEN <<"commit", repo.initial>> ELSE NoProject

\* NoProject stands for the ValueError that ends the run before it scans.
derive_project_id(repo, override) ==
  IF override # NoText THEN <<"override", override>>
  ELSE IF ~repo.git THEN NoProject
  ELSE IF repo.remote # {} THEN normalize_git_remote(CHOOSE r \in repo.remote : TRUE)
  ELSE get_initial_commit_hash(repo)

\* DSOB_PROJECT_HMAC_KEY replaces the key derived from the project id.
resolve_project_key(project, environment_key) ==
  IF environment_key # NoText THEN <<"environment", environment_key>> ELSE <<"derived", project>>
===============================================================================
