------------------------------ MODULE MCFindings ------------------------------
(***************************************************************************)
(* TLC instance of Findings: one repository, and machines that differ from *)
(* the first in a few things each.                                         *)
(***************************************************************************)
EXTENDS Findings, TLC

f == <<"f">>
h == <<"h">>
MCNewNames == {h, <<"src", "f">>, <<".f">>}

MCTrees ==
  {f :> <<"bad", "key">>,
   (f :> <<"key">>) @@ (h :> <<"pin", "k-e-y">>),
   (f :> <<"pkg", "lib">>) @@ (<<"src", "g">> :> <<"?">>),
   f :> <<"bad", "worse", "bad">>}

Rule(dir, name, id) == [dir |-> dir, name |-> name, id |-> id]
R == Rule(<<"python">>, "r.yaml", <<"r">>)
S1 == Rule(<<"python">>, "s.yaml", <<"s">>)
S2 == Rule(<<"java">>, "s.yaml", <<"s">>)
Dotted == Rule(<<"java">>, "r.yaml", <<"python", "r">>)
Flat == Rule(<<>>, "r.yaml", <<"python", "r">>)

Remote(form, user, upper, port) ==
  [form |-> form, user |-> user, host |-> [name |-> "host", upper |-> upper], port |-> port, path |-> "team/app"]
Repo(remotes) == [git |-> TRUE, remote |-> remotes, initial |-> "c1"]

Here ==
  [cwd |-> <<"/", "home", "src">>, source |-> <<".">>, eol |-> 1, project_id |-> "", key |-> "",
   repo |-> Repo({Remote("scp", "git", FALSE, "")}), mount |-> <<"rules">>, rules |-> {R, S1, S2},
   db |-> [severity |-> "High", fix |-> "2"]]

\* With an override, the way the remote is written no longer matters.
Override ==
  [Here EXCEPT !.project_id = "app", !.source = <<"/", "home", "src">>, !.rules = {R, S1, Dotted},
               !.repo = Repo({Remote("ssh", "git", FALSE, "22")})]
MCMachines ==
  {Here,
   [Here EXCEPT !.cwd = <<"/", "home">>, !.source = <<"src">>, !.mount = <<"home", "rules">>, !.eol = 2,
                !.repo = Repo({Remote("http", "token", TRUE, "8443")})],
   [Here EXCEPT !.cwd = <<"/", "home">>, !.source = <<"code", "src">>, !.rules = {Flat, S1},
                !.db = [severity |-> "Unknown", fix |-> ""]],
   Override,
   [Override EXCEPT !.repo = [git |-> FALSE, remote |-> {}, initial |-> ""],
                    !.cwd = <<"/", "home">>, !.source = <<"/", "home">>, !.rules = {Flat}]}
===============================================================================
