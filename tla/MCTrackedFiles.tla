---------------------------- MODULE MCTrackedFiles ----------------------------
(***************************************************************************)
(* TLC instance of TrackedFiles: two directories, one of them with two     *)
(* paths, so that the second relies on the check made for the first, and   *)
(* a submodule.                                                            *)
(***************************************************************************)
EXTENDS TrackedFiles

MCPaths == {"d/p", "d/q", "e/p", "d/submodule"}
MCGitlinks == {"d/submodule"}
MCDirs == {"d", "e"}
MCParent == [p \in MCPaths |-> IF p = "e/p" THEN "e" ELSE "d"]
MCElsewhere ==
  {[kind |-> "file", inode |-> 0, outside |-> TRUE], [kind |-> "file", inode |-> 1, outside |-> TRUE],
   [kind |-> "link", inode |-> 0, outside |-> TRUE]}
MCKinds == {"file", "link", "fifo", "absent"}
===============================================================================
