--------------------------- MODULE MCRuntimeConfig ----------------------------
(***************************************************************************)
(* TLC instance of RuntimeConfig: any two settings by any origins on a     *)
(* machine where all is well, and any one setting on a machine with        *)
(* something missing.                                                      *)
(***************************************************************************)
EXTENDS RuntimeConfig

Well == [workTree |-> TRUE, project |-> TRUE, path |-> TRUE,
         waivers |-> {"custom"}, loads |-> TRUE]

Unwell ==
  {[Well EXCEPT !.workTree = FALSE], [Well EXCEPT !.project = FALSE], [Well EXCEPT !.path = FALSE],
   [Well EXCEPT !.waivers = {}], [Well EXCEPT !.waivers = {"default"}],
   [Well EXCEPT !.waivers = {"default", "custom"}, !.loads = FALSE]}

Said(slots, w) == [slots |-> slots, world |-> w]

MCSituations ==
  {Said({s, t}, Well) : s, t \in Slots} \cup {Said({s}, w) : s \in Slots, w \in Unwell}
===============================================================================
