------------------------------- MODULE ScanPlan -------------------------------
(***************************************************************************)
(* What `run._schedule` promises its caller, without the thread pool: each *)
(* selected tool is given exactly one final outcome, a tool is launched    *)
(* only when the tools it depends on have answered, and a tool is skipped  *)
(* only under --fail_fast and only behind a failure.                       *)
(***************************************************************************)
CONSTANTS Tools,      \* registered scanners
          DependsOn   \* [Tools -> SUBSET Tools], ScannerSpec.depends_on

VARIABLES selected,   \* the tools of this run
          failFast,   \* --fail_fast
          progress    \* progress[t]: what became of tool t

planVars == <<selected, failFast, progress>>

Answered == {"ok", "failed"}
Final == Answered \cup {"skipped"}

Init ==
  /\ selected \in (SUBSET Tools) \ {{}}
  /\ failFast \in BOOLEAN
  /\ progress = [t \in Tools |-> "waiting"]

Launch(t) ==
  /\ t \in selected
  /\ progress[t] = "waiting"
  /\ \A d \in DependsOn[t] \cap selected : progress[d] \in Answered
  /\ progress' = [progress EXCEPT ![t] = "running"]
  /\ UNCHANGED <<selected, failFast>>

Answer(t) ==
  /\ progress[t] = "running"
  /\ \E status \in Answered : progress' = [progress EXCEPT ![t] = status]
  /\ UNCHANGED <<selected, failFast>>

\* Tools that have not been launched are given up together.
Skip ==
  /\ failFast
  /\ \E t \in selected : progress[t] = "failed"
  /\ \E S \in SUBSET {t \in selected : progress[t] = "waiting"} :
       /\ S # {}
       /\ progress' = [t \in Tools |-> IF t \in S THEN "skipped" ELSE progress[t]]
  /\ UNCHANGED <<selected, failFast>>

Next == Skip \/ \E t \in Tools : Launch(t) \/ Answer(t)

SafeSpec == Init /\ [][Next]_planVars

Done == \A t \in selected : progress[t] \in Final

\* Weak fairness of the plan as a whole: while some tool has no outcome, some
\* step is taken.
Spec == SafeSpec /\ WF_planVars(Next)
===============================================================================
