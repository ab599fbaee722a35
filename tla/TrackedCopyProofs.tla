-------------------------- MODULE TrackedCopyProofs ---------------------------
(***************************************************************************)
(* The safety properties of TrackedCopy, for every set of scanners, every  *)
(* dependency relation and every number of signals.                        *)
(***************************************************************************)
EXTENDS TrackedCopy, TLAPS

\* What the main thread's place says of the copy.
CopyByPlace ==
  /\ pc = "enter" => copy = "none"
  /\ pc = "made" => copy = "empty"
  /\ pc \in {"handover", "schedule", "drain"} => copy = "whole"
  /\ pc = "tail" => copy = "none"
  /\ pc \in {"exiting", "exited"} /\ struck \cap Windows = {} => copy = "none"

\* Tools are submitted in the scheduling loop, and only submitted tools run.
PoolByPlace ==
  /\ pc \in {"enter", "made", "copying", "undo", "handover"} => submitted = {}
  /\ \A t \in Tools : progress[t] = "running" => t \in submitted

\* It takes two SIGTERMs to be past the pool with a scanner still in flight.
SignalCount ==
  /\ pc = "drain" => signals >= 1
  /\ pc \in {"cleanup", "tail", "exiting"} => signals >= 2 \/ InFlight = {}
  /\ torn # {} => signals >= 2

\* Without a pending exception the scheduling loop was left at its end; undoing a
\* copy and draining the pool happen behind one.
NormalEnd ==
  /\ pc \in {"undo", "drain"} => ending # 0
  /\ pc = "cleanup" /\ ending = 0 => \A t \in selected : progress[t] \in Plan!Final
  /\ pc = "tail" \/ exitCode = "run" =>
       ending = 0 /\ \A t \in selected : progress[t] \in Plan!Final
  /\ ending = 0 => torn = {} /\ pc # "exiting"
  /\ exitCode = "run" => pc = "exited"

IInv == TypeOK /\ CopyByPlace /\ PoolByPlace /\ SignalCount /\ NormalEnd

USE DEF Places, Windows, Plan!Answered, Plan!Final

LEMMA InitIInv == ASSUME CopyAssumption, Init PROVE IInv
  BY DEF CopyAssumption, Init, Plan!Init, IInv, TypeOK, CopyByPlace, PoolByPlace, SignalCount,
         NormalEnd, InFlight

\* The steps of create and the assignment of its result.
LEMMA CreateIInv ==
  ASSUME IInv, MakeDir \/ EnterTry \/ CopyFiles \/ CopyFails \/ Undo \/ Bind PROVE IInv'
<1> USE DEF IInv, TypeOK, CopyByPlace, PoolByPlace, SignalCount, NormalEnd, InFlight,
            planVars, signalVars, Goto, Raise
<1>1. CASE MakeDir   BY <1>1 DEF MakeDir
<1>2. CASE EnterTry  BY <1>2 DEF EnterTry
<1>3. CASE CopyFiles BY <1>3 DEF CopyFiles
<1>4. CASE CopyFails BY <1>4 DEF CopyFails
<1>5. CASE Undo      BY <1>5 DEF Undo
<1>6. CASE Bind      BY <1>6 DEF Bind
<1> QED BY <1>1, <1>2, <1>3, <1>4, <1>5, <1>6

LEMMA SubmitIInv == ASSUME IInv, NEW t \in Tools, Submit(t) PROVE IInv'
  BY DEF IInv, TypeOK, CopyByPlace, PoolByPlace, SignalCount, NormalEnd, InFlight,
         planVars, mainVars, signalVars, Submit

LEMMA SkipRestIInv == ASSUME IInv, SkipRest PROVE IInv'
<1> USE DEF SkipRest, Plan!Skip, mainVars, signalVars
<1>1. PICK S \in SUBSET {t \in selected : progress[t] = "waiting"} :
        progress' = [t \in Tools |-> IF t \in S THEN "skipped" ELSE progress[t]]
  OBVIOUS
<1>2. TypeOK' BY <1>1 DEF IInv, TypeOK
<1>3. CopyByPlace' BY DEF IInv, CopyByPlace
<1>4. PoolByPlace' BY <1>1 DEF IInv, TypeOK, PoolByPlace
<1>5. (SignalCount /\ NormalEnd)' BY DEF IInv, TypeOK, SignalCount, NormalEnd
<1> QED BY <1>2, <1>3, <1>4, <1>5 DEF IInv

LEMMA LaunchIInv == ASSUME IInv, NEW t \in Tools, Launch(t) PROVE IInv'
<1> USE DEF Launch, Plan!Launch, mainVars, signalVars
<1>1. TypeOK' BY DEF IInv, TypeOK
<1>2. CopyByPlace' BY DEF IInv, CopyByPlace
<1>3. PoolByPlace' BY DEF IInv, TypeOK, PoolByPlace
<1>4. t \in InFlight /\ InFlight' = InFlight BY DEF IInv, TypeOK, InFlight
<1>5. torn' # {} => torn # {} \/ pc \in {"cleanup", "tail", "exiting"}
  BY <1>4 DEF IInv, TypeOK, CopyByPlace, PoolByPlace
<1>6. SignalCount' BY <1>4, <1>5 DEF IInv, TypeOK, SignalCount
<1>7. pc \in {"cleanup", "tail"} => ending # 0
  BY DEF IInv, TypeOK, NormalEnd
<1>8. NormalEnd' BY <1>5, <1>7 DEF IInv, TypeOK, NormalEnd
<1> QED BY <1>1, <1>2, <1>3, <1>6, <1>8 DEF IInv

LEMMA AnswerIInv == ASSUME IInv, NEW t \in Tools, Answer(t) PROVE IInv'
<1> USE DEF Answer, Plan!Answer, mainVars, signalVars
<1>1. PICK s \in {"ok", "failed"} : progress' = [progress EXCEPT ![t] = s]
  OBVIOUS
<1>2. TypeOK' BY <1>1 DEF IInv, TypeOK
<1>3. (CopyByPlace /\ PoolByPlace)' BY <1>1 DEF IInv, TypeOK, CopyByPlace, PoolByPlace
<1>4. InFlight' \subseteq InFlight BY <1>1 DEF IInv, TypeOK, InFlight
<1>5. SignalCount' BY <1>4 DEF IInv, TypeOK, SignalCount
<1>6. NormalEnd' BY <1>1 DEF IInv, TypeOK, NormalEnd
<1> QED BY <1>2, <1>3, <1>5, <1>6 DEF IInv

LEMMA PoolLeftIInv == ASSUME IInv, PoolLeft PROVE IInv'
<1> USE DEF PoolLeft, Goto, planVars, signalVars
<1>1. (TypeOK /\ CopyByPlace /\ PoolByPlace)' BY DEF IInv, TypeOK, CopyByPlace, PoolByPlace
<1>2. InFlight' = {} BY DEF IInv, TypeOK, InFlight
<1>3. SignalCount' BY <1>2 DEF IInv, TypeOK, SignalCount
<1>4. NormalEnd' BY DEF IInv, TypeOK, NormalEnd
<1> QED BY <1>1, <1>3, <1>4 DEF IInv

LEMMA CleanupIInv == ASSUME IInv, Cleanup PROVE IInv'
<1> USE DEF Cleanup, Goto, planVars, signalVars
<1>1. (TypeOK /\ CopyByPlace /\ PoolByPlace)'
  BY DEF IInv, TypeOK, CopyByPlace, PoolByPlace, Running
<1>2. InFlight' = InFlight /\ Running \subseteq InFlight
  BY DEF IInv, TypeOK, PoolByPlace, InFlight, Running
<1>3. SignalCount' BY <1>2 DEF IInv, TypeOK, SignalCount
<1>4. ending = 0 => Running = {} BY DEF IInv, TypeOK, NormalEnd, PoolByPlace, Running
<1>5. NormalEnd' BY <1>4 DEF IInv, TypeOK, NormalEnd
<1> QED BY <1>1, <1>3, <1>5 DEF IInv

LEMMA EndIInv == ASSUME CopyAssumption, IInv, Return \/ Exit \/ Kill PROVE IInv'
<1> USE DEF IInv, TypeOK, CopyByPlace, PoolByPlace, SignalCount, NormalEnd, InFlight,
            planVars, signalVars, Raise, Strike
<1>1. CASE Return BY <1>1 DEF Return
<1>2. CASE Exit   BY <1>2 DEF Exit
<1>3. CASE Kill   BY <1>3 DEF Kill, CopyAssumption
<1> QED BY <1>1, <1>2, <1>3

LEMMA InterruptIInv == ASSUME CopyAssumption, IInv, Interrupt PROVE IInv'
<1> USE DEF Interrupt, Strike, Raise, AfterSignal, planVars
<1>1. TypeOK' BY DEF CopyAssumption, IInv, TypeOK
<1>2. CopyByPlace' BY DEF IInv, TypeOK, CopyByPlace
<1>3. PoolByPlace' BY DEF IInv, TypeOK, PoolByPlace
<1>4. InFlight' = InFlight BY DEF InFlight
<1>5. pc \in {"enter", "made", "copying", "undo", "handover"} => InFlight = {}
  BY DEF IInv, PoolByPlace, InFlight
<1>6. SignalCount' BY <1>4, <1>5 DEF IInv, TypeOK, SignalCount, CopyAssumption
<1>7. NormalEnd' BY DEF IInv, TypeOK, NormalEnd
<1> QED BY <1>1, <1>2, <1>3, <1>6, <1>7 DEF IInv

LEMMA StepIInv == ASSUME CopyAssumption, IInv, [Next]_vars PROVE IInv'
<1>1. CASE UNCHANGED vars
  BY <1>1 DEF vars, planVars, mainVars, signalVars, IInv, TypeOK, CopyByPlace, PoolByPlace,
              SignalCount, NormalEnd, InFlight
<1>2. CASE Main
  BY <1>2, CreateIInv, SubmitIInv, SkipRestIInv, PoolLeftIInv, CleanupIInv, EndIInv DEF Main
<1>3. CASE Pool BY <1>3, LaunchIInv, AnswerIInv DEF Pool
<1>4. CASE Interrupt \/ Kill BY <1>4, InterruptIInv, EndIInv
<1> QED BY <1>1, <1>2, <1>3, <1>4 DEF Next, Exited

\* The invariant of a tracked-only run.
THEOREM InvariantHolds == ASSUME CopyAssumption PROVE SafeSpec => []IInv
<1>1. Init => IInv BY InitIInv
<1>2. IInv /\ [Next]_vars => IInv' BY StepIInv
<1> QED BY <1>1, <1>2, PTL DEF SafeSpec

\* Type correctness.
THEOREM TypeCorrect == ASSUME CopyAssumption PROVE SafeSpec => []TypeOK
<1>1. IInv => TypeOK BY DEF IInv
<1> QED BY <1>1, InvariantHolds, PTL

\* No copy outlives a run whose SIGTERMs missed the four windows.
THEOREM CopyIsRemoved == ASSUME CopyAssumption PROVE SafeSpec => []CopyRemoved
<1>1. IInv => CopyRemoved BY DEF IInv, CopyByPlace, CopyRemoved
<1> QED BY <1>1, InvariantHolds, PTL

\* One SIGTERM never removes the copy under a scanner.
THEOREM CopyOutlastsScanners == ASSUME CopyAssumption PROVE SafeSpec => []ScannersKeepTheirCopy
<1>1. IInv => ScannersKeepTheirCopy BY DEF IInv, TypeOK, SignalCount, ScannersKeepTheirCopy
<1> QED BY <1>1, InvariantHolds, PTL

\* What is reported was scanned on the whole copy.
THEOREM ReportsAreWhole == ASSUME CopyAssumption PROVE SafeSpec => []ReportedResultsAreWhole
<1>1. IInv => ReportedResultsAreWhole BY DEF IInv, NormalEnd, ReportedResultsAreWhole
<1> QED BY <1>1, InvariantHolds, PTL
===============================================================================
