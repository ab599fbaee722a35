------------------------ MODULE ReportDirectoryProofs -------------------------
(***************************************************************************)
(* What runs that share a report directory leave there, for any number of  *)
(* runs, seconds and kills.                                                *)
(***************************************************************************)
EXTENDS ReportDirectory, TLAPS

\* Where runs are; what CopyTree raises on.
Steps == {"write", "read", "report", "cleanup", "look", "unlink", "link", "remove", "copy"}
Moving == {"look", "unlink", "link"}
Active(r) == pc[r] \notin Over
LinksTo(r, p) == pc[r] = "link" /\ place[r] = p
Uncopied(r) == mount = "base" \/ report["/reports"][stamp[r]] # None
NobodyCrashed == \A r \in Runs : pc[r] # "crashed"

TypeInv ==
  /\ mount \in {"none", "separate", "base"} /\ clock \in Times
  /\ pc \in [Runs -> Steps \cup Over]
  /\ place \in [Runs -> Places] /\ stamp \in [Runs -> Times]
  /\ raw \in [Places -> [Times -> Runs \cup {None}]]
  /\ report \in [Places -> [Times -> Runs \cup {None}]]
  /\ scanned \in [Runs -> Runs \cup {None}]
  /\ latest \in [Places -> Times \cup {None}]
  /\ overlapped \in BOOLEAN
  /\ lastDone \in Runs \cup {None}

\* A run is at its own base, or, in a container and behind the copy, at the mount; it
\* ends well only behind the last of them.
PlaceInv ==
  \A r \in Runs :
    /\ place[r] = Home(r) \/ (mount = "separate" /\ place[r] = "/reports" /\ pc[r] \in Moving \cup (Over \ {"idle"}))
    /\ pc[r] \in {"remove", "copy"} => mount # "none"
    /\ pc[r] = "done" => mount # "base" /\ place[r] = Shared

\* A report is never removed from a base that is not the mount.
WrittenInv ==
  mount # "base" =>
    \A r \in Runs : pc[r] \in Moving \cup {"cleanup", "remove", "copy", "done", "raised"} =>
      report[Home(r)][stamp[r]] # None

\* What a run that has its second for itself finds where it wrote it.
OwnInv ==
  \A r \in Runs : Alone(r) =>
    /\ pc[r] = "read" => raw[Home(r)][stamp[r]] = r
    /\ pc[r] \in Moving \cup {"report", "cleanup", "remove", "copy", "done"} => scanned[r] = r
    /\ pc[r] \in Moving \cup {"cleanup", "remove", "copy", "done"} /\ ~(mount = "base" /\ pc[r] = "copy") =>
         report[Home(r)][stamp[r]] = r
    /\ pc[r] \in Moving \cup {"done"} => report[place[r]][stamp[r]] = r

\* Whoever made `latest` under p what it is has no step left that touches its report
\* there.
Settled(r, p) ==
  \/ pc[r] \in {"done", "raised", "crashed"}
  \/ mount = "separate" /\ p = r /\ pc[r] \in Moving \cup {"remove", "copy"}
LatestInv ==
  mount # "base" =>
    \A p \in Places : latest[p] # None =>
      \E r \in Runs : /\ stamp[r] = latest[p] /\ Settled(r, p)
                      /\ Alone(r) => report[p][stamp[r]] = r

\* Once `latest` has been there it is there, or somebody is about to make it, or was
\* killed in between.
KeptInv ==
  lastDone # None \/ (\E r \in Runs : pc[r] = "unlink" /\ place[r] = Shared) =>
    \/ latest[Shared] # None
    \/ \E r \in Runs : LinksTo(r, Shared) \/ pc[r] = "crashed"

\* One run at a time finds `latest` as it left it.
OrderInv ==
  /\ lastDone # None => mount # "base" /\ pc[lastDone] = "done"
  /\ ~overlapped => \A q, r \in Runs : Active(q) /\ Active(r) => q = r
  /\ ~overlapped /\ NobodyCrashed =>
       /\ \A r \in Runs : LinksTo(r, Shared) => latest[Shared] = None
       /\ \A r \in Runs : pc[r] = "unlink" /\ place[r] = Shared => latest[Shared] # None
       /\ lastDone # None /\ (\A r \in Runs : ~LinksTo(r, Shared)) =>
            latest[Shared] = stamp[lastDone]

IInv == TypeInv /\ PlaceInv /\ WrittenInv /\ OwnInv /\ LatestInv /\ KeptInv /\ OrderInv
-------------------------------------------------------------------------------
LEMMA PlacesDistinct ==
  ASSUME TypeInv, NEW r \in Runs
  PROVE  /\ r \in Places /\ Home(r) \in Places /\ Shared \in Places
         /\ "/reports" \in Places /\ "base" \in Places
         /\ r # "base" /\ r # "/reports" /\ r # None
         /\ mount # "base" => Home(r) # "/reports"
         /\ mount = "separate" => Home(r) = r
         /\ mount = "none" => Home(r) = "base"
         /\ mount = "base" => Home(r) = "/reports"
  BY DirectoryAssumption DEF TypeInv, Places, Home, Shared

LEMMA MountStays == ASSUME mount' = mount PROVE Shared' = Shared /\ \A r : Home(r)' = Home(r)
  BY DEF Shared, Home

\* What a step of one run leaves alone: the other runs, and what is named by another
\* second.
LEMMA StepFrame ==
  ASSUME TypeInv, NEW r \in Runs, Step(r) \/ Crash(r)
  PROVE  /\ mount' = mount /\ clock' = clock
         /\ \A q \in Runs \ {r} : /\ pc'[q] = pc[q] /\ place'[q] = place[q]
                                  /\ stamp'[q] = stamp[q] /\ scanned'[q] = scanned[q]
         /\ pc[r] # "idle" => stamp' = stamp /\ overlapped' = overlapped
         /\ pc[r] = "idle" => UNCHANGED <<place, raw, report, scanned, latest, lastDone>>
         /\ pc'[r] # "idle"
         /\ \A p \in Places, t \in Times : t # stamp[r] =>
              raw'[p][t] = raw[p][t] /\ report'[p][t] = report[p][t]
<1> USE DEF TypeInv, Goto, files, history, Steps, Over
<1>1. CASE Start(r) BY <1>1 DEF Start
<1>2. CASE WriteRaw(r) BY <1>2 DEF WriteRaw
<1>3. CASE ReadRaw(r) BY <1>3 DEF ReadRaw
<1>4. CASE WriteReport(r) BY <1>4 DEF WriteReport
<1>5. CASE Cleanup(r) BY <1>5 DEF Cleanup
<1>6. CASE Look(r) BY <1>6 DEF Look
<1>7. CASE Unlink(r)
  <2>1. CASE latest[place[r]] # None BY <1>7, <2>1 DEF Unlink
  <2>2. CASE latest[place[r]] = None BY <1>7, <2>2 DEF Unlink, PointerSet, AfterPointer
  <2> QED BY <2>1, <2>2
<1>8. CASE Link(r) BY <1>8 DEF Link, PointerSet, AfterPointer
<1>9. CASE RemoveTarget(r) BY <1>9 DEF RemoveTarget
<1>10. CASE CopyTree(r)
  <2>1. CASE Uncopied(r) BY <1>10, <2>1 DEF CopyTree, Uncopied
  <2>2. CASE ~Uncopied(r)
    <3>1. /\ report' = [report EXCEPT !["/reports"][stamp[r]] = report[Home(r)][stamp[r]]]
          /\ place' = [place EXCEPT ![r] = "/reports"] /\ pc' = [pc EXCEPT ![r] = "look"]
          /\ UNCHANGED <<mount, clock, stamp, raw, scanned, latest, crashes, overlapped, lastDone>>
      BY <1>10, <2>2 DEF CopyTree, Uncopied
    <3>2. report[Home(r)][stamp[r]] \in Runs \cup {None} BY PlacesDistinct
    <3> QED BY <1>10, <3>1, <3>2, PlacesDistinct DEF CopyTree
  <2> QED BY <2>1, <2>2
<1>11. CASE Crash(r) BY <1>11 DEF Crash
<1> QED BY <1>1, <1>2, <1>3, <1>4, <1>5, <1>6, <1>7, <1>8, <1>9, <1>10, <1>11 DEF Step

\* A run that has its second for itself after a step had it before.
LEMMA AloneBefore ==
  ASSUME TypeInv, NEW r \in Runs, Step(r) \/ Crash(r), NEW q \in Runs, pc[q] # "idle", Alone(q)'
  PROVE  Alone(q) /\ (q # r /\ pc[r] # "idle" => stamp[q] # stamp[r])
<1>1. \A s \in Runs : pc[s] # "idle" => pc'[s] # "idle" /\ stamp'[s] = stamp[s]
  BY StepFrame DEF Step, Start
<1> QED BY <1>1 DEF Alone, Started

-------------------------------------------------------------------------------
(* Types and places *)

LEMMA TypeStep == ASSUME TypeInv, NEW r \in Runs, Step(r) \/ Crash(r) PROVE TypeInv'
<1> USE PlacesDistinct DEF TypeInv, Goto, files, history, Steps, Over
<1>1. CASE Start(r) BY <1>1 DEF Start
<1>2. CASE WriteRaw(r) BY <1>2 DEF WriteRaw
<1>3. CASE ReadRaw(r) BY <1>3 DEF ReadRaw
<1>4. CASE WriteReport(r) BY <1>4 DEF WriteReport
<1>5. CASE Cleanup(r) BY <1>5 DEF Cleanup
<1>6. CASE Look(r) BY <1>6 DEF Look
<1>7. CASE Unlink(r)
  <2>1. CASE latest[place[r]] # None BY <1>7, <2>1 DEF Unlink
  <2>2. CASE latest[place[r]] = None BY <1>7, <2>2 DEF Unlink, PointerSet, AfterPointer
  <2> QED BY <2>1, <2>2
<1>8. CASE Link(r) BY <1>8 DEF Link, PointerSet, AfterPointer
<1>9. CASE RemoveTarget(r) BY <1>9 DEF RemoveTarget
<1>10. CASE CopyTree(r)
  <2>1. CASE Uncopied(r) BY <1>10, <2>1 DEF CopyTree, Uncopied
  <2>2. CASE ~Uncopied(r)
    <3>1. /\ report' = [report EXCEPT !["/reports"][stamp[r]] = report[Home(r)][stamp[r]]]
          /\ place' = [place EXCEPT ![r] = "/reports"] /\ pc' = [pc EXCEPT ![r] = "look"]
          /\ UNCHANGED <<mount, clock, stamp, raw, scanned, latest, crashes, overlapped, lastDone>>
      BY <1>10, <2>2 DEF CopyTree, Uncopied
    <3>2. report[Home(r)][stamp[r]] \in Runs \cup {None} BY PlacesDistinct
    <3> QED BY <1>10, <3>1, <3>2, PlacesDistinct DEF CopyTree
  <2> QED BY <2>1, <2>2
<1>11. CASE Crash(r) BY <1>11 DEF Crash
<1> QED BY <1>1, <1>2, <1>3, <1>4, <1>5, <1>6, <1>7, <1>8, <1>9, <1>10, <1>11 DEF Step

LEMMA PlaceStep ==
  ASSUME TypeInv, PlaceInv, NEW r \in Runs, Step(r) \/ Crash(r) PROVE PlaceInv'
<1>1. SUFFICES ASSUME NEW q \in Runs
               PROVE  (/\ place[q] = Home(q) \/ (mount = "separate" /\ place[q] = "/reports" /\ pc[q] \in Moving \cup (Over \ {"idle"}))
                       /\ pc[q] \in {"remove", "copy"} => mount # "none"
                       /\ pc[q] = "done" => mount # "base" /\ place[q] = Shared)'
  BY DEF PlaceInv
<1>2. mount' = mount /\ Home(q)' = Home(q) /\ Shared' = Shared BY StepFrame, MountStays
<1>3. CASE q # r BY <1>2, <1>3, StepFrame DEF PlaceInv
<1>4. CASE q = r
  <2> USE <1>2, <1>4, PlacesDistinct DEF PlaceInv, TypeInv, Goto, Moving, Over, files, history, Steps
  <2>7. CASE Start(r) \/ WriteRaw(r) \/ ReadRaw(r) \/ WriteReport(r) \/ RemoveTarget(r) \/ Crash(r)
    <3>1. pc'[r] \notin Moving \cup {"done"} /\ place' = place
      BY <2>7 DEF Start, WriteRaw, ReadRaw, WriteReport, RemoveTarget, Crash
    <3> QED BY <3>1, <2>7 DEF Start, WriteRaw, ReadRaw, WriteReport, RemoveTarget, Crash
  <2>8. CASE Cleanup(r) BY <2>8 DEF Cleanup
  <2>2. CASE Look(r) BY <2>2 DEF Look
  <2>3. CASE PointerSet(r) /\ place' = place BY <2>3 DEF PointerSet, AfterPointer, Shared, Home
  <2>4. CASE Unlink(r) BY <2>3, <2>4 DEF Unlink
  <2>5. CASE Link(r) BY <2>3, <2>5 DEF Link
  <2>6. CASE CopyTree(r)
    <3>1. CASE Uncopied(r) BY <2>6, <3>1 DEF CopyTree, Uncopied
    <3>2. CASE ~Uncopied(r) BY <2>6, <3>2 DEF CopyTree, Uncopied, Home
    <3> QED BY <3>1, <3>2
  <2> QED BY <2>7, <2>8, <2>2, <2>4, <2>5, <2>6 DEF Step
<1> QED BY <1>3, <1>4

LEMMA AfterLast ==
  ASSUME TypeInv, PlaceInv, NEW r \in Runs, pc[r] \in Moving
  PROVE  /\ mount # "base" => (AfterPointer(r) = "done" <=> place[r] = Shared)
         /\ mount = "base" => AfterPointer(r) = "remove"
         /\ AfterPointer(r) \in {"done", "remove"}
         /\ AfterPointer(r) = "remove" /\ mount # "base" => mount = "separate" /\ place[r] = r
  BY PlacesDistinct DEF TypeInv, PlaceInv, AfterPointer, Shared, Moving, Home, Over

-------------------------------------------------------------------------------
(* Reports *)

\* Only RemoveTarget takes a report away, and that from the mount.
LEMMA ReportStays ==
  ASSUME TypeInv, NEW r \in Runs, Step(r) \/ Crash(r), mount # "base",
         NEW p \in Places, p # "/reports", NEW t \in Times
  PROVE  /\ report[p][t] # None => report'[p][t] # None
         /\ pc[r] # "report" => report'[p][t] = report[p][t]
<1> USE PlacesDistinct DEF TypeInv, files, history
<1>1. CASE WriteReport(r) BY <1>1 DEF WriteReport, Goto
<1>2. CASE RemoveTarget(r) BY <1>2 DEF RemoveTarget
<1>3. CASE CopyTree(r) BY <1>3 DEF CopyTree
<1>4. CASE UNCHANGED report BY <1>4
<1> QED BY <1>1, <1>2, <1>3, <1>4
       DEF Step, Start, WriteRaw, ReadRaw, Cleanup, Look, Unlink, Link, Crash

\* Where a step takes its run.
LEMMA PcStep ==
  ASSUME TypeInv, NEW r \in Runs, Step(r) \/ Crash(r)
  PROVE  /\ pc[r] \notin Over \ {"idle"}
         /\ pc'[r] = "crashed" \/
              CASE pc[r] = "idle" -> pc'[r] = "write"
                [] pc[r] = "write" -> pc'[r] = "read"
                [] pc[r] = "read" -> pc'[r] = "report"
                [] pc[r] = "report" -> pc'[r] = "cleanup"
                [] pc[r] = "cleanup" -> pc'[r] = "look"
                [] pc[r] = "look" -> pc'[r] \in {"unlink", "link"}
                [] pc[r] = "unlink" -> pc'[r] \in {"link", "remove", "done"}
                [] pc[r] = "link" -> pc'[r] \in {"remove", "done"}
                [] pc[r] = "remove" -> pc'[r] = "copy"
                [] pc[r] = "copy" -> pc'[r] \in {"look", "raised"}
<1> USE DEF TypeInv, Goto, Over
<1>1. CASE Start(r) \/ WriteRaw(r) \/ ReadRaw(r) \/ WriteReport(r) \/ Cleanup(r)
  BY <1>1 DEF Start, WriteRaw, ReadRaw, WriteReport, Cleanup
<1>2. CASE Look(r) \/ Unlink(r) \/ Link(r) BY <1>2 DEF Look, Unlink, Link, PointerSet, AfterPointer
<1>3. CASE RemoveTarget(r) \/ CopyTree(r) BY <1>3 DEF RemoveTarget, CopyTree
<1>4. CASE Crash(r) BY <1>4 DEF Crash
<1> QED BY <1>1, <1>2, <1>3, <1>4 DEF Step

LEMMA WrittenStep ==
  ASSUME TypeInv, WrittenInv, NEW r \in Runs, Step(r) \/ Crash(r) PROVE WrittenInv'
<1> DEFINE Wrote(q) == pc[q] \in Moving \cup {"cleanup", "remove", "copy", "done", "raised"}
<1>1. SUFFICES ASSUME mount # "base", NEW q \in Runs, Wrote(q)'
               PROVE  (report[Home(q)][stamp[q]] # None)'
  BY StepFrame DEF WrittenInv
<1>2. mount' = mount /\ Home(q)' = Home(q) /\ Home(q) \in Places /\ Home(q) # "/reports"
  BY <1>1, StepFrame, MountStays, PlacesDistinct
<1>3. CASE Wrote(q)
  <2>1. stamp'[q] = stamp[q] /\ stamp[q] \in Times BY <1>3, StepFrame DEF Moving, TypeInv
  <2> QED BY <1>1, <1>2, <1>3, <2>1, ReportStays DEF WrittenInv
<1>4. CASE ~Wrote(q)
  <2>4. q = r BY <1>1, <1>4, StepFrame
  <2>5. pc[r] \in Steps \cup {"idle"} BY PcStep DEF TypeInv, Over
  <2>6. pc'[r] \in {"look", "unlink", "link", "cleanup", "remove", "copy", "done", "raised"}
    BY <1>1, <2>4 DEF Moving
  <2>1. q = r /\ pc[r] = "report" BY <1>4, <2>4, <2>5, <2>6, PcStep DEF Moving, Steps
  <2>2. WriteReport(r) \/ Crash(r)
    BY <2>1 DEF Step, Start, WriteRaw, ReadRaw, Cleanup, Look, Unlink, Link, RemoveTarget, CopyTree
  <2>3. WriteReport(r) BY <2>1, <2>2, <1>1 DEF Crash, Goto, TypeInv, Moving
  <2> QED BY <1>2, <2>1, <2>3, PlacesDistinct DEF WriteReport, TypeInv
<1> QED BY <1>3, <1>4

LEMMA OwnStep ==
  ASSUME TypeInv, PlaceInv, OwnInv, NEW r \in Runs, Step(r) \/ Crash(r) PROVE OwnInv'
<1> DEFINE Own(q) ==
      /\ pc[q] = "read" => raw[Home(q)][stamp[q]] = q
      /\ pc[q] \in Moving \cup {"report", "cleanup", "remove", "copy", "done"} => scanned[q] = q
      /\ pc[q] \in Moving \cup {"cleanup", "remove", "copy", "done"} /\ ~(mount = "base" /\ pc[q] = "copy") =>
           report[Home(q)][stamp[q]] = q
      /\ pc[q] \in Moving \cup {"done"} => report[place[q]][stamp[q]] = q
<1>1. SUFFICES ASSUME NEW q \in Runs, Alone(q)' PROVE Own(q)' BY DEF OwnInv
<1>2. mount' = mount /\ Home(q)' = Home(q) /\ Home(q) \in Places
  BY StepFrame, MountStays, PlacesDistinct
<1>3. CASE pc[q] = "idle"
  <2>1. pc'[q] \in {"idle", "write", "crashed"} BY <1>3, StepFrame, PcStep
  <2> QED BY <2>1 DEF Moving
<1>4. CASE pc[q] # "idle"
  <2>1. Own(q) /\ (q # r /\ pc[r] # "idle" => stamp[q] # stamp[r]) BY <1>1, <1>4, AloneBefore DEF OwnInv
  <2>2. stamp'[q] = stamp[q] /\ stamp[q] \in Times /\ place[q] \in Places BY <1>4, StepFrame DEF TypeInv
  <2>3. CASE q # r
    <3>1. \A p \in Places : raw'[p][stamp[q]] = raw[p][stamp[q]] /\ report'[p][stamp[q]] = report[p][stamp[q]]
      BY <2>1, <2>2, <2>3, StepFrame
    <3>2. pc'[q] = pc[q] /\ place'[q] = place[q] /\ scanned'[q] = scanned[q] BY <2>3, StepFrame
    <3> QED BY <1>2, <2>1, <2>2, <3>1, <3>2
  <2>4. CASE q = r
    <3> USE <1>2, <2>1, <2>2, <2>4, PlacesDistinct DEF TypeInv, Goto, files, history, Moving
    <3>1. CASE WriteRaw(r) BY <3>1 DEF WriteRaw
    <3>2. CASE ReadRaw(r) BY <3>2 DEF ReadRaw
    <3>3. CASE WriteReport(r) BY <3>3 DEF WriteReport
    <3>4. CASE Cleanup(r) BY <3>4 DEF Cleanup, PlaceInv, Over
    <3>5. CASE Look(r) BY <3>5 DEF Look
    <3>6. CASE Unlink(r) \/ Link(r)
      <4>1. UNCHANGED <<mount, place, stamp, raw, report, scanned>> /\ pc[r] \in Moving BY <3>6 DEF Unlink, Link
      <4>2. pc'[r] # "read" BY <4>1, PcStep
      <4> QED BY <4>1, <4>2
    <3>7. CASE RemoveTarget(r) BY <3>7 DEF RemoveTarget
    <3>8. CASE CopyTree(r)
      <4>1. CASE Uncopied(r) BY <3>8, <4>1 DEF CopyTree, Uncopied
      <4>2. CASE ~Uncopied(r)
        <5>1. /\ report' = [report EXCEPT !["/reports"][stamp[r]] = report[Home(r)][stamp[r]]]
              /\ place'[r] = "/reports" /\ pc'[r] = "look" /\ scanned' = scanned
              /\ mount # "base" /\ pc[r] = "copy"
          BY <3>8, <4>2 DEF CopyTree, Uncopied
        <5>2. report[Home(r)][stamp[r]] = r /\ scanned[r] = r BY <5>1
        <5>3. report'["/reports"][stamp[r]] = r /\ report'[Home(r)][stamp[r]] = r BY <5>1, <5>2
        <5> QED BY <5>1, <5>2, <5>3
      <4> QED BY <4>1, <4>2
    <3>9. CASE Crash(r) BY <3>9 DEF Crash
    <3>10. ~Start(r) BY <1>4 DEF Start
    <3> QED BY <3>1, <3>2, <3>3, <3>4, <3>5, <3>6, <3>7, <3>8, <3>9, <3>10 DEF Step
  <2> QED BY <2>3, <2>4
<1> QED BY <1>3, <1>4

-------------------------------------------------------------------------------
(* What `latest` names *)

\* It comes from Link, and goes by Unlink.
LEMMA LatestChanges ==
  ASSUME TypeInv, NEW r \in Runs, Step(r) \/ Crash(r), NEW p \in Places, latest'[p] # latest[p]
  PROVE  p = place[r] /\ \/ Link(r) /\ latest[p] = None /\ latest'[p] = stamp[r]
                         \/ Unlink(r) /\ latest[p] # None /\ latest'[p] = None /\ pc'[r] = "link"
<1>1. Link(r) \/ Unlink(r)
  BY DEF Step, Start, WriteRaw, ReadRaw, WriteReport, Cleanup, Look, RemoveTarget, CopyTree, Crash,
         history, files
<1>2. CASE Link(r) BY <1>2 DEF Link, TypeInv
<1>3. CASE Unlink(r) BY <1>3 DEF Unlink, TypeInv, Goto
<1> QED BY <1>1, <1>2, <1>3

LEMMA LatestStep ==
  ASSUME TypeInv, PlaceInv, OwnInv, LatestInv, NEW r \in Runs, Step(r) \/ Crash(r) PROVE LatestInv'
<1>1. SUFFICES ASSUME mount # "base", NEW p \in Places, latest'[p] # None
               PROVE  \E s \in Runs : /\ stamp'[s] = latest'[p] /\ Settled(s, p)'
                                      /\ Alone(s)' => report'[p][stamp'[s]] = s
  BY StepFrame DEF LatestInv
<1>2. mount' = mount BY StepFrame
<1>3. CASE latest'[p] = latest[p]
  <2>1. PICK s \in Runs : /\ stamp[s] = latest[p] /\ Settled(s, p)
                          /\ Alone(s) => report[p][stamp[s]] = s
    BY <1>1, <1>3 DEF LatestInv
  <2>2. pc[s] # "idle" BY <2>1 DEF Settled, Moving
  <2>3. stamp'[s] = stamp[s] /\ stamp[s] \in Times BY <2>2, StepFrame DEF TypeInv
  <2>4. CASE s # r
    <3>1. pc'[s] = pc[s] /\ Settled(s, p)' BY <1>2, <2>1, <2>4, StepFrame DEF Settled
    <3>2. ASSUME Alone(s)' PROVE report'[p][stamp[s]] = s
      BY <2>1, <2>2, <2>3, <2>4, <3>2, AloneBefore, StepFrame
    <3> QED BY <1>3, <2>1, <2>3, <3>1, <3>2
  <2>5. CASE s = r
    <3>1. mount = "separate" /\ p = r /\ pc[r] \in Moving \cup {"remove", "copy"}
      BY <2>1, <2>5, PcStep DEF Settled, Over
    <3>2. pc'[r] \in Moving \cup {"remove", "copy", "done", "raised", "crashed"} BY <3>1, PcStep DEF Moving
    <3>3. Settled(s, p)' BY <1>2, <2>5, <3>1, <3>2 DEF Settled
    <3>4. report'[p][stamp[s]] = report[p][stamp[s]]
      BY <1>1, <2>3, <3>1, PlacesDistinct, ReportStays DEF Moving
    <3>5. Alone(s)' => Alone(s) BY <2>2, AloneBefore
    <3> QED BY <1>3, <2>1, <2>3, <3>3, <3>4, <3>5
  <2> QED BY <2>4, <2>5
<1>4. CASE latest'[p] # latest[p]
  <2>1. Link(r) /\ p = place[r] /\ latest'[p] = stamp[r] BY <1>1, <1>4, LatestChanges
  <2>2. pc[r] = "link" /\ pc'[r] = AfterPointer(r) /\ stamp' = stamp /\ report' = report
    BY <2>1 DEF Link, PointerSet, Goto, files, TypeInv
  <2>3. Settled(r, p)' BY <1>1, <1>2, <2>1, <2>2, AfterLast DEF Settled, Moving
  <2>4. Alone(r)' => report'[p][stamp'[r]] = r BY <2>1, <2>2, AloneBefore DEF OwnInv, Moving
  <2> QED BY <2>1, <2>2, <2>3, <2>4
<1> QED BY <1>3, <1>4

-------------------------------------------------------------------------------
(* `latest` is kept, and follows runs that do not overlap *)

\* A run is the last done when it is through with the shared `latest`.
LEMMA LastDoneChanges ==
  ASSUME TypeInv, PlaceInv, NEW r \in Runs, Step(r) \/ Crash(r), lastDone' # lastDone
  PROVE  /\ lastDone' = r /\ pc'[r] = "done" /\ mount # "base" /\ place[r] = Shared
         /\ Link(r) \/ (Unlink(r) /\ latest[Shared] = None)
<1>1. Link(r) \/ Unlink(r)
  BY DEF Step, Start, WriteRaw, ReadRaw, WriteReport, Cleanup, Look, RemoveTarget, CopyTree, Crash, history
<1>2. PointerSet(r) /\ pc[r] \in Moving /\ (Unlink(r) => latest[place[r]] = None)
  BY <1>1 DEF Link, Unlink, Moving
<1>3. AfterPointer(r) = "done" /\ lastDone' = r BY <1>2 DEF PointerSet
<1>4. pc'[r] = "done" BY <1>2, <1>3 DEF PointerSet, Goto, TypeInv
<1> QED BY <1>1, <1>2, <1>3, <1>4, AfterLast

LEMMA KeptStep ==
  ASSUME TypeInv, PlaceInv, KeptInv, NEW r \in Runs, Step(r) \/ Crash(r) PROVE KeptInv'
<1>1. Shared' = Shared /\ Shared \in Places BY StepFrame, MountStays, PlacesDistinct
<1> DEFINE Kept == \/ latest[Shared] # None
                   \/ \E s \in Runs : LinksTo(s, Shared) \/ pc[s] = "crashed"
<1>2. ASSUME Kept PROVE Kept'
  <2>1. CASE latest[Shared] # None
    <3>1. CASE latest'[Shared] = latest[Shared] BY <1>1, <2>1, <3>1
    <3>2. CASE latest'[Shared] # latest[Shared]
      <4>1. Unlink(r) /\ place[r] = Shared /\ pc'[r] = "link" BY <1>1, <2>1, <3>2, LatestChanges
      <4> QED BY <1>1, <4>1 DEF Unlink, LinksTo
    <3> QED BY <3>1, <3>2
  <2>2. CASE \E s \in Runs : LinksTo(s, Shared) \/ pc[s] = "crashed"
    <3>1. PICK s \in Runs : LinksTo(s, Shared) \/ pc[s] = "crashed" BY <2>2
    <3>2. CASE s # r BY <1>1, <3>1, <3>2, StepFrame DEF LinksTo
    <3>3. CASE s = r
      <4>1. LinksTo(r, Shared) BY <3>1, <3>3, PcStep DEF Over
      <4>2. Link(r) \/ Crash(r)
        BY <4>1 DEF LinksTo, Step, Start, WriteRaw, ReadRaw, WriteReport, Cleanup, Look, Unlink, RemoveTarget, CopyTree
      <4>3. CASE Link(r)
        <5>1. latest'[Shared] = IF latest[Shared] = None THEN stamp[r] ELSE latest[Shared]
          BY <1>1, <4>1, <4>3 DEF Link, LinksTo, TypeInv
        <5>2. stamp[r] # None BY DirectoryAssumption DEF TypeInv, Times
        <5> QED BY <1>1, <5>1, <5>2
      <4>4. CASE Crash(r) BY <4>4 DEF Crash, Goto, TypeInv
      <4> QED BY <4>2, <4>3, <4>4
    <3> QED BY <3>2, <3>3
  <2> QED BY <1>2, <2>1, <2>2
<1>3. CASE Kept BY <1>2, <1>3 DEF KeptInv
<1>4. CASE ~Kept
  <2>1. lastDone = None /\ \A s \in Runs : ~(pc[s] = "unlink" /\ place[s] = Shared) BY <1>4 DEF KeptInv
  <2>2. ASSUME NEW s \in Runs, pc'[s] = "unlink", place'[s] = Shared PROVE FALSE
    <3>1. s = r BY <2>1, <2>2, StepFrame
    <3>2. Look(r) BY <2>1, <2>2, <3>1, PcStep
      DEF Step, Start, WriteRaw, ReadRaw, WriteReport, Cleanup, Unlink, Link, RemoveTarget, CopyTree, Crash,
          Goto, TypeInv, PointerSet, AfterPointer
    <3> QED BY <1>4, <2>2, <3>1, <3>2 DEF Look, Goto, TypeInv
  <2>3. lastDone' = None
    <3>1. ASSUME lastDone' # lastDone PROVE FALSE
      <4>1. CASE Link(r) BY <1>4, <3>1, <4>1, LastDoneChanges DEF Link, LinksTo
      <4>2. CASE Unlink(r) BY <2>1, <3>1, <4>2, LastDoneChanges DEF Unlink
      <4> QED BY <3>1, <4>1, <4>2, LastDoneChanges
    <3> QED BY <2>1, <3>1
  <2> QED BY <1>1, <2>2, <2>3 DEF KeptInv
<1> QED BY <1>3, <1>4

LEMMA OrderStep ==
  ASSUME TypeInv, PlaceInv, OrderInv, NEW r \in Runs, Step(r) \/ Crash(r) PROVE OrderInv'
<1>1. mount' = mount /\ Shared' = Shared /\ Shared \in Places BY StepFrame, MountStays, PlacesDistinct
<1>2. (lastDone # None => mount # "base" /\ pc[lastDone] = "done")'
  <2>1. CASE lastDone' = lastDone
    <3>1. lastDone' # None => lastDone # r /\ lastDone \in Runs /\ pc[lastDone] = "done" /\ mount # "base"
      BY <2>1, PcStep DEF OrderInv, Over, TypeInv
    <3> QED BY <1>1, <2>1, <3>1, StepFrame
  <2>2. CASE lastDone' # lastDone BY <1>1, <2>2, LastDoneChanges
  <2> QED BY <2>1, <2>2
<1>3. ASSUME ~overlapped' PROVE ~overlapped /\ \A q \in Runs \ {r} : ~Active(q) /\ ~Active(q)'
  <2>1. CASE pc[r] = "idle"
    <3>1. overlapped' = (overlapped \/ \E q \in Runs : pc[q] \notin Over)
      BY <2>1 DEF Over, Step, Start, WriteRaw, ReadRaw, WriteReport, Cleanup, Look, Unlink, Link, RemoveTarget,
                  CopyTree, Crash
    <3> QED BY <1>3, <3>1, StepFrame DEF Active
  <2>2. CASE pc[r] # "idle"
    <3>1. ~overlapped /\ Active(r) BY <1>3, <2>2, StepFrame, PcStep DEF Active, TypeInv, Over
    <3> QED BY <3>1, StepFrame DEF Active, OrderInv
  <2> QED BY <2>1, <2>2
<1>4. (~overlapped => \A q, s \in Runs : Active(q) /\ Active(s) => q = s)' BY <1>3
<1>5. ASSUME ~overlapped', NobodyCrashed'
      PROVE  (/\ \A s \in Runs : LinksTo(s, Shared) => latest[Shared] = None
              /\ \A s \in Runs : pc[s] = "unlink" /\ place[s] = Shared => latest[Shared] # None
              /\ lastDone # None /\ (\A s \in Runs : ~LinksTo(s, Shared)) =>
                   latest[Shared] = stamp[lastDone])'
  <2>1. /\ ~overlapped /\ NobodyCrashed /\ pc'[r] # "crashed"
        /\ \A s \in Runs : pc[s] \in Moving \/ pc'[s] \in Moving => s = r
    <3>1. NobodyCrashed BY <1>5, StepFrame, PcStep DEF NobodyCrashed, Over
    <3> QED BY <1>3, <1>5, <3>1 DEF NobodyCrashed, Moving, Over, Active
  <2>2. /\ LinksTo(r, Shared) => latest[Shared] = None
        /\ pc[r] = "unlink" /\ place[r] = Shared => latest[Shared] # None
        /\ lastDone # None /\ ~LinksTo(r, Shared) => latest[Shared] = stamp[lastDone]
    BY <2>1 DEF OrderInv, LinksTo, Moving
  <2>3. lastDone # None => lastDone \in Runs /\ lastDone # r /\ mount # "base" /\ stamp'[lastDone] = stamp[lastDone]
    BY PcStep, StepFrame DEF OrderInv, TypeInv, Over
  <2>4. SUFFICES /\ pc'[r] = "link" /\ place'[r] = Shared => latest'[Shared] = None
                 /\ pc'[r] = "unlink" /\ place'[r] = Shared => latest'[Shared] # None
                 /\ lastDone' # None /\ ~(pc'[r] = "link" /\ place'[r] = Shared) =>
                      latest'[Shared] = stamp'[lastDone']
    BY <1>1, <2>1, <2>4 DEF LinksTo, Moving
  <2> USE DEF LinksTo, Goto, TypeInv, history
  <2>5. CASE Look(r) BY <1>1, <2>2, <2>3, <2>5 DEF Look
  <2>6. CASE Unlink(r)
    <3>1. CASE place[r] = Shared BY <1>1, <2>2, <3>1, <2>6 DEF Unlink
    <3>2. CASE place[r] # Shared
      <4>1. lastDone' = lastDone /\ latest'[Shared] = latest[Shared] /\ place' = place /\ pc[r] = "unlink"
        BY <1>1, <2>6, <3>2, LastDoneChanges, LatestChanges DEF Unlink
      <4> QED BY <1>1, <2>2, <2>3, <3>2, <4>1
    <3> QED BY <3>1, <3>2
  <2>7. CASE Link(r)
    <3>1. pc'[r] \in {"done", "remove"} /\ stamp' = stamp /\ place' = place /\ pc[r] = "link"
      BY <2>7, AfterLast DEF Link, PointerSet, Moving
    <3>2. CASE place[r] = Shared
      <4>1. latest'[Shared] = stamp[r] BY <1>1, <2>2, <2>7, <3>2 DEF Link
      <4>2. mount # "base" => lastDone' = r BY <2>7, <3>1, <3>2, AfterLast DEF Link, PointerSet, Moving
      <4>3. mount = "base" => lastDone' = None BY <2>3, LastDoneChanges
      <4> QED BY <3>1, <4>1, <4>2, <4>3
    <3>3. CASE place[r] # Shared
      <4>1. lastDone' = lastDone /\ latest'[Shared] = latest[Shared]
        BY <1>1, <3>3, LastDoneChanges, LatestChanges
      <4> QED BY <2>2, <2>3, <3>1, <3>3, <4>1
    <3> QED BY <3>2, <3>3
  <2>8. CASE pc[r] \notin Moving
    <3>1. lastDone' = lastDone /\ latest'[Shared] = latest[Shared]
      BY <1>1, <2>8, LastDoneChanges, LatestChanges DEF Link, Unlink, Moving
    <3>2. pc'[r] \notin {"link", "unlink"} BY <2>8, PcStep, <2>1 DEF Moving, Steps, Over
    <3> QED BY <2>2, <2>3, <2>8, <3>1, <3>2 DEF Moving
  <2>9. CASE Crash(r) BY <2>1, <2>9 DEF Crash
  <2> QED BY <2>5, <2>6, <2>7, <2>8, <2>9
    DEF Step, Moving, Start, WriteRaw, ReadRaw, WriteReport, Cleanup, RemoveTarget, CopyTree
<1> QED BY <1>2, <1>4, <1>5 DEF OrderInv

-------------------------------------------------------------------------------
(* The invariant *)

LEMMA InitInvariant == Init => IInv
<1> SUFFICES ASSUME Init PROVE IInv OBVIOUS
<1>1. TypeInv
  <2>1. mount \in {"none", "separate", "base"} /\ 0 \in Times BY DirectoryAssumption DEF Init, Times
  <2>2. \A r \in Runs : Home(r) \in Places BY <2>1 DEF Places, Home
  <2>3. raw \in [Places -> [Times -> Runs \cup {None}]] /\ report = raw BY DEF Init
  <2> QED BY <2>1, <2>2, <2>3 DEF Init, TypeInv, Over
<1>2. PlaceInv BY <1>1 DEF Init, PlaceInv, Moving
<1>3. WrittenInv BY DEF Init, WrittenInv, Moving
<1>4. OwnInv BY DEF Init, OwnInv, Moving
<1>5. LatestInv BY DEF Init, LatestInv
<1>6. KeptInv BY DEF Init, KeptInv
<1>7. OrderInv BY <1>1 DEF Init, OrderInv, Active, Over, LinksTo
<1> QED BY <1>1, <1>2, <1>3, <1>4, <1>5, <1>6, <1>7 DEF IInv

\* Time passing, and nothing happening, leave everything the invariant speaks of.
LEMMA OtherSteps == ASSUME IInv, Tick \/ UNCHANGED vars PROVE IInv'
<1>1. UNCHANGED <<mount, pc, place, stamp, raw, report, scanned, latest, overlapped, lastDone>>
  BY DEF Tick, vars, files, history
<1>2. clock' \in Times BY DirectoryAssumption DEF IInv, TypeInv, Tick, vars, Times
<1>3. TypeInv' BY <1>1, <1>2 DEF IInv, TypeInv
<1>4. PlaceInv' /\ WrittenInv' BY <1>1 DEF IInv, PlaceInv, WrittenInv, Home, Shared
<1>5. OwnInv' BY <1>1 DEF IInv, OwnInv, Home, Alone, Started
<1>6. LatestInv' BY <1>1 DEF IInv, LatestInv, Settled, Alone, Started
<1>7. KeptInv' BY <1>1 DEF IInv, KeptInv, LinksTo, Shared
<1>8. OrderInv' BY <1>1 DEF IInv, OrderInv, LinksTo, Shared, Active, NobodyCrashed
<1> QED BY <1>3, <1>4, <1>5, <1>6, <1>7, <1>8 DEF IInv

\* However many runs share the directories, whenever they start and whoever is killed.
THEOREM InvariantHolds == Spec => []IInv
<1>1. IInv /\ [Next]_vars => IInv'
  <2> SUFFICES ASSUME IInv, [Next]_vars PROVE IInv' OBVIOUS
  <2>1. ASSUME NEW r \in Runs, Step(r) \/ Crash(r) PROVE IInv'
    BY <2>1, TypeStep, PlaceStep, WrittenStep, OwnStep, LatestStep, KeptStep, OrderStep DEF IInv
  <2> QED BY <2>1, OtherSteps DEF Next
<1> QED BY <1>1, InitInvariant, PTL DEF Spec

-------------------------------------------------------------------------------
(* Theorems *)

\* A run that has its second for itself reads the raw output it wrote and leaves its own
\* report where it should be.
THEOREM ReportIsAlwaysOwn == Spec => []ReportIsOwn
<1>1. IInv => ReportIsOwn BY DEF IInv, OwnInv, PlaceInv, ReportIsOwn
<1> QED BY <1>1, InvariantHolds, PTL

\* `latest` never leads to a directory whose report is still to come.
THEOREM LatestIsAlwaysComplete == Spec => []LatestIsComplete
<1>1. ASSUME IInv, NEW p \in Places, mount # "base", latest[p] # None,
             \A r \in Runs : Started(r) /\ stamp[r] = latest[p] => Alone(r)
      PROVE  report[p][latest[p]] # None
  <2>1. PICK r \in Runs : stamp[r] = latest[p] /\ Settled(r, p) /\ (Alone(r) => report[p][stamp[r]] = r)
    BY <1>1 DEF IInv, LatestInv
  <2>2. Started(r) BY <2>1 DEF Settled, Started, Moving
  <2> QED BY <1>1, <2>1, <2>2, PlacesDistinct DEF IInv
<1>2. IInv => LatestIsComplete BY <1>1 DEF LatestIsComplete
<1> QED BY <1>2, InvariantHolds, PTL

\* When the runs are over, `latest` is there, and leads to the last of them if they came
\* one after the other.
THEOREM LatestAlwaysLeadsToLastRun == Spec => []LatestLeadsToLastRun
<1>1. IInv => SomebodySetsLatest BY DEF IInv, KeptInv, SomebodySetsLatest, LinksTo
<1>2. IInv => LatestFollowsRuns
  BY DEF IInv, OrderInv, LatestFollowsRuns, LinksTo, NobodyCrashed, Over
<1> QED BY <1>1, <1>2, InvariantHolds, PTL DEF LatestLeadsToLastRun

\* Unless the base directory is the mount itself, a run that ends by itself leaves a
\* report in its own directory, also one that shares its second.
THEOREM ReportsAreWrittenAwayFromTheMount == Spec => [](mount # "base" => ReportsAreWritten)
<1>1. IInv => (mount # "base" => ReportsAreWritten) BY DEF IInv, WrittenInv, ReportsAreWritten
<1> QED BY <1>1, InvariantHolds, PTL
===============================================================================
