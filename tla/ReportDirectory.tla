--------------------------- MODULE ReportDirectory ----------------------------
(***************************************************************************)
(* Runs of dsoinabox that share a base report directory, or in Docker the  *)
(* /reports mount: the directory each run creates for its second, the raw  *)
(* scanner output and the report it writes there, the `latest` link it     *)
(* replaces by unlink and symlink, and the copy to the mount.  (`latest`   *)
(* as a copy, for filesystems without symlinks, is left out.)              *)
(***************************************************************************)
EXTENDS Naturals

CONSTANTS Runs,
          MaxClock,      \* seconds explored
          MaxCrashes,    \* runs that are killed
          MountOptions,  \* where the base directory is, see `mount`
          None

ASSUME DirectoryAssumption ==
  /\ MaxClock \in Nat /\ MaxCrashes \in Nat
  /\ MountOptions \subseteq {"none", "separate", "base"}
  /\ Runs \cap {"base", "/reports"} = {}   \* a container's own base is named after its run
  /\ None \notin Runs \cup Nat

Times == 0..MaxClock
Places == Runs \cup {"base", "/reports"}

VARIABLES
  mount,    \* "none": no Docker, one base directory; "separate": the base is in
            \* the container; "base": --report_directory is the mount itself
  clock,    \* utcnow, in seconds
  pc,       \* pc[r]: where run r is
  place,    \* place[r]: the base directory whose `latest` r is moving
  stamp,    \* stamp[r]: options.timestamp
  raw,      \* raw[p][t]: the run that wrote the raw output there
  report,   \* report[p][t]: the run that wrote the report there
  scanned,  \* scanned[r]: the run whose raw output r read
  latest,   \* latest[p]: what `latest` under p names
  crashes, overlapped, lastDone  \* history: kills, two runs at once, who ended last

files == <<raw, report>>
history == <<crashes, overlapped, lastDone>>
vars == <<mount, clock, pc, place, stamp, files, scanned, latest, history>>

\* Containers do not share the file system of their base directory.
Home(r) ==
  CASE mount = "none" -> "base" [] mount = "separate" -> r [] mount = "base" -> "/reports"

Over == {"idle", "done", "raised", "crashed"}

Init ==
  /\ mount \in MountOptions
  /\ clock = 0
  /\ pc = [r \in Runs |-> "idle"]
  /\ place = [r \in Runs |-> Home(r)]
  /\ stamp = [r \in Runs |-> 0]
  /\ raw = [p \in Places |-> [t \in Times |-> None]]
  /\ report = raw
  /\ scanned = [r \in Runs |-> None]
  /\ latest = [p \in Places |-> None]
  /\ crashes = 0
  /\ overlapped = FALSE
  /\ lastDone = None

Goto(r, step) == pc' = [pc EXCEPT ![r] = step]

\* Mutant of Start: `latest` is moved as soon as the directory is there.
Mutant_Start(r) ==
  /\ pc[r] = "idle"
  /\ Goto(r, "write")
  /\ stamp' = [stamp EXCEPT ![r] = clock]
  /\ latest' = [latest EXCEPT ![Home(r)] = clock]
  /\ overlapped' = (overlapped \/ \E q \in Runs : pc[q] \notin Over)
  /\ UNCHANGED <<mount, clock, place, raw, report, scanned, crashes, lastDone>>

\* scan_main names the directory; run_scan makes it, with exist_ok.
Start(r) ==
  /\ pc[r] = "idle"
  /\ Goto(r, "write")
  /\ stamp' = [stamp EXCEPT ![r] = clock]
  /\ overlapped' = (overlapped \/ \E q \in Runs : pc[q] \notin Over)
  /\ UNCHANGED <<mount, clock, place, raw, report, scanned, latest, crashes, lastDone>>

\* A scanner's output goes to a fixed name under tools_output, made if need be ...
WriteRaw(r) ==
  /\ pc[r] = "write"
  /\ Goto(r, "read")
  /\ raw' = [raw EXCEPT ![Home(r)][stamp[r]] = r]
  /\ UNCHANGED <<mount, clock, place, stamp, report, scanned, latest, history>>

\* ... and is read back from it.
ReadRaw(r) ==
  /\ pc[r] = "read"
  /\ Goto(r, "report")
  /\ scanned' = [scanned EXCEPT ![r] = raw[Home(r)][stamp[r]]]
  /\ UNCHANGED <<mount, clock, place, stamp, files, latest, history>>

\* The file's name has the timestamp in it too (or is --report_name).
WriteReport(r) ==
  /\ pc[r] = "report"
  /\ Goto(r, "cleanup")
  /\ report' = [report EXCEPT ![Home(r)][stamp[r]] = r]
  /\ UNCHANGED <<mount, clock, place, stamp, raw, scanned, latest, history>>

\* Mutant of Cleanup: the raw output of every run under the base is removed.
Mutant_Cleanup(r) ==
  /\ pc[r] = "cleanup"
  /\ Goto(r, "look")
  /\ raw' = [raw EXCEPT ![Home(r)] = [t \in Times |-> None]]
  /\ UNCHANGED <<mount, clock, place, stamp, report, scanned, latest, history>>

\* Without --tool_output the raw files are removed, whosesoever they are.
Cleanup(r) ==
  /\ pc[r] = "cleanup"
  /\ Goto(r, "look")
  /\ raw' = [raw EXCEPT ![Home(r)][stamp[r]] = None]
  /\ UNCHANGED <<mount, clock, place, stamp, report, scanned, latest, history>>

-------------------------------------------------------------------------------
(* _update_latest_pointer, for the base directory and then for the mount *)

AfterPointer(r) ==
  IF mount = "none" \/ (mount = "separate" /\ place[r] = "/reports") THEN "done" ELSE "remove"

\* os.path.islink(latest)
Look(r) ==
  /\ pc[r] = "look"
  /\ Goto(r, IF latest[place[r]] = None THEN "link" ELSE "unlink")
  /\ UNCHANGED <<mount, clock, place, stamp, files, scanned, latest, history>>

PointerSet(r) ==
  /\ Goto(r, AfterPointer(r))
  /\ lastDone' = IF AfterPointer(r) = "done" THEN r ELSE lastDone

\* Mutant of Unlink: as if a link that is there were good enough.
Mutant_Unlink(r) ==
  /\ pc[r] = "unlink"
  /\ PointerSet(r)
  /\ UNCHANGED <<mount, clock, place, stamp, files, scanned, latest, crashes, overlapped>>

\* Gone meanwhile: an OSError, a warning, and no link from this run.
Unlink(r) ==
  /\ pc[r] = "unlink"
  /\ \/ /\ latest[place[r]] # None
        /\ latest' = [latest EXCEPT ![place[r]] = None]
        /\ Goto(r, "link")
        /\ UNCHANGED lastDone
     \/ /\ latest[place[r]] = None
        /\ PointerSet(r)
        /\ UNCHANGED latest
  /\ UNCHANGED <<mount, clock, place, stamp, files, scanned, crashes, overlapped>>

\* Already there: symlink and then copytree raise FileExistsError, a warning.
Link(r) ==
  /\ pc[r] = "link"
  /\ latest' = IF latest[place[r]] = None
               THEN [latest EXCEPT ![place[r]] = stamp[r]] ELSE latest
  /\ PointerSet(r)
  /\ UNCHANGED <<mount, clock, place, stamp, files, scanned, crashes, overlapped>>

-------------------------------------------------------------------------------
(* copy_reports_to_mount *)

\* A directory of that name in the mount is removed first.
RemoveTarget(r) ==
  /\ pc[r] = "remove"
  /\ report' = [report EXCEPT !["/reports"][stamp[r]] = None]
  /\ Goto(r, "copy")
  /\ UNCHANGED <<mount, clock, place, stamp, raw, scanned, latest, history>>

\* copytree raises if the target is there again; or if there is nothing left to
\* copy, because the target was the run's own directory.
CopyTree(r) ==
  /\ pc[r] = "copy"
  /\ IF mount = "base" \/ report["/reports"][stamp[r]] # None
     THEN Goto(r, "raised") /\ UNCHANGED <<place, report>>
     ELSE /\ Goto(r, "look")
          /\ place' = [place EXCEPT ![r] = "/reports"]
          /\ report' = [report EXCEPT !["/reports"][stamp[r]] = report[Home(r)][stamp[r]]]
  /\ UNCHANGED <<mount, clock, stamp, raw, scanned, latest, history>>

-------------------------------------------------------------------------------
\* Killed at any point; nothing is cleaned up.
Crash(r) ==
  /\ crashes < MaxCrashes
  /\ pc[r] \notin Over
  /\ Goto(r, "crashed")
  /\ crashes' = crashes + 1
  /\ UNCHANGED <<mount, clock, place, stamp, files, scanned, latest, overlapped, lastDone>>

Tick ==
  /\ clock < MaxClock
  /\ clock' = clock + 1
  /\ UNCHANGED <<mount, pc, place, stamp, files, scanned, latest, history>>

Step(r) ==
  \/ Start(r) \/ WriteRaw(r) \/ ReadRaw(r) \/ WriteReport(r) \/ Cleanup(r)
  \/ Look(r) \/ Unlink(r) \/ Link(r) \/ RemoveTarget(r) \/ CopyTree(r)

Next == Tick \/ \E r \in Runs : Step(r) \/ Crash(r)

Spec == Init /\ [][Next]_vars

-------------------------------------------------------------------------------
(* Properties *)

Started(r) == pc[r] # "idle"
Alone(r) == \A q \in Runs \ {r} : ~(Started(q) /\ stamp[q] = stamp[r])
Shared == IF mount = "none" THEN "base" ELSE "/reports"

\* A run that has its second for itself reads the raw output it wrote and leaves
\* its own report, in its directory and (from a container) in the mount, whatever
\* runs beside it and whoever is killed.
ReportIsOwn ==
  \A r \in Runs : pc[r] = "done" /\ Alone(r) =>
    /\ scanned[r] = r
    /\ report[Home(r)][stamp[r]] = r
    /\ report[Shared][stamp[r]] = r

\* `latest` never leads to a directory whose report is still to come, also while
\* several runs move it and one of them is killed.
LatestIsComplete ==
  \A p \in Places :
    mount # "base" /\ latest[p] # None
      /\ (\A r \in Runs : Started(r) /\ stamp[r] = latest[p] => Alone(r))
      => report[p][latest[p]] # None

\* Runs that race for `latest` may lose it to each other, but never lose it: if
\* nobody was killed, it is there when all are done.
SomebodySetsLatest ==
  (\A r \in Runs : pc[r] \in {"idle", "done"}) /\ lastDone # None => latest[Shared] # None

\* Of runs that do not overlap, `latest` names the one that ended last.
LatestFollowsRuns ==
  ~overlapped /\ lastDone # None /\ (\A r \in Runs : pc[r] \in Over \ {"crashed"}) =>
    latest[Shared] = stamp[lastDone]

\* docs/cli/README.md:135-136: a run behind its scanners exits with "reports
\* written".  A run that ends by itself leaves a report somewhere.
ReportsAreWritten ==
  \A r \in Runs : pc[r] \in {"done", "raised"} =>
    \E p \in {Home(r), Shared} : report[p][stamp[r]] # None

\* When the runs are over, `latest` is there, and leads to the last of them if they
\* came one after the other.
LatestLeadsToLastRun == SomebodySetsLatest /\ LatestFollowsRuns
===============================================================================
