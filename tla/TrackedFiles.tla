----------------------------- MODULE TrackedFiles -----------------------------
(***************************************************************************)
(* `copy_tracked_files` (utils/tracked.py): what CopyFiles of TrackedCopy  *)
(* does, path by path, while somebody else goes on editing the working     *)
(* tree.  An entry of the file system is its kind, its inode and whether   *)
(* it lies outside the source; one that is replaced gets another inode.  A *)
(* directory may be swapped for a link that leads out of the source, also  *)
(* between the check that it does not and the reads that trust the check.  *)
(***************************************************************************)
EXTENDS Naturals, FiniteSets

CONSTANTS Paths,       \* the paths of the index
          Gitlinks,    \* those with mode 160000
          Dirs,        \* their directories
          Parent,      \* Parent[p]: os.path.dirname of p
          Kinds,       \* kinds of entries
          Elsewhere,   \* entries outside the source that such a link may lead to
          MaxChanges   \* edits behind the copier's back

\* The index is a finite list, and "none" is not a kind of entry.
ASSUME FilesAssumption ==
  /\ IsFiniteSet(Paths)
  /\ Gitlinks \subseteq Paths /\ Parent \in [Paths -> Dirs]
  /\ Elsewhere \subseteq [kind : Kinds, inode : Nat, outside : {TRUE}] /\ Elsewhere # {}
  /\ {"file", "link", "absent"} \subseteq Kinds /\ "none" \notin Kinds
  /\ MaxChanges \in Nat

None == [kind |-> "none", inode |-> 0, outside |-> FALSE]

\* tracked_paths: the index without its submodules.
tracked_paths == Paths \ Gitlinks

VARIABLES
  \* the file system
  tree,     \* tree[p]: the entry at p now, as long as its directory is the source's
  away,     \* the directories that resolve outside the source now
  changes,  \* edits made so far; also the next fresh inode
  swapped,  \* history: directories led out of the source behind their check
  \* copy_tracked_files
  inside,   \* inside[d]: the check of d, made once: "unknown", "yes" or "no"
  todo,     \* paths the loop has not visited
  at,       \* the path being copied and the step it is at
  st,       \* what lstat said of it
  opened,   \* what the descriptor refers to
  copy,     \* copy[p]: the entry that p in the copy was made from
  copied,   \* the counter that is returned
  failed    \* an OSError left the function

fsVars == <<tree, away, changes, swapped>>
outVars == <<copy, copied, failed>>
vars == <<fsVars, inside, todo, at, st, opened, outVars>>

Idle == [path |-> "none", step |-> "idle"]

Init ==
  /\ tree \in [tracked_paths -> [kind : Kinds, inode : {0}, outside : {FALSE}]]
  /\ away \in SUBSET Dirs
  /\ changes = 0
  /\ swapped = {}
  /\ inside = [d \in Dirs |-> "unknown"]
  /\ todo = tracked_paths
  /\ at = Idle
  /\ st = None
  /\ opened = None
  /\ copy = [p \in Paths |-> None]
  /\ copied = 0
  /\ failed = FALSE

\* The loop is done with the path; st and opened are locals of its turn.
Leave == at' = Idle /\ st' = None /\ opened' = None

\* `continue`: the path is left out.
Skip == Leave /\ UNCHANGED outVars

Copied(p, entry) ==
  /\ copy' = [copy EXCEPT ![p] = entry]
  /\ copied' = copied + 1
  /\ Leave
  /\ UNCHANGED failed

\* Errors other than those _copy_regular expects leave the function.
Fail == failed' = TRUE /\ Leave /\ UNCHANGED <<copy, copied>>

\* What a system call finds at p: the source's entry, or whatever lies where its
\* directory leads.
Reached(p) == IF Parent[p] \in away THEN Elsewhere ELSE {tree[p]}

\* Mutant of Visit: one directory that resolves inside vouches for the others.
Mutant_Visit(p) ==
  /\ at = Idle /\ ~failed
  /\ p \in todo
  /\ todo' = todo \ {p}
  /\ inside' = [inside EXCEPT ![Parent[p]] = IF Parent[p] \in away THEN "no" ELSE "yes"]
  /\ at' = IF \A d \in Dirs : inside'[d] # "yes" THEN Idle ELSE [path |-> p, step |-> "lstat"]
  /\ UNCHANGED <<fsVars, st, opened, outVars>>

\* The next path.  Where its directory resolves is asked once per directory; a
\* path is left out if that is outside the source.
Visit(p) ==
  LET d == Parent[p]
      resolved == IF d \in away THEN "no" ELSE "yes"
  IN /\ at = Idle /\ ~failed
     /\ p \in todo
     /\ todo' = todo \ {p}
     /\ inside' = IF inside[d] = "unknown" THEN [inside EXCEPT ![d] = resolved] ELSE inside
     /\ at' = IF inside'[d] = "no" THEN Idle ELSE [path |-> p, step |-> "lstat"]
     /\ UNCHANGED <<fsVars, st, opened, outVars>>

\* os.lstat: anything but a link or a regular file is passed over.
LStat(p) ==
  /\ at = [path |-> p, step |-> "lstat"]
  /\ \E entry \in Reached(p) :
       IF entry.kind \in {"link", "file"}
       THEN /\ st' = entry
            /\ at' = [at EXCEPT !.step = IF entry.kind = "link" THEN "readlink" ELSE "open"]
            /\ UNCHANGED <<opened, outVars>>
       ELSE Skip
  /\ UNCHANGED <<fsVars, inside, todo>>

ReadLink(p) ==
  /\ at = [path |-> p, step |-> "readlink"]
  /\ \E entry \in Reached(p) : IF entry.kind = "link" THEN Copied(p, entry) ELSE Fail
  /\ UNCHANGED <<fsVars, inside, todo>>

\* A descriptor of the entry, to be examined by fstat.
Opened(entry) ==
  /\ opened' = entry
  /\ at' = [at EXCEPT !.step = "fstat"]
  /\ UNCHANGED <<st, outVars>>

\* Mutant of Open: without O_NONBLOCK, a fifo waits for its writer.
Mutant_Open(p) ==
  /\ at = [path |-> p, step |-> "open"]
  /\ \E entry \in Reached(p) :
       \/ entry.kind \in {"link", "absent"} /\ Skip
       \/ entry.kind = "file" /\ Opened(entry)
  /\ UNCHANGED <<fsVars, inside, todo>>

\* os.open with O_NOFOLLOW and O_NONBLOCK: a link or a vanished entry is
\* skipped, a fifo or a directory opens at once.
Open(p) ==
  /\ at = [path |-> p, step |-> "open"]
  /\ \E entry \in Reached(p) :
       IF entry.kind \in {"link", "absent"} THEN Skip ELSE Opened(entry)
  /\ UNCHANGED <<fsVars, inside, todo>>

\* S_ISREG, and st_dev and st_ino as lstat reported them.
Unswapped ==
  opened.kind = "file" /\ opened.inode = st.inode /\ opened.outside = st.outside

\* Mutant of FStat: a swapped file is counted all the same.
Mutant_FStat(p) ==
  /\ at = [path |-> p, step |-> "fstat"]
  /\ IF Unswapped THEN Copied(p, opened)
     ELSE copied' = copied + 1 /\ Leave /\ UNCHANGED <<copy, failed>>
  /\ UNCHANGED <<fsVars, inside, todo>>

\* os.fstat: still the regular file that lstat saw?
FStat(p) ==
  /\ at = [path |-> p, step |-> "fstat"]
  /\ IF Unswapped THEN Copied(p, opened) ELSE Skip
  /\ UNCHANGED <<fsVars, inside, todo>>

\* An OSError that nobody expects: an unreadable file, a full disk.
Raise ==
  /\ at # Idle
  /\ Fail
  /\ UNCHANGED <<fsVars, inside, todo>>

\* Somebody replaces or removes an entry.
Edit(p) ==
  /\ changes < MaxChanges
  /\ changes' = changes + 1
  /\ \E k \in Kinds :
       tree' = [tree EXCEPT ![p] = [kind |-> k, inode |-> changes', outside |-> FALSE]]
  /\ UNCHANGED <<away, swapped, inside, todo, at, st, opened, outVars>>

\* Somebody swaps a directory for a link that leads out of the source, or puts one
\* back; those below it go with it.
Redirect ==
  /\ changes < MaxChanges
  /\ changes' = changes + 1
  /\ away' \in SUBSET Dirs
  /\ swapped' = swapped \cup {d \in away' \ away : inside[d] = "yes"}
  /\ UNCHANGED <<tree, inside, todo, at, st, opened, outVars>>

Copier == \E p \in tracked_paths : Visit(p) \/ LStat(p) \/ ReadLink(p) \/ Open(p) \/ FStat(p)

Done == at = Idle /\ (todo = {} \/ failed)

Returned == Done /\ UNCHANGED vars

Next ==
  \/ Copier \/ Raise
  \/ (\E p \in tracked_paths : Edit(p)) \/ Redirect
  \/ Returned

Spec == Init /\ [][Next]_vars /\ WF_vars(Copier)

-------------------------------------------------------------------------------
(* Properties *)

\* What is put into the copy is a link made of a link, or the very file that was
\* examined: one swapped between lstat and open is left out, and nothing is read
\* through a link or a fifo.  It comes from outside the source only through a
\* directory that was inside when it was checked and was led out afterwards, the one
\* case the function's docstring concedes; a directory that already led out, or is
\* led out before its check, lets nothing through.
OnlyExaminedEntries ==
  [][\A p \in Paths : copy'[p] # copy[p] =>
       /\ copy'[p].kind = st.kind
       /\ st.kind = "link" \/ (st.kind = "file" /\ copy'[p] = st)
       /\ copy'[p].outside => Parent[p] \in swapped]_vars

\* The count that decides "nothing is tracked" is the number of entries in the
\* copy, also when entries were swapped or vanished meanwhile.
CountIsTheCopy == copied = Cardinality({p \in Paths : copy[p] # None})

\* Of a tree nobody touches, exactly the tracked files and links under the source
\* are copied: not submodules, not what is deleted, not what lies elsewhere.
QuietCopyIsExact ==
  Done /\ ~failed /\ changes = 0 =>
    \A p \in Paths : copy[p] # None <=>
      p \in tracked_paths /\ Parent[p] \notin away /\ tree[p].kind \in {"file", "link"}

\* The loop ends, whatever is done to the tree.
CopyEnds == <>Done

\* The copy is what the count says it is and, of a quiet tree, what git tracks.
CopyIsExact == CountIsTheCopy /\ QuietCopyIsExact
===============================================================================
