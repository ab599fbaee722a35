-------------------------- MODULE TrackedFilesProofs --------------------------
(***************************************************************************)
(* What copy_tracked_files leaves behind, for every index, every layout of *)
(* directories, every kind of entry and any number of edits and redirected *)
(* directories behind its back.                                            *)
(***************************************************************************)
EXTENDS TrackedFiles, FiniteSetTheorems, TLAPS

Entries == [kind : Kinds, inode : Nat, outside : BOOLEAN]
Steps == {"lstat", "readlink", "open", "fstat"}

\* The path the loop is at, if it is at one.
Current == IF at = Idle THEN {} ELSE {at.path}

TypeInv ==
  /\ tree \in [tracked_paths -> Entries] /\ \A p \in tracked_paths : ~tree[p].outside
  /\ away \subseteq Dirs /\ swapped \subseteq Dirs /\ changes \in Nat
  /\ inside \in [Dirs -> {"unknown", "yes", "no"}]
  /\ todo \subseteq tracked_paths
  /\ at = Idle \/ at \in [path : tracked_paths, step : Steps]
  /\ st \in Entries \cup {None} /\ opened \in Entries \cup {None}
  /\ copy \in [Paths -> Entries \cup {None}]
  /\ copied \in Nat /\ failed \in BOOLEAN

\* Each path is visited once, and what was lstat'ed chose the branch.
LoopInv ==
  /\ Current \cap todo = {}
  /\ \A p \in todo \cup Current : copy[p] = None
  /\ at = Idle => st = None /\ opened = None
  /\ at # Idle /\ at.step = "readlink" => st.kind = "link"
  /\ at # Idle /\ at.step \in {"open", "fstat"} => st.kind = "file"

\* The loop is only at paths whose directory passed its check.  Where such a
\* directory leads out of the source now, or led out when its path was examined, it
\* was led out behind the check.
RedirectInv ==
  /\ \A d \in away : inside[d] = "yes" => d \in swapped
  /\ at # Idle => /\ inside[Parent[at.path]] = "yes"
                  /\ st.outside \/ opened.outside => Parent[at.path] \in swapped

\* While nobody has touched the tree, what was read of it still stands, and the
\* paths that are done are in the copy if and only if they belong there.
Wanted(p) == p \in tracked_paths /\ Parent[p] \notin away /\ tree[p].kind \in {"file", "link"}
QuietInv ==
  changes = 0 =>
    /\ \A d \in Dirs : /\ inside[d] = "yes" => d \notin away
                       /\ inside[d] = "no" => d \in away
    /\ at # Idle /\ at.step # "lstat" => st = tree[at.path]
    /\ at # Idle /\ at.step = "fstat" => opened = tree[at.path]
    /\ ~failed => \A p \in Paths \ (todo \cup Current) : copy[p] # None <=> Wanted(p)

CopiedPaths == {p \in Paths : copy[p] # None}

IInv == TypeInv /\ LoopInv /\ RedirectInv /\ QuietInv /\ CountIsTheCopy
-------------------------------------------------------------------------------
LEMMA NoneIsNoEntry == None \notin Entries /\ None.kind = "none" /\ ~None.outside
  BY FilesAssumption DEF None, Entries

LEMMA TrackedHaveDirs == ASSUME NEW p \in tracked_paths PROVE p \in Paths /\ Parent[p] \in Dirs
  BY FilesAssumption DEF tracked_paths

\* What a system call finds is an entry; through a directory that was checked and
\* never led out, it is the source's, and in the quiet it is the one in the tree.
LEMMA ReachedIsEntry ==
  ASSUME IInv, NEW p \in tracked_paths, at # Idle, at.path = p, NEW entry \in Reached(p)
  PROVE  /\ entry \in Entries
         /\ entry.outside => Parent[p] \in swapped
         /\ changes = 0 => entry = tree[p] /\ Parent[p] \notin away
<1>1. Elsewhere \subseteq Entries BY FilesAssumption DEF Entries
<1>2. Parent[p] \in Dirs /\ inside[Parent[p]] = "yes" BY TrackedHaveDirs DEF IInv, RedirectInv
<1>3. Parent[p] \in away => Parent[p] \in swapped BY <1>2 DEF IInv, RedirectInv
<1>4. changes = 0 => Parent[p] \notin away BY <1>2 DEF IInv, QuietInv
<1>5. CASE Parent[p] \in away BY <1>1, <1>3, <1>4, <1>5 DEF Reached
<1>6. CASE Parent[p] \notin away BY <1>6 DEF Reached, IInv, TypeInv
<1> QED BY <1>5, <1>6

\* One more path in the copy, the one the loop is at.
CopyStep(p) == \E entry \in Entries : at # Idle /\ at.path = p /\ Copied(p, entry)

\* One more entry in the copy is one more in the counter.
LEMMA CopiedCounts ==
  ASSUME IInv, NEW p \in tracked_paths, CopyStep(p) PROVE CountIsTheCopy'
<1>1. PICK entry \in Entries : at # Idle /\ at.path = p /\ Copied(p, entry) BY DEF CopyStep
<1>2. copy[p] = None /\ p \in Paths BY <1>1, TrackedHaveDirs DEF IInv, LoopInv, Current
<1>3. CopiedPaths' = CopiedPaths \cup {p} /\ p \notin CopiedPaths
  BY <1>1, <1>2, NoneIsNoEntry DEF Copied, CopiedPaths, IInv, TypeInv
<1>4. IsFiniteSet(CopiedPaths) BY FS_Subset, FilesAssumption DEF CopiedPaths
<1>5. Cardinality(CopiedPaths') = Cardinality(CopiedPaths) + 1 BY <1>3, <1>4, FS_AddElement
<1>6. copied = Cardinality(CopiedPaths) /\ copied' = copied + 1
  BY <1>1 DEF Copied, IInv, CountIsTheCopy, CopiedPaths
<1> QED BY <1>5, <1>6 DEF CountIsTheCopy, CopiedPaths

\* The ways a path's turn ends: left out, copied, or with an error that ends it all.
LEMMA LeaveKeepsInvariant ==
  ASSUME IInv, UNCHANGED <<fsVars, inside, todo>>,
         NEW p \in tracked_paths, at # Idle, at.path = p,
         \/ Skip /\ (changes = 0 => ~Wanted(p))
         \/ Fail
         \/ \E entry \in Entries : Copied(p, entry) /\ (changes = 0 => Wanted(p))
  PROVE  IInv'
<1> USE NoneIsNoEntry DEF IInv, Leave, fsVars, Idle
<1>0. p \in Paths BY TrackedHaveDirs
<1>1. CASE Fail
  <2> USE <1>1 DEF Fail
  <2>1. TypeInv' BY DEF TypeInv
  <2>2. (LoopInv /\ RedirectInv)' BY DEF LoopInv, RedirectInv, Current
  <2>3. QuietInv' BY DEF QuietInv
  <2>4. CountIsTheCopy' BY DEF CountIsTheCopy
  <2> QED BY <2>1, <2>2, <2>3, <2>4
<1>2. CASE Skip /\ (changes = 0 => ~Wanted(p))
  <2> USE <1>2 DEF Skip, outVars
  <2>1. TypeInv' BY DEF TypeInv
  <2>2. (LoopInv /\ RedirectInv)' BY DEF LoopInv, RedirectInv, Current
  <2>3. copy[p] = None BY DEF LoopInv, Current
  <2>4. QuietInv' BY <2>3 DEF QuietInv, Current, Wanted
  <2>5. CountIsTheCopy' BY DEF CountIsTheCopy
  <2> QED BY <2>1, <2>2, <2>4, <2>5
<1>3. CASE \E entry \in Entries : Copied(p, entry) /\ (changes = 0 => Wanted(p))
  <2>1. PICK entry \in Entries : Copied(p, entry) /\ (changes = 0 => Wanted(p)) BY <1>3
  <2>2. CountIsTheCopy' BY <2>1, CopiedCounts DEF CopyStep
  <2> USE <1>0, <2>1 DEF Copied
  <2>3. copy' \in [Paths -> Entries \cup {None}] BY DEF TypeInv
  <2>4. TypeInv' BY <2>3 DEF TypeInv
  <2>5. (LoopInv /\ RedirectInv)' BY DEF LoopInv, RedirectInv, Current, TypeInv
  <2>6. copy'[p] = entry /\ \A q \in Paths \ {p} : copy'[q] = copy[q] BY DEF TypeInv
  <2>7. QuietInv' BY <2>6 DEF QuietInv, Current, Wanted
  <2> QED BY <2>2, <2>4, <2>5, <2>7
<1> QED BY <1>1, <1>2, <1>3

LEMMA VisitKeepsInvariant == ASSUME IInv, NEW p \in tracked_paths, Visit(p) PROVE IInv'
<1> USE NoneIsNoEntry DEF IInv, Visit, Idle, fsVars, outVars
<1>0. p \in Paths /\ Parent[p] \in Dirs BY TrackedHaveDirs
<1>1. inside' \in [Dirs -> {"unknown", "yes", "no"}] BY <1>0 DEF TypeInv
<1>2. TypeInv' BY <1>1 DEF TypeInv, Steps
<1>3. at' = Idle \/ (at' # Idle /\ at'.path = p /\ at'.step = "lstat" /\ inside'[Parent[p]] = "yes")
  BY <1>0, <1>1
<1>4. LoopInv' BY <1>3 DEF LoopInv, Current
<1>5. \A d \in Dirs : \/ inside'[d] = inside[d]
                      \/ d = Parent[p] /\ inside'[d] = IF d \in away THEN "no" ELSE "yes"
  BY <1>0 DEF TypeInv
<1>6. RedirectInv'
  <2>1. \A d \in away : inside'[d] = "yes" => d \in swapped BY <1>5 DEF RedirectInv, TypeInv
  <2>2. st = None /\ opened = None BY DEF LoopInv
  <2> QED BY <1>3, <2>1, <2>2 DEF RedirectInv
<1>7. QuietInv' BY <1>0, <1>3, <1>5 DEF QuietInv, Current, Wanted, LoopInv
<1>8. CountIsTheCopy' BY DEF CountIsTheCopy
<1> QED BY <1>2, <1>4, <1>6, <1>7, <1>8

LEMMA LStatKeepsInvariant == ASSUME IInv, NEW p \in tracked_paths, LStat(p) PROVE IInv'
<1> USE NoneIsNoEntry DEF LStat, Idle
<1>1. PICK entry \in Reached(p) :
        IF entry.kind \in {"link", "file"}
        THEN /\ st' = entry
             /\ at' = [at EXCEPT !.step = IF entry.kind = "link" THEN "readlink" ELSE "open"]
             /\ UNCHANGED <<opened, outVars>>
        ELSE Skip
  OBVIOUS
<1>2. at # Idle /\ at.path = p OBVIOUS
<1>3. /\ entry \in Entries
      /\ entry.outside => Parent[p] \in swapped
      /\ changes = 0 => entry = tree[p] /\ Parent[p] \notin away
  BY <1>1, <1>2, ReachedIsEntry
<1>4. CASE entry.kind \in {"link", "file"}
  <2> USE <1>1, <1>3, <1>4 DEF IInv, fsVars, outVars
  <2>1. at' = [path |-> p, step |-> IF entry.kind = "link" THEN "readlink" ELSE "open"] OBVIOUS
  <2>2. TypeInv' BY <2>1 DEF TypeInv, Steps
  <2>3. (LoopInv /\ RedirectInv)' BY <2>1 DEF LoopInv, RedirectInv, Current
  <2>4. QuietInv' BY <2>1 DEF QuietInv, Current, Wanted
  <2>5. CountIsTheCopy' BY DEF CountIsTheCopy
  <2> QED BY <2>2, <2>3, <2>4, <2>5
<1>5. CASE entry.kind \notin {"link", "file"}
  <2>1. Skip /\ (changes = 0 => ~Wanted(p)) BY <1>1, <1>3, <1>5 DEF Wanted
  <2> QED BY <1>2, <2>1, LeaveKeepsInvariant
<1> QED BY <1>4, <1>5

LEMMA ReadLinkKeepsInvariant == ASSUME IInv, NEW p \in tracked_paths, ReadLink(p) PROVE IInv'
<1> USE DEF ReadLink, Idle
<1>1. PICK entry \in Reached(p) : IF entry.kind = "link" THEN Copied(p, entry) ELSE Fail OBVIOUS
<1>2. at # Idle /\ at.path = p OBVIOUS
<1>3. entry \in Entries /\ (changes = 0 => entry = tree[p] /\ Parent[p] \notin away)
  BY <1>1, <1>2, ReachedIsEntry
<1>4. Fail \/ (Copied(p, entry) /\ (changes = 0 => Wanted(p))) BY <1>1, <1>3 DEF Wanted
<1> QED BY <1>2, <1>3, <1>4, LeaveKeepsInvariant

LEMMA OpenKeepsInvariant == ASSUME IInv, NEW p \in tracked_paths, Open(p) PROVE IInv'
<1> USE NoneIsNoEntry DEF Open, Idle
<1>1. PICK entry \in Reached(p) :
        IF entry.kind \in {"link", "absent"} THEN Skip ELSE Opened(entry)
  OBVIOUS
<1>2. at # Idle /\ at.path = p /\ at.step = "open" OBVIOUS
<1>3. /\ entry \in Entries
      /\ entry.outside => Parent[p] \in swapped
      /\ changes = 0 => entry = tree[p] /\ Parent[p] \notin away
  BY <1>1, <1>2, ReachedIsEntry
<1>4. CASE entry.kind \in {"link", "absent"}
  <2>1. changes = 0 => st = tree[p] /\ st.kind = "file" BY <1>2 DEF IInv, QuietInv, LoopInv
  <2>2. Skip /\ (changes = 0 => ~Wanted(p)) BY <1>1, <1>3, <1>4, <2>1
  <2> QED BY <1>2, <2>2, LeaveKeepsInvariant
<1>5. CASE entry.kind \notin {"link", "absent"}
  <2> USE <1>1, <1>3, <1>5 DEF Opened, IInv, fsVars, outVars
  <2>1. at' = [path |-> p, step |-> "fstat"] OBVIOUS
  <2>2. TypeInv' BY <2>1 DEF TypeInv, Steps
  <2>3. (LoopInv /\ RedirectInv)' BY <1>2, <2>1 DEF LoopInv, RedirectInv, Current
  <2>4. QuietInv' BY <1>2, <2>1 DEF QuietInv, Current, Wanted
  <2>5. CountIsTheCopy' BY DEF CountIsTheCopy
  <2> QED BY <2>2, <2>3, <2>4, <2>5
<1> QED BY <1>4, <1>5

LEMMA FStatKeepsInvariant == ASSUME IInv, NEW p \in tracked_paths, FStat(p) PROVE IInv'
<1> USE DEF FStat, Idle
<1>1. at # Idle /\ at.path = p /\ at.step = "fstat" OBVIOUS
<1>2. changes = 0 => st = tree[p] /\ opened = tree[p] /\ st.kind = "file" /\ Parent[p] \notin away
  <2>1. Parent[p] \in Dirs /\ inside[Parent[p]] = "yes"
    BY <1>1, TrackedHaveDirs DEF IInv, RedirectInv
  <2> QED BY <1>1, <2>1 DEF IInv, QuietInv, LoopInv
<1>3. changes = 0 => Unswapped /\ Wanted(p) BY <1>2 DEF Unswapped, Wanted
<1>4. opened.kind = "file" => opened \in Entries BY NoneIsNoEntry DEF IInv, TypeInv
<1>5. \/ Skip /\ (changes = 0 => ~Wanted(p))
      \/ opened \in Entries /\ Copied(p, opened) /\ (changes = 0 => Wanted(p))
  BY <1>3, <1>4 DEF Unswapped
<1> QED BY <1>1, <1>5, LeaveKeepsInvariant

LEMMA RaiseKeepsInvariant == ASSUME IInv, Raise PROVE IInv'
<1>1. at.path \in tracked_paths BY DEF Raise, IInv, TypeInv
<1> QED BY <1>1, LeaveKeepsInvariant DEF Raise

\* The file system changes: the quiet is over, and a directory led out behind its
\* check is on record.
LEMMA ChangeKeepsInvariant ==
  ASSUME IInv, (\E p \in tracked_paths : Edit(p)) \/ Redirect PROVE IInv'
<1>1. changes' \in Nat /\ changes' # 0 /\ UNCHANGED <<inside, todo, at, st, opened, outVars>>
  BY DEF Edit, Redirect, IInv, TypeInv
<1>2. tree' \in [tracked_paths -> Entries] /\ \A q \in tracked_paths : ~tree'[q].outside
  <2>1. CASE Redirect BY <2>1 DEF Redirect, IInv, TypeInv
  <2>2. CASE \E p \in tracked_paths : Edit(p)
    <3>1. PICK p \in tracked_paths, k \in Kinds :
            tree' = [tree EXCEPT ![p] = [kind |-> k, inode |-> changes', outside |-> FALSE]]
      BY <2>2 DEF Edit
    <3>2. [kind |-> k, inode |-> changes', outside |-> FALSE] \in Entries BY <1>1 DEF Entries
    <3> QED BY <3>1, <3>2 DEF IInv, TypeInv
  <2> QED BY <2>1, <2>2
<1>3. TypeInv' BY <1>1, <1>2 DEF Edit, Redirect, IInv, TypeInv, outVars
<1>4. LoopInv' BY <1>1 DEF IInv, LoopInv, Current, outVars
<1>5. RedirectInv' BY <1>1 DEF Edit, Redirect, IInv, RedirectInv, TypeInv
<1>6. QuietInv' BY <1>1 DEF QuietInv
<1>7. CountIsTheCopy' BY <1>1 DEF IInv, CountIsTheCopy, outVars
<1> QED BY <1>3, <1>4, <1>5, <1>6, <1>7 DEF IInv

LEMMA InitInvariant == Init => IInv
<1> SUFFICES ASSUME Init PROVE IInv OBVIOUS
<1> USE DEF Init
<1>1. TypeInv
  <2>1. ASSUME NEW e \in [kind : Kinds, inode : {0}, outside : {FALSE}]
        PROVE  e \in Entries /\ ~e.outside
    <3>1. e.kind \in Kinds /\ e.inode = 0 /\ e.outside = FALSE OBVIOUS
    <3>2. e = [kind |-> e.kind, inode |-> 0, outside |-> FALSE] BY <3>1
    <3>3. \A k \in Kinds : [kind |-> k, inode |-> 0, outside |-> FALSE] \in Entries BY DEF Entries
    <3>4. e \in Entries BY <3>1, <3>2, <3>3
    <3> QED BY <3>1, <3>4
  <2>2. tree \in [tracked_paths -> Entries] /\ \A p \in tracked_paths : ~tree[p].outside BY <2>1
  <2>3. todo \subseteq tracked_paths /\ away \subseteq Dirs /\ swapped \subseteq Dirs OBVIOUS
  <2>4. inside \in [Dirs -> {"unknown", "yes", "no"}] /\ copy \in [Paths -> Entries \cup {None}]
    OBVIOUS
  <2>5. at = Idle /\ st = None /\ opened = None /\ copied \in Nat /\ failed \in BOOLEAN
          /\ changes \in Nat
    OBVIOUS
  <2> HIDE DEF Init
  <2> QED BY <2>2, <2>3, <2>4, <2>5 DEF TypeInv
<1>2. LoopInv /\ RedirectInv BY DEF LoopInv, RedirectInv, Current, tracked_paths
<1>3. QuietInv BY DEF QuietInv, Current, Wanted, tracked_paths
<1>4. CountIsTheCopy
  <2>1. {p \in Paths : copy[p] # None} = {} OBVIOUS
  <2> QED BY <2>1, FS_EmptySet DEF CountIsTheCopy
<1> QED BY <1>1, <1>2, <1>3, <1>4 DEF IInv

LEMMA StepInvariant == IInv /\ [Next]_vars => IInv'
<1> SUFFICES ASSUME IInv, [Next]_vars PROVE IInv' OBVIOUS
<1>1. CASE Copier
  BY <1>1, VisitKeepsInvariant, LStatKeepsInvariant, ReadLinkKeepsInvariant, OpenKeepsInvariant,
     FStatKeepsInvariant DEF Copier
<1>2. CASE Raise BY <1>2, RaiseKeepsInvariant
<1>3. CASE (\E p \in tracked_paths : Edit(p)) \/ Redirect BY <1>3, ChangeKeepsInvariant
<1>4. CASE UNCHANGED vars
  BY <1>4 DEF vars, fsVars, outVars, IInv, TypeInv, LoopInv, RedirectInv, QuietInv, CountIsTheCopy,
     Current, Wanted
<1> QED BY <1>1, <1>2, <1>3, <1>4 DEF Next, Returned

\* The invariant of the loop holds in every state of every copy.
THEOREM InvariantHolds == Spec => []IInv
  BY InitInvariant, StepInvariant, PTL DEF Spec
-------------------------------------------------------------------------------
\* The counter that decides "nothing is tracked" is the number of entries in the copy,
\* and the copy of a tree nobody touched has exactly the tracked files and links.
THEOREM CopyIsAlwaysExact == Spec => []CopyIsExact
<1>1. IInv => CopyIsExact
  <2> SUFFICES ASSUME IInv PROVE CopyIsExact OBVIOUS
  <2>1. CountIsTheCopy BY DEF IInv
  <2>2. QuietCopyIsExact
    <3> SUFFICES ASSUME Done, ~failed, changes = 0, NEW p \in Paths
                 PROVE  copy[p] # None <=> Wanted(p)
      BY DEF QuietCopyIsExact, Wanted
    <3>1. p \notin todo \cup Current BY DEF Done, Current
    <3> QED BY <3>1 DEF IInv, QuietInv
  <2> QED BY <2>1, <2>2 DEF CopyIsExact
<1> QED BY <1>1, InvariantHolds, PTL

\* Whatever is done to the tree and to its directories between two system calls: what
\* goes into the copy is a link made of a link or the very file that was examined, and
\* it comes from outside the source only through a directory led out behind its check.
THEOREM CopiesAreExamined == Spec => OnlyExaminedEntries
<1> DEFINE Examined ==
      \A p \in Paths : copy'[p] # copy[p] =>
        /\ copy'[p].kind = st.kind
        /\ st.kind = "link" \/ (st.kind = "file" /\ copy'[p] = st)
        /\ copy'[p].outside => Parent[p] \in swapped
<1>1. IInv /\ [Next]_vars => [Examined]_vars
  <2> SUFFICES ASSUME IInv, Next, NEW p \in Paths, copy'[p] # copy[p]
               PROVE  /\ copy'[p].kind = st.kind
                      /\ st.kind = "link" \/ (st.kind = "file" /\ copy'[p] = st)
                      /\ copy'[p].outside => Parent[p] \in swapped
    OBVIOUS
  <2>1. PICK q \in tracked_paths : Visit(q) \/ LStat(q) \/ ReadLink(q) \/ Open(q) \/ FStat(q)
    BY DEF Next, Copier, Raise, Fail, Returned, Edit, Redirect, outVars, vars
  <2>2. CASE ReadLink(q)
    <3>1. PICK entry \in Reached(q) : entry.kind = "link" /\ Copied(q, entry)
      BY <2>2 DEF ReadLink, Fail
    <3>2. p = q /\ copy'[p] = entry BY <3>1 DEF Copied, IInv, TypeInv
    <3>3. at # Idle /\ at.path = q /\ at.step = "readlink" BY <2>2 DEF ReadLink, Idle
    <3>4. entry.outside => Parent[q] \in swapped BY <3>3, ReachedIsEntry
    <3> QED BY <3>1, <3>2, <3>3, <3>4 DEF IInv, LoopInv
  <2>3. CASE FStat(q)
    <3>1. Unswapped /\ Copied(q, opened) BY <2>3 DEF FStat, Skip, outVars
    <3>2. p = q /\ copy'[p] = opened BY <3>1 DEF Copied, IInv, TypeInv
    <3>3. at # Idle /\ at.path = q /\ at.step = "fstat" BY <2>3 DEF FStat, Idle
    <3>4. st.kind = "file" BY <3>3 DEF IInv, LoopInv
    <3>5. st \in Entries /\ opened \in Entries
      BY <3>1, <3>4, NoneIsNoEntry DEF IInv, TypeInv, Unswapped
    <3>6. opened = st BY <3>1, <3>4, <3>5 DEF Entries, Unswapped
    <3>7. opened.outside => Parent[q] \in swapped BY <3>3 DEF IInv, RedirectInv
    <3> QED BY <3>2, <3>4, <3>6, <3>7
  <2> QED BY <2>1, <2>2, <2>3 DEF Visit, LStat, Open, Opened, Skip, Fail, outVars
<1> QED BY <1>1, InvariantHolds, PTL DEF Spec, OnlyExaminedEntries
===============================================================================
