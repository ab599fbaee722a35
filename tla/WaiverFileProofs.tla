--------------------------- MODULE WaiverFileProofs ---------------------------
(***************************************************************************)
(* What the waiver commands do to a file, for every document, every set of *)
(* findings and any number of commands, days and crashes.                  *)
(***************************************************************************)
EXTENDS WaiverFile, SequenceTheorems, FiniteSetTheorems, TLAPS

-------------------------------------------------------------------------------
(* The file stays loadable *)

LEMMA EmptyLoads == Loads(EmptyDocument)
  BY DEF Loads, EmptyDocument

\* Generated entries have no scope at all.
LEMMA GeneratedLoads == ASSUME NEW active PROVE Loads(generate_benchmark_yaml(active))
<1> DEFINE doc == generate_benchmark_yaml(active)
<1>1. doc.finding_waivers = <<>> /\ doc.path_exclusions = <<>>
  BY DEF generate_benchmark_yaml, EmptyDocument
<1> QED BY <1>1 DEF Loads

LEMMA CommandLoads ==
  ASSUME FileAlwaysLoads, NEW new, Command(new) PROVE FileAlwaysLoads'
<1>1. CASE file' = file BY <1>1 DEF FileAlwaysLoads
<1>2. CASE file' # file
  <2>1. Loads(new) /\ file' \in {new, file, EmptyDocument} BY <1>2 DEF Command, Write
  <2>2. Loads(file') BY <1>2, <2>1, EmptyLoads
  <2> QED BY <2>2 DEF FileAlwaysLoads
<1> QED BY <1>1, <1>2

\* Steps that are not a command leave the file alone, or adopt a generated one.
LEMMA OtherLoads ==
  ASSUME FileAlwaysLoads,
         \/ Tick \/ AdoptBenchmark \/ UNCHANGED vars
         \/ \E fs \in SUBSET Findings, grace \in GraceOptions : Scan(fs, grace)
  PROVE  FileAlwaysLoads'
<1>1. CASE AdoptBenchmark BY <1>1, GeneratedLoads DEF AdoptBenchmark, FileAlwaysLoads
<1>2. CASE ~AdoptBenchmark
  <2>1. file' = file BY <1>2 DEF Tick, Scan, vars
  <2> QED BY <2>1 DEF FileAlwaysLoads
<1> QED BY <1>1, <1>2

\* Every step is a command or one of the others.
LEMMA CommandOrOther ==
  ASSUME [Next]_vars
  PROVE  \/ \E new : Command(new)
         \/ Tick \/ AdoptBenchmark \/ UNCHANGED vars
         \/ \E fs \in SUBSET Findings, grace \in GraceOptions : Scan(fs, grace)
  BY DEF Next, Add, Prune, PruneWithReport, Migrate, BaselineUpdate

\* No sequence of commands, days, scans and crashes leaves a file that the next scan
\* rejects.
THEOREM FilesAlwaysLoad == Spec => []FileAlwaysLoads
<1>1. Init => FileAlwaysLoads BY InitialAssumption DEF Init, FileAlwaysLoads
<1>2. FileAlwaysLoads /\ [Next]_vars => FileAlwaysLoads'
  BY CommandOrOther, CommandLoads, OtherLoads
<1> QED BY <1>1, <1>2, PTL DEF Spec

\* Whatever changes the file, an interrupted write too, leaves its content in the
\* .bak.
THEOREM PreviousContentIsKept == Spec => PreviousContentKept
<1>1. [Next]_vars => [file' # file /\ file # Missing => backup' = file]_vars
  <2> SUFFICES ASSUME [Next]_vars, file' # file, file # Missing PROVE backup' = file
    OBVIOUS
  <2>1. PICK new : Command(new) BY CommandOrOther DEF Tick, AdoptBenchmark, Scan, vars
  <2> QED BY <2>1 DEF Command, Write
<1> QED BY <1>1, PTL DEF Spec, PreviousContentKept
-------------------------------------------------------------------------------
(* A migration loses no waiver *)

\* The alias of a legacy fingerprint is the primary one of every finding that has it.
LEMMA AliasIsPrimary ==
  ASSUME FindingAssumption, NEW fs \in SUBSET Findings, NEW f \in Findings,
         NEW l \in f.legacy, l \in DOMAIN fingerprint_aliases(fs)
  PROVE  fingerprint_aliases(fs)[l] \in f.fingerprints
<1>1. PICK g \in fs : l \in g.legacy BY DEF fingerprint_aliases
<1> DEFINE h == CHOOSE g1 \in fs : l \in g1.legacy
<1>2. h \in fs /\ l \in h.legacy BY <1>1
<1>3. h.primary = f.primary BY <1>2 DEF FindingAssumption
<1>4. fingerprint_aliases(fs)[l] = h.primary BY <1>1 DEF fingerprint_aliases
<1> QED BY <1>3, <1>4 DEF FindingAssumption

LEMMA EntryType ==
  ASSUME NEW K, NEW T, NEW entries \in Entries(K, T), NEW i \in DOMAIN entries
  PROVE  entries[i] \in [key : K, expires : Int, tools : SUBSET T]
<1>1. DOMAIN entries = 1..Len(entries) BY DEF Entries
<1> QED BY <1>1, ElementOfSeq DEF Entries

\* A rewritten entry keeps its date and scope, and a finding it matched.
LEMMA RewrittenEntryMatches ==
  ASSUME FindingAssumption, NEW K, NEW T, NEW entries \in Entries(K, T),
         NEW fs \in SUBSET Findings, NEW f \in Findings, NEW i \in DOMAIN entries
  PROVE  LET new == rewrite_fingerprints(entries, fingerprint_aliases(fs))
         IN /\ DOMAIN new = DOMAIN entries
            /\ new[i].expires = entries[i].expires
            /\ new[i].tools = entries[i].tools
            /\ entries[i].key \in f.fingerprints \cup f.legacy =>
                 new[i].key \in f.fingerprints \cup f.legacy
<1> DEFINE aliases == fingerprint_aliases(fs)
           new == rewrite_fingerprints(entries, aliases)
<1>1. entries[i] \in [key : K, expires : Int, tools : SUBSET T] BY EntryType
<1>2. DOMAIN new = DOMAIN entries BY DEF rewrite_fingerprints
<1>3. CASE entries[i].key \notin DOMAIN aliases
  BY <1>2, <1>3 DEF rewrite_fingerprints
<1>4. CASE entries[i].key \in DOMAIN aliases
  <2>1. new[i] = [entries[i] EXCEPT !.key = aliases[entries[i].key]]
    BY <1>4 DEF rewrite_fingerprints
  <2>2. entries[i].key \notin f.fingerprints
    BY <1>4 DEF FindingAssumption, fingerprint_aliases
  <2>3. entries[i].key \in f.legacy => aliases[entries[i].key] \in f.fingerprints
    BY <1>4, AliasIsPrimary
  <2>4. new[i].key = aliases[entries[i].key] /\ new[i].expires = entries[i].expires
          /\ new[i].tools = entries[i].tools
    BY <1>1, <2>1
  <2> QED BY <1>2, <2>2, <2>3, <2>4
<1> QED BY <1>3, <1>4

\* A document without dormant keys means what it says, in either version.
LEMMA NotDormantMeansAll ==
  ASSUME NEW K, NEW P, NEW T, NEW doc \in Documents(K, P, T), ~Dormant(doc)
  PROVE  /\ to_waiver_set(doc).benchmark_expires_at = doc.benchmark_expires_at
         /\ \A s \in Sections : /\ DOMAIN to_waiver_set(doc)[s] = DOMAIN doc[s]
                                /\ \A i \in DOMAIN doc[s] : to_waiver_set(doc)[s][i] = doc[s][i]
<1>1. CASE doc.version = "1.1" BY <1>1 DEF to_waiver_set
<1>2. CASE doc.version # "1.1"
  <2>1. doc.version = "1.0" BY <1>2 DEF Documents, Versions
  <2>2. doc.benchmark_expires_at = NoDate /\ \A i \in DOMAIN doc.finding_waivers : doc.finding_waivers[i].tools = {}
    BY <2>1 DEF Dormant
  <2> DEFINE ws == to_waiver_set(doc)
  <2>3. ws = [doc EXCEPT !.finding_waivers = Unscoped(@), !.benchmark_expires_at = NoDate]
    BY <1>2 DEF to_waiver_set
  <2>4. /\ ws.finding_waivers = Unscoped(doc.finding_waivers) /\ ws.benchmark = doc.benchmark
        /\ ws.path_exclusions = doc.path_exclusions /\ ws.benchmark_expires_at = NoDate
    BY <2>3 DEF Documents
  <2>5. ASSUME NEW i \in DOMAIN doc.finding_waivers
        PROVE  Unscoped(doc.finding_waivers)[i] = doc.finding_waivers[i]
    <3>1. doc.finding_waivers[i] \in [key : K, expires : Int, tools : SUBSET T]
      BY EntryType DEF Documents
    <3> QED BY <2>2, <3>1 DEF Unscoped
  <2>6. DOMAIN Unscoped(doc.finding_waivers) = DOMAIN doc.finding_waivers BY DEF Unscoped
  <2> QED BY <2>2, <2>4, <2>5, <2>6 DEF Sections
<1> QED BY <1>1, <1>2

\* A migration to either version, with the aliases of any report, keeps every finding
\* waived that was, on every day and for every grace, in that report or not.
THEOREM MigrationLosesNoWaiver ==
  ASSUME FindingAssumption, NEW K, NEW P, NEW T, NEW doc \in Documents(K, P, T), ~Dormant(doc),
         NEW to \in Versions, doc.version = "1.1" => to = "1.1",
         NEW fs \in SUBSET Findings, NEW f \in Findings, NEW day, NEW grace,
         Waived(to_waiver_set(doc), f, day, grace)
  PROVE  Waived(to_waiver_set(migrate_data(doc, to, fingerprint_aliases(fs))), f, day, grace)
<1> DEFINE aliases == fingerprint_aliases(fs)
           new == migrate_data(doc, to, aliases)
           ws == to_waiver_set(doc)
           new_ws == to_waiver_set(new)
           Rewritten(s) == IF s = "path_exclusions" THEN doc[s] ELSE rewrite_fingerprints(doc[s], aliases)
<1>1. /\ new.version = to /\ new.benchmark_expires_at = doc.benchmark_expires_at
      /\ \A s \in Sections : new[s] = Rewritten(s)
  BY DEF migrate_data, Documents, Sections
<1>2. \A s \in Sections : \A i \in DOMAIN doc[s] :
        /\ DOMAIN new[s] = DOMAIN doc[s]
        /\ new[s][i].expires = doc[s][i].expires /\ new[s][i].tools = doc[s][i].tools
        /\ s = "path_exclusions" => new[s][i].key = doc[s][i].key
        /\ s # "path_exclusions" /\ doc[s][i].key \in f.fingerprints \cup f.legacy =>
             new[s][i].key \in f.fingerprints \cup f.legacy
  <2> TAKE s \in Sections
  <2> TAKE i \in DOMAIN doc[s]
  <2>1. CASE s = "path_exclusions" BY <1>1, <2>1
  <2>2. CASE s # "path_exclusions"
    <3>1. doc[s] \in Entries(K, T) BY <2>2 DEF Documents, Sections
    <3>2. new[s] = rewrite_fingerprints(doc[s], aliases) BY <1>1, <2>2
    <3> QED BY <2>2, <3>1, <3>2, RewrittenEntryMatches
  <2> QED BY <2>1, <2>2
<1>3. PICK ref \in matches_for(ws, f) : ~Expired(Expiry(ws, ref), day, grace)
  BY DEF Waived
<1>4. PICK s \in Sections : \E k \in DOMAIN ws[s] : ref = <<s, k>>
  BY <1>3 DEF matches_for, Refs
<1>i. PICK i \in DOMAIN ws[s] : ref = <<s, i>>
  BY <1>4
<1>5. /\ ws.benchmark_expires_at = doc.benchmark_expires_at
      /\ i \in DOMAIN doc[s] /\ ws[s][i] = doc[s][i]
  BY NotDormantMeansAll
<1>6. new \in Documents(K \cup {aliases[l] : l \in DOMAIN aliases}, P, T)
  <2> DEFINE K2 == K \cup {aliases[l] : l \in DOMAIN aliases}
  <2>1. ASSUME NEW entries \in Entries(K, T)
        PROVE  rewrite_fingerprints(entries, aliases) \in Entries(K2, T)
    <3>1. DOMAIN entries = 1..Len(entries) /\ Len(entries) \in Nat BY DEF Entries
    <3>2. ASSUME NEW k \in DOMAIN entries
          PROVE  rewrite_fingerprints(entries, aliases)[k] \in [key : K2, expires : Int, tools : SUBSET T]
      BY EntryType DEF rewrite_fingerprints
    <3>3. rewrite_fingerprints(entries, aliases) \in [1..Len(entries) -> [key : K2, expires : Int, tools : SUBSET T]]
      BY <3>1, <3>2 DEF rewrite_fingerprints
    <3>4. \A S, g : \A n \in Nat : g \in [1..n -> S] => g \in Seq(S) BY SeqDef
    <3>5. rewrite_fingerprints(entries, aliases) \in Seq([key : K2, expires : Int, tools : SUBSET T])
      BY <3>1, <3>3, <3>4
    <3> QED BY <3>5, Zenon DEF Entries
  <2>2. doc.finding_waivers \in Entries(K, T) /\ doc.benchmark \in Entries(K, T) BY DEF Documents
  <2>3. /\ rewrite_fingerprints(doc.finding_waivers, aliases) \in Entries(K2, T)
        /\ rewrite_fingerprints(doc.benchmark, aliases) \in Entries(K2, T)
    BY <2>1, <2>2
  <2> QED BY <2>3 DEF migrate_data, Documents
<1>7. ~Dormant(new)
  <2> SUFFICES ASSUME to = "1.0" PROVE ~Dormant(new)
    BY <1>1 DEF Dormant
  <2>1. doc.version = "1.0" BY DEF Documents, Versions
  <2>2. doc.benchmark_expires_at = NoDate /\ \A k \in DOMAIN doc.finding_waivers : doc.finding_waivers[k].tools = {}
    BY <2>1 DEF Dormant
  <2>3. /\ DOMAIN new.finding_waivers = DOMAIN doc.finding_waivers
        /\ \A k \in DOMAIN doc.finding_waivers : new.finding_waivers[k].tools = doc.finding_waivers[k].tools
    BY <1>1, <1>2 DEF Sections, rewrite_fingerprints
  <2> QED BY <1>1, <2>2, <2>3 DEF Dormant
<1>8. /\ new_ws.benchmark_expires_at = doc.benchmark_expires_at
      /\ i \in DOMAIN new_ws[s] /\ new_ws[s][i] = new[s][i]
  BY <1>1, <1>2, <1>5, <1>6, <1>7, NotDormantMeansAll
<1> HIDE DEF ws, new_ws, new, aliases
<1>9. ref \in matches_for(new_ws, f)
  <2>1. /\ entry_applies_to_tool(ws[s][i].tools, f.tool)
        /\ IF s = "path_exclusions" THEN f.paths # {} /\ f.paths \subseteq ws[s][i].key
           ELSE ws[s][i].key \in f.fingerprints \cup f.legacy
    BY <1>3, <1>i DEF matches_for, Entry
  <2>2. ref \in Refs(new_ws) BY <1>i, <1>8 DEF Refs
  <2> QED BY <1>2, <1>5, <1>8, <1>i, <2>1, <2>2 DEF matches_for, Entry
<1>10. Expiry(new_ws, ref) = Expiry(ws, ref)
  BY <1>2, <1>5, <1>8, <1>i DEF Expiry, Entry
<1> QED BY <1>3, <1>9, <1>10 DEF Waived, new_ws, new, aliases
-------------------------------------------------------------------------------
(* What is added does waive *)

\* `waivers add` of a fingerprint its section does not have yet: every finding with that
\* fingerprint, of a tool in its scope, is waived on every day before its date, under
\* either schema version, whatever else the document says.
THEOREM AddedEntryWaives ==
  ASSUME NEW K, NEW P, NEW T, NEW doc \in Documents(K, P, T),
         NEW section \in {"finding_waivers", "benchmark"},
         NEW key \in K, NEW expires \in Int, NEW tools \in SUBSET T,
         NEW c, c = [section |-> section, key |-> key, expires |-> expires, tools |-> tools],
         key \notin Keys(doc[section]),
         section = "benchmark" => doc.benchmark_expires_at = NoDate,
         NEW f, key \in f.fingerprints \cup f.legacy,
         entry_applies_to_tool(IF section = "benchmark" THEN {} ELSE tools, f.tool),
         NEW day, NEW grace, ~Expired(expires, day, grace)
  PROVE  Waived(to_waiver_set(add_entry(doc, c)), f, day, grace)
<1> DEFINE scope == IF section = "benchmark" THEN {} ELSE tools
           entry == New(key, expires, scope)
           new == add_entry(doc, c)
           ws == to_waiver_set(new)
           i == Len(doc[section]) + 1
<1>1. doc[section] \in Entries(K, T) /\ section \in DOMAIN doc
  BY DEF Documents
<1>2. /\ Append(doc[section], entry)[i] = entry
      /\ DOMAIN Append(doc[section], entry) = 1..i
      /\ i \in 1..i
  BY <1>1 DEF Entries
<1>3. new = [doc EXCEPT ![section] = Append(@, entry)]
  BY DEF add_entry
<1>4. /\ new[section] = Append(doc[section], entry)
      /\ new.version = doc.version /\ new.benchmark_expires_at = doc.benchmark_expires_at
  BY <1>1, <1>3 DEF Documents
<1>5. /\ i \in DOMAIN ws[section]
      /\ ws[section][i].key = key /\ ws[section][i].expires = expires
      /\ ws[section][i].tools \in {scope, {}}
      /\ section = "benchmark" => ws.benchmark_expires_at = NoDate
  <2>1. entry.key = key /\ entry.expires = expires /\ entry.tools = scope
          /\ entry = [key |-> key, expires |-> expires, tools |-> scope]
    BY DEF New
  <2>2. CASE doc.version = "1.1"
    BY <1>2, <1>4, <2>1, <2>2 DEF to_waiver_set
  <2>3. CASE doc.version # "1.1"
    <3>1. ws = [new EXCEPT !.finding_waivers = Unscoped(@), !.benchmark_expires_at = NoDate]
      BY <1>4, <2>3 DEF to_waiver_set
    <3>2. DOMAIN new = DOMAIN doc BY <1>3
    <3>3. CASE section = "benchmark"
      <4>1. "benchmark" \in DOMAIN new /\ "benchmark_expires_at" \in DOMAIN new
        BY <3>2 DEF Documents
      <4>2. ws.benchmark = new.benchmark /\ ws.benchmark_expires_at = NoDate
        BY <3>1, <4>1, Zenon
      <4> QED BY <1>2, <1>4, <2>1, <3>3, <4>2
    <3>4. CASE section = "finding_waivers"
      <4>1. ws[section] = Unscoped(new[section]) BY <3>1, <3>2, <3>4 DEF Documents
      <4>2. Unscoped(new[section])[i] = [entry EXCEPT !.tools = {}] /\ i \in DOMAIN Unscoped(new[section])
        BY <1>2, <1>4 DEF Unscoped
      <4> QED BY <2>1, <3>4, <4>1, <4>2
    <3> QED BY <3>3, <3>4
  <2> QED BY <2>2, <2>3
<1> HIDE DEF ws, i, new
<1>6. <<section, i>> \in Refs(ws) BY <1>5 DEF Refs, Sections
<1>7. entry_applies_to_tool(ws[section][i].tools, f.tool)
  BY <1>5 DEF entry_applies_to_tool
<1>8. <<section, i>> \in matches_for(ws, f)
  BY <1>5, <1>6, <1>7 DEF matches_for, Entry
<1>9. Expiry(ws, <<section, i>>) = expires
  BY <1>5 DEF Expiry, Entry
<1> QED BY <1>8, <1>9 DEF Waived, ws, new
-------------------------------------------------------------------------------
(* Sequences of entries *)

\* SetToSeq lists the elements of a finite set.
LEMMA SetToSeqLists ==
  ASSUME NEW S, IsFiniteSet(S)
  PROVE  /\ SetToSeq(S) \in Seq(S)
         /\ \A x \in S : \E i \in DOMAIN SetToSeq(S) : SetToSeq(S)[i] = x
<1> DEFINE n == Cardinality(S)
           f == SetToSeq(S)
<1>1. n \in Nat /\ ExistsBijection(1..n, S) BY FS_CardinalityType
<1>2. \E g \in [1..n -> S] : IsInjective(g) BY <1>1 DEF ExistsBijection, Bijection, Injection
<1>3. f \in [1..n -> S] /\ IsInjective(f) BY <1>2 DEF SetToSeq
<1>4. f \in Injection(1..n, S) BY <1>3 DEF Injection
<1>5. IsFiniteSet(1..n) /\ Cardinality(1..n) = n BY <1>1, FS_Interval
<1>6. f \in Surjection(1..n, S) BY <1>4, <1>5, FS_Injection
<1>7. f \in Seq(S) BY <1>1, <1>3, SeqDef
<1> QED BY <1>3, <1>6, <1>7 DEF Surjection

\* Keep lists the entries at the indexes it is given, and no others.
LEMMA KeepLists ==
  ASSUME NEW S, NEW entries \in Seq(S), NEW kept \in SUBSET DOMAIN entries
  PROVE  /\ Keep(entries, kept) \in Seq(S)
         /\ \A i \in kept : \E k \in DOMAIN Keep(entries, kept) : Keep(entries, kept)[k] = entries[i]
         /\ \A k \in DOMAIN Keep(entries, kept) : \E i \in kept : Keep(entries, kept)[k] = entries[i]
<1> DEFINE n == Cardinality(kept)
           Upto(i) == {j \in kept : j <= i}
           Place(i) == Cardinality(Upto(i))
           place == [i \in kept |-> Place(i)]
           At(k) == CHOOSE i \in kept : Place(i) = k
<1>1. kept \in SUBSET Nat /\ IsFiniteSet(kept) /\ n \in Nat
  <2>1. DOMAIN entries = 1..Len(entries) /\ Len(entries) \in Nat OBVIOUS
  <2>2. IsFiniteSet(DOMAIN entries) BY <2>1, FS_Interval
  <2> QED BY <2>1, <2>2, FS_Subset, FS_CardinalityType
<1>2. \A i \in kept : IsFiniteSet(Upto(i)) /\ Place(i) \in 1..n
  <2> TAKE i \in kept
  <2>1. IsFiniteSet(Upto(i)) /\ Place(i) <= n BY <1>1, FS_Subset
  <2>2. i \in Upto(i) BY <1>1
  <2>3. Place(i) \in Nat /\ Place(i) # 0 BY <2>1, <2>2, FS_CardinalityType, FS_EmptySet
  <2> QED BY <1>1, <2>1, <2>3
<1>3. ASSUME NEW i \in kept, NEW j \in kept, i < j PROVE Place(i) # Place(j)
  <2>1. Upto(i) \in SUBSET Upto(j) /\ j \in Upto(j) /\ j \notin Upto(i) BY <1>1, <1>3
  <2> QED BY <1>2, <2>1, FS_Subset
<1>4. \A i, j \in kept : Place(i) = Place(j) => i = j
  <2>1. \A i, j \in kept : i # j => i < j \/ j < i BY <1>1
  <2> QED BY <1>3, <2>1
<1>5. place \in Injection(kept, 1..n)
  BY <1>2, <1>4 DEF Injection, IsInjective
<1>6. IsFiniteSet(1..n) /\ Cardinality(1..n) = n BY <1>1, FS_Interval
<1>7. place \in Surjection(kept, 1..n) BY <1>5, <1>6, FS_Injection
<1>8. \A k \in 1..n : \E i \in kept : Place(i) = k BY <1>7 DEF Surjection
<1>9. \A k \in 1..n : At(k) \in kept /\ Place(At(k)) = k BY <1>8
<1>10. \A i \in kept : At(Place(i)) = i BY <1>2, <1>4, <1>9
<1> DEFINE K == Keep(entries, kept)
<1>11. K = [k \in 1..n |-> entries[At(k)]] BY DEF Keep
<1> HIDE DEF At, Place, K, n
<1>12. \A k \in 1..n : entries[At(k)] \in S BY <1>9
<1>13. K \in Seq(S) BY <1>1, <1>11, <1>12, SeqDef
<1>14. \A i \in kept : \E k \in DOMAIN K : K[k] = entries[i] BY <1>2, <1>10, <1>11
<1>15. \A k \in DOMAIN K : \E i \in kept : K[k] = entries[i] BY <1>9, <1>11
<1> QED BY <1>13, <1>14, <1>15 DEF K
-------------------------------------------------------------------------------
(* Types: what every command writes is a document *)

Docs == Documents(Fingerprints, SUBSET Paths, Words)
AnEntry == [key : Fingerprints, expires : Int, tools : SUBSET Words]
AnExclusion == [key : SUBSET Paths, expires : Int, tools : SUBSET Words]
Reports ==
  [seen : SUBSET Findings, waived : SUBSET Findings, known : SUBSET Findings,
   unused : SUBSET (Sections \X Nat), fresh : BOOLEAN]

LEMMA DocFields ==
  ASSUME NEW doc \in Docs
  PROVE  /\ doc.finding_waivers \in Seq(AnEntry) /\ doc.benchmark \in Seq(AnEntry)
         /\ doc.path_exclusions \in Seq(AnExclusion)
         /\ doc.version \in Versions /\ doc.benchmark_expires_at \in Int
  BY DEF Docs, Documents, Entries, AnEntry, AnExclusion

LEMMA NewIsEntry ==
  ASSUME NEW key \in Fingerprints, NEW expires \in Int, NEW tools \in SUBSET Words
  PROVE  New(key, expires, tools) \in AnEntry
  BY DEF New, AnEntry

LEMMA EmptyIsDoc == EmptyDocument \in Docs /\ [EmptyDocument EXCEPT !.version = "1.1"] \in Docs
<1>1. \A S : <<>> \in Seq(S) OBVIOUS
<1>2. NoDate \in Int /\ "1.0" \in Versions /\ "1.1" \in Versions BY DEF NoDate, Versions
<1> QED BY <1>1, <1>2 DEF EmptyDocument, Docs, Documents, Entries

LEMMA BenchmarkIsDoc ==
  ASSUME NEW active \in SUBSET Findings PROVE generate_benchmark_yaml(active) \in Docs
<1> DEFINE order == SetToSeq(active)
           new == [i \in DOMAIN order |-> New(order[i].primary, NoDate, {})]
<1>1. order \in Seq(active) BY TypeAssumption, FS_Subset, SetToSeqLists
<1>2. Len(order) \in Nat /\ DOMAIN order = 1..Len(order) /\ \A i \in DOMAIN order : order[i] \in Findings
  BY <1>1
<1>3. \A i \in DOMAIN order : New(order[i].primary, NoDate, {}) \in AnEntry
  <2> TAKE i \in DOMAIN order
  <2>1. order[i].primary \in Fingerprints BY <1>2, TypeAssumption
  <2>2. NoDate \in Int BY DEF NoDate
  <2> QED BY <2>1, <2>2, NewIsEntry
<1> HIDE DEF order
<1>4. new \in Seq(AnEntry) BY <1>2, <1>3, SeqDef
<1>5. generate_benchmark_yaml(active) = [EmptyDocument EXCEPT !.version = "1.1", !.benchmark = new]
  BY DEF generate_benchmark_yaml, order
<1> HIDE DEF new
<1> QED BY <1>4, <1>5, EmptyIsDoc DEF Docs, Documents, Entries, AnEntry, AnExclusion, Versions

LEMMA AddIsDoc ==
  ASSUME NEW doc \in Docs, NEW c \in EntryChoices PROVE add_entry(doc, c) \in Docs
<1> DEFINE tools == IF c.section = "benchmark" THEN {} ELSE c.tools
           entry == New(c.key, c.expires, tools)
<1>1. /\ c.section \in {"finding_waivers", "benchmark"} /\ c.key \in Fingerprints
      /\ c.expires \in Int /\ c.tools \in SUBSET Words
  BY TypeAssumption
<1>2. entry \in AnEntry BY <1>1, NewIsEntry
<1> HIDE DEF entry
<1>3. CASE c.key \in Keys(doc[c.section]) BY <1>3 DEF add_entry
<1>4. CASE c.key \notin Keys(doc[c.section])
  <2>1. add_entry(doc, c) = [doc EXCEPT ![c.section] = Append(doc[c.section], entry)]
    BY <1>4 DEF add_entry, entry
  <2>2. doc[c.section] \in Seq(AnEntry) BY <1>1, DocFields
  <2>3. Append(doc[c.section], entry) \in Seq(AnEntry) BY <1>2, <2>2
  <2> QED BY <1>1, <2>1, <2>3 DEF Docs, Documents, Entries, AnEntry, AnExclusion
<1> QED BY <1>3, <1>4

LEMMA PruneIsDoc ==
  ASSUME NEW doc \in Docs, NEW unused PROVE prune_data(doc, unused) \in Docs
<1> DEFINE kept(s) == {i \in DOMAIN doc[s] :
                    ~Expired(Expiry(doc, <<s, i>>), now, 0) /\ <<s, i>> \notin unused}
<1>1. /\ Keep(doc.finding_waivers, kept("finding_waivers")) \in Seq(AnEntry)
      /\ Keep(doc.benchmark, kept("benchmark")) \in Seq(AnEntry)
      /\ Keep(doc.path_exclusions, kept("path_exclusions"))
           \in Seq(AnExclusion)
  BY DocFields, KeepLists
<1>2. prune_data(doc, unused) =
        [doc EXCEPT !.finding_waivers = Keep(doc.finding_waivers, kept("finding_waivers")),
                    !.benchmark = Keep(doc.benchmark, kept("benchmark")),
                    !.path_exclusions = Keep(doc.path_exclusions, kept("path_exclusions"))]
  BY DEF prune_data, Docs, Documents
<1> HIDE DEF kept
<1> QED BY <1>1, <1>2 DEF Docs, Documents, Entries, AnEntry, AnExclusion

LEMMA MigrateIsDoc ==
  ASSUME NEW doc \in Docs, NEW to \in Versions, NEW fs \in SUBSET Findings
  PROVE  migrate_data(doc, to, fingerprint_aliases(fs)) \in Docs
<1> DEFINE aliases == fingerprint_aliases(fs)
<1>1. \A l \in DOMAIN aliases : aliases[l] \in Fingerprints
  <2> TAKE l \in DOMAIN aliases
  <2>1. PICK g \in fs : l \in g.legacy BY DEF fingerprint_aliases
  <2> DEFINE h == CHOOSE g1 \in fs : l \in g1.legacy
  <2>2. h \in fs BY <2>1
  <2>3. aliases[l] = h.primary BY <2>1 DEF fingerprint_aliases
  <2>4. h.primary \in Fingerprints BY <2>2, TypeAssumption
  <2> QED BY <2>3, <2>4
<1> HIDE DEF aliases
<1>2. ASSUME NEW entries \in Seq(AnEntry) PROVE rewrite_fingerprints(entries, aliases) \in Seq(AnEntry)
  <2> DEFINE new == rewrite_fingerprints(entries, aliases)
  <2>1. DOMAIN entries = 1..Len(entries) /\ Len(entries) \in Nat OBVIOUS
  <2>2. ASSUME NEW k \in DOMAIN entries PROVE new[k] \in AnEntry
    <3>1. entries[k] \in AnEntry BY <2>1
    <3>2. CASE entries[k].key \in DOMAIN aliases
      <4>1. new[k] = [entries[k] EXCEPT !.key = aliases[entries[k].key]] BY <3>2 DEF rewrite_fingerprints
      <4> QED BY <1>1, <3>1, <3>2, <4>1 DEF AnEntry
    <3>3. CASE entries[k].key \notin DOMAIN aliases BY <3>1, <3>3 DEF rewrite_fingerprints
    <3> QED BY <3>2, <3>3
  <2>3. new = [k \in 1..Len(entries) |-> new[k]] BY <2>1 DEF rewrite_fingerprints
  <2> QED BY <2>1, <2>2, <2>3, SeqDef
<1>3. /\ rewrite_fingerprints(doc.finding_waivers, aliases) \in Seq(AnEntry)
      /\ rewrite_fingerprints(doc.benchmark, aliases) \in Seq(AnEntry)
  BY <1>2, DocFields
<1>4. migrate_data(doc, to, aliases) =
        [doc EXCEPT !.version = to,
                    !.finding_waivers = rewrite_fingerprints(doc.finding_waivers, aliases),
                    !.benchmark = rewrite_fingerprints(doc.benchmark, aliases)]
  BY DEF migrate_data, Docs, Documents
<1>5. migrate_data(doc, to, aliases) \in Docs BY <1>3, <1>4 DEF Docs, Documents, Entries, AnEntry, AnExclusion
<1> QED BY <1>5 DEF aliases

\* The fingerprints to be covered are finitely many, so that SetToSeq lists them.
LEMMA CoverFinite ==
  ASSUME NEW r \in Reports, NEW include_waived \in BOOLEAN
  PROVE  IsFiniteSet(to_cover(r, include_waived)) /\ to_cover(r, include_waived) \subseteq Fingerprints
<1> DEFINE fs == IF include_waived THEN r.seen ELSE r.seen \ r.waived
           primary == [f \in fs |-> f.primary]
<1>1. fs \in SUBSET Findings BY DEF Reports
<1>2. IsFiniteSet(fs) BY <1>1, TypeAssumption, FS_Subset
<1>3. to_cover(r, include_waived) = {f.primary : f \in fs} BY DEF to_cover
<1> HIDE DEF fs
<1>4. primary \in Surjection(fs, {f.primary : f \in fs}) BY DEF Surjection
<1>5. IsFiniteSet({f.primary : f \in fs}) BY <1>2, <1>4, FS_Surjection
<1>6. \A f \in fs : f.primary \in Fingerprints BY <1>1, TypeAssumption
<1> QED BY <1>3, <1>5, <1>6

\* What update_baseline leaves in the benchmark section: the old entries, those it
\* prunes excepted, and behind them one per fingerprint to be covered.
LEMMA UpdateIsDoc ==
  ASSUME NEW doc \in Docs, NEW r \in Reports, NEW prune \in BOOLEAN, NEW include_waived \in BOOLEAN,
         NEW expires \in Expiries
  PROVE  LET new == update_baseline(doc, r, prune, include_waived, expires)
         IN /\ new \in Docs
            /\ to_cover(r, include_waived) \subseteq Keys(new.benchmark)
            /\ \A i \in DOMAIN doc.benchmark :
                 ~prune \/ doc.benchmark[i].key \in seen_any(r) => doc.benchmark[i].key \in Keys(new.benchmark)
<1> DEFINE dated == Dated(doc, expires)
           old == IF prune THEN PruneUnseen(dated.benchmark, seen_any(r)) ELSE dated.benchmark
           missing == to_cover(r, include_waived) \ Keys(old)
           added == SetToSeq(missing)
           more == [i \in DOMAIN added |-> New(added[i], NoDate, {})]
           new == update_baseline(doc, r, prune, include_waived, expires)
<1>1. new = [dated EXCEPT !.benchmark = old \o more] BY DEF update_baseline
<1>2. dated \in Docs /\ dated.benchmark = doc.benchmark
  <2>1. CASE expires = NoDate BY <2>1 DEF Dated
  <2>2. CASE expires # NoDate
    <3>1. dated = [doc EXCEPT !.benchmark_expires_at = expires, !.version = "1.1"] BY <2>2 DEF Dated
    <3>2. expires \in Int /\ "1.1" \in Versions BY TypeAssumption DEF Versions
    <3> QED BY <3>1, <3>2 DEF Docs, Documents
  <2> QED BY <2>1, <2>2
<1> HIDE DEF dated
<1>3. /\ old \in Seq(AnEntry)
      /\ \A i \in DOMAIN doc.benchmark :
           ~prune \/ doc.benchmark[i].key \in seen_any(r) => doc.benchmark[i].key \in Keys(old)
  <2>1. doc.benchmark \in Seq(AnEntry) BY DocFields
  <2>2. CASE ~prune BY <1>2, <2>1, <2>2 DEF Keys
  <2>3. CASE prune
    <3> DEFINE kept == {i \in DOMAIN doc.benchmark :
                          doc.benchmark[i].key \in seen_any(r) \/ ~LastOfKey(doc.benchmark, i)}
    <3>1. old = Keep(doc.benchmark, kept) BY <1>2, <2>3 DEF PruneUnseen
    <3>2. kept \in SUBSET DOMAIN doc.benchmark OBVIOUS
    <3>3. /\ old \in Seq(AnEntry)
          /\ \A i \in kept : \E k \in DOMAIN old : old[k] = doc.benchmark[i]
      BY <2>1, <3>1, <3>2, KeepLists
    <3>4. \A i \in kept : doc.benchmark[i].key \in Keys(old) BY <3>3 DEF Keys
    <3> QED BY <2>3, <3>3, <3>4
  <2> QED BY <2>2, <2>3
<1> HIDE DEF old
<1>4. /\ added \in Seq(missing)
      /\ \A x \in missing : \E i \in DOMAIN added : added[i] = x
      /\ missing \subseteq Fingerprints
  <2>1. IsFiniteSet(missing) /\ missing \subseteq Fingerprints BY CoverFinite, FS_Subset
  <2> QED BY <2>1, SetToSeqLists
<1> HIDE DEF added
<1>5. /\ more \in Seq(AnEntry) /\ DOMAIN more = DOMAIN added
      /\ \A i \in DOMAIN added : more[i].key = added[i]
  <2>1. DOMAIN added = 1..Len(added) /\ Len(added) \in Nat BY <1>4
  <2>2. \A i \in DOMAIN added : New(added[i], NoDate, {}) \in AnEntry
    <3> TAKE i \in DOMAIN added
    <3>1. added[i] \in Fingerprints /\ NoDate \in Int BY <1>4 DEF NoDate
    <3> QED BY <3>1, NewIsEntry
  <2>3. \A i \in DOMAIN added : New(added[i], NoDate, {}).key = added[i] BY DEF New
  <2> QED BY <2>1, <2>2, <2>3, SeqDef
<1> HIDE DEF more, missing
<1>6. /\ old \o more \in Seq(AnEntry)
      /\ Keys(old) \cup Keys(more) \subseteq Keys(old \o more)
  <2>1. old \o more \in Seq(AnEntry) BY <1>3, <1>5
  <2>2. ASSUME NEW i \in DOMAIN old PROVE old[i].key \in Keys(old \o more)
    <3>1. i \in DOMAIN (old \o more) /\ (old \o more)[i] = old[i] BY <1>3, <1>5
    <3> QED BY <3>1 DEF Keys
  <2>3. ASSUME NEW i \in DOMAIN more PROVE more[i].key \in Keys(old \o more)
    <3>1. /\ Len(old) + i \in DOMAIN (old \o more)
          /\ (old \o more)[Len(old) + i] = more[i]
      BY <1>3, <1>5
    <3> QED BY <3>1 DEF Keys
  <2> QED BY <2>1, <2>2, <2>3 DEF Keys
<1>7. new \in Docs /\ new.benchmark = old \o more
  BY <1>1, <1>2, <1>6 DEF Docs, Documents, Entries, AnEntry, AnExclusion
<1>8. to_cover(r, include_waived) \subseteq Keys(old) \cup Keys(more)
  BY <1>4, <1>5 DEF missing, Keys
<1> HIDE DEF new
<1> QED BY <1>3, <1>6, <1>7, <1>8 DEF new
-------------------------------------------------------------------------------
(* The invariant *)

TypeInv ==
  /\ now \in 0..MaxDay
  /\ file \in Docs \cup {Missing} /\ backup \in Docs \cup {Missing}
  /\ report # NoReport => report \in Reports /\ report.waived \cup report.known \subseteq report.seen
  /\ steps \in 0..MaxSteps /\ crashes \in 0..MaxCrashes

\* A fresh report lists what the file as it is leaves unused.
FreshInv ==
  report # NoReport /\ file # Missing /\ report.fresh =>
    report.unused = unused_refs(to_waiver_set(file), report.seen)

IInv == TypeInv /\ FreshInv

LEMMA AgedReport ==
  ASSUME TypeInv, NEW fresh \in BOOLEAN, report' = Aged(fresh)
  PROVE  /\ report' # NoReport =>
              /\ report' \in Reports /\ report'.waived \cup report'.known \subseteq report'.seen
              /\ report # NoReport /\ report'.seen = report.seen /\ report'.unused = report.unused
              /\ report'.fresh = (report.fresh /\ fresh)
<1>1. CASE report = NoReport BY <1>1 DEF Aged
<1>2. CASE report # NoReport
  <2>1. report' = [report EXCEPT !.fresh = report.fresh /\ fresh] BY <1>2 DEF Aged
  <2>2. report \in Reports /\ report.waived \cup report.known \subseteq report.seen BY <1>2 DEF TypeInv
  <2>3. (report.fresh /\ fresh) \in BOOLEAN BY <2>2 DEF Reports
  <2> QED BY <1>2, <2>1, <2>2, <2>3 DEF Reports
<1> QED BY <1>1, <1>2

\* A command that is not interrupted has written what it made, if that loads.
LEMMA CommandWrites ==
  ASSUME TypeInv, NEW new, Command(new), Completed
  PROVE  file' = IF Loads(new) THEN new ELSE file
  BY DEF Command, Write, Completed, TypeInv

LEMMA CommandInvariant ==
  ASSUME IInv, NEW new \in Docs, Command(new) PROVE IInv'
<1>1. now' = now /\ steps' \in 0..MaxSteps BY TypeAssumption DEF Command, Step, IInv, TypeInv
<1>2. CASE UNCHANGED <<file, backup, report, crashes>>
  BY <1>1, <1>2 DEF IInv, TypeInv, FreshInv
<1>3. CASE ~UNCHANGED <<file, backup, report, crashes>>
  <2>1. Write(new) /\ new # file BY <1>3 DEF Command, Write
  <2>2. /\ file' \in {new, file, EmptyDocument} /\ crashes' \in 0..MaxCrashes
        /\ backup' \in {backup, file} /\ (file = Missing => backup' = backup)
        /\ report' = Aged(file' = file)
    BY <2>1, TypeAssumption DEF Write, IInv, TypeInv
  <2>3. file' \in Docs \cup {Missing} /\ backup' \in Docs \cup {Missing}
    BY <2>2, EmptyIsDoc DEF IInv, TypeInv
  <2> DEFINE same == file' = file
  <2>4. same \in BOOLEAN /\ report' = Aged(same) BY <2>2
  <2> HIDE DEF same
  <2>5. /\ report' # NoReport =>
              /\ report' \in Reports /\ report'.waived \cup report'.known \subseteq report'.seen
              /\ report # NoReport /\ report'.seen = report.seen /\ report'.unused = report.unused
              /\ report'.fresh = (report.fresh /\ same)
    BY <2>4, AgedReport DEF IInv
  <2>6. TypeInv' BY <1>1, <2>2, <2>3, <2>5 DEF TypeInv, IInv
  <2>7. FreshInv' BY <2>5 DEF FreshInv, IInv, same
  <2> QED BY <2>6, <2>7 DEF IInv
<1> QED BY <1>2, <1>3

LEMMA StepCounts == ASSUME TypeInv, Step PROVE steps' \in 0..MaxSteps
  BY TypeAssumption DEF Step, TypeInv

LEMMA ScanInvariant ==
  ASSUME IInv, NEW fs \in SUBSET Findings, NEW grace, Scan(fs, grace) PROVE IInv'
<1> DEFINE ws == to_waiver_set(file)
           waived == IF file = Missing THEN {} ELSE {f \in fs : Waived(ws, f, now, grace)}
           known == IF file = Missing THEN {} ELSE {f \in fs : Known(ws, f)}
           unused == IF file = Missing THEN {} ELSE unused_refs(ws, fs)
<1>1. /\ report' = [seen |-> fs, waived |-> waived, known |-> known, unused |-> unused, fresh |-> TRUE]
      /\ UNCHANGED <<now, file, backup, crashes>> /\ steps' \in 0..MaxSteps
  <2>1. CASE file = Missing BY <2>1, StepCounts DEF Scan, IInv
  <2>2. CASE file # Missing BY <2>2, StepCounts DEF Scan, IInv
  <2> QED BY <2>1, <2>2
<1>2. unused \subseteq Sections \X Nat
  <2>1. CASE file = Missing BY <2>1
  <2>2. CASE file # Missing
    <3>1. file \in Docs BY <2>2 DEF IInv, TypeInv
    <3>2. \A s \in Sections : DOMAIN ws[s] \subseteq Nat
      <4>1. \A s \in Sections : DOMAIN file[s] \subseteq Nat
        <5>1. /\ \A i \in DOMAIN file.finding_waivers : i \in Nat
              /\ \A i \in DOMAIN file.benchmark : i \in Nat
              /\ \A i \in DOMAIN file.path_exclusions : i \in Nat
          BY <3>1, DocFields
        <5> QED BY <5>1 DEF Sections
      <4>2. CASE file.version = "1.1" BY <4>1, <4>2 DEF to_waiver_set
      <4>3. CASE file.version # "1.1"
        <5>1. ws = [file EXCEPT !.finding_waivers = Unscoped(file.finding_waivers),
                                !.benchmark_expires_at = NoDate]
          BY <3>1, <4>3 DEF to_waiver_set, Docs, Documents
        <5>2. /\ ws.finding_waivers = Unscoped(file.finding_waivers)
              /\ ws.benchmark = file.benchmark /\ ws.path_exclusions = file.path_exclusions
          BY <3>1, <5>1 DEF Docs, Documents
        <5>3. DOMAIN Unscoped(file.finding_waivers) = DOMAIN file.finding_waivers BY DEF Unscoped
        <5> QED BY <4>1, <5>2, <5>3 DEF Sections
      <4> QED BY <4>2, <4>3
    <3>3. unused \subseteq Refs(ws) BY <2>2 DEF unused_refs
    <3>4. Refs(ws) \subseteq Sections \X Nat BY <3>2 DEF Refs
    <3> QED BY <3>3, <3>4
  <2> QED BY <2>1, <2>2
<1>3. waived \subseteq fs /\ known \subseteq fs OBVIOUS
<1>4. FreshInv' BY <1>1 DEF FreshInv
<1> HIDE DEF waived, known, unused
<1>5. TypeInv' BY <1>1, <1>2, <1>3 DEF TypeInv, IInv, Reports
<1> QED BY <1>4, <1>5 DEF IInv

\* A day, and a benchmark put where there was no file, age the report.
LEMMA AgingInvariant == ASSUME IInv, Tick \/ AdoptBenchmark PROVE IInv'
<1>1. report' = Aged(FALSE) /\ UNCHANGED <<backup, crashes>> BY DEF Tick, AdoptBenchmark
<1>2. /\ report' # NoReport =>
              /\ report' \in Reports /\ report'.waived \cup report'.known \subseteq report'.seen
              /\ ~report'.fresh
  BY <1>1, AgedReport DEF IInv
<1>3. now' \in 0..MaxDay /\ steps' \in 0..MaxSteps
  <2>1. CASE Tick
    <3>1. now \in 0..MaxDay /\ steps \in 0..MaxSteps BY DEF IInv, TypeInv
    <3> QED BY <2>1, <3>1, TypeAssumption DEF Tick
  <2>2. CASE AdoptBenchmark BY <2>2, StepCounts DEF AdoptBenchmark, IInv, TypeInv
  <2> QED BY <2>1, <2>2
<1>4. file' \in Docs \cup {Missing}
  <2>1. CASE Tick BY <2>1 DEF Tick, IInv, TypeInv
  <2>2. CASE AdoptBenchmark
    <3>1. report.seen \ report.waived \in SUBSET Findings BY <2>2 DEF AdoptBenchmark, IInv, TypeInv, Reports
    <3> QED BY <2>2, <3>1, BenchmarkIsDoc DEF AdoptBenchmark
  <2> QED BY <2>1, <2>2
<1> QED BY <1>1, <1>2, <1>3, <1>4 DEF IInv, TypeInv, FreshInv

LEMMA OriginalIsDoc == ASSUME TypeInv PROVE Original \in Docs
  BY EmptyIsDoc DEF Original, TypeInv

\* Whatever is done to the file, it and what a report says of it keep the invariant.
THEOREM InvariantHolds == Spec => []IInv
<1>1. Init => IInv
  <2> SUFFICES ASSUME Init PROVE IInv OBVIOUS
  <2>1. file \in Docs \cup {Missing} BY TypeAssumption DEF Init, Docs
  <2> QED BY <2>1, TypeAssumption DEF Init, IInv, TypeInv, FreshInv
<1>2. IInv /\ [Next]_vars => IInv'
  <2> SUFFICES ASSUME IInv, [Next]_vars PROVE IInv' OBVIOUS
  <2>1. CASE Tick \/ AdoptBenchmark BY <2>1, AgingInvariant
  <2>2. CASE \E fs \in SUBSET Findings, grace \in GraceOptions : Scan(fs, grace) BY <2>2, ScanInvariant
  <2>3. ASSUME NEW c \in EntryChoices, Add(c) PROVE IInv'
    BY <2>3, OriginalIsDoc, AddIsDoc, CommandInvariant DEF Add, IInv
  <2>4. CASE Prune
    <3>1. file \in Docs BY <2>4 DEF Prune, IInv, TypeInv
    <3> QED BY <2>4, <3>1, PruneIsDoc, CommandInvariant DEF Prune
  <2>5. CASE PruneWithReport
    <3>1. file \in Docs BY <2>5 DEF PruneWithReport, IInv, TypeInv
    <3> QED BY <2>5, <3>1, PruneIsDoc, CommandInvariant DEF PruneWithReport
  <2>6. ASSUME NEW to \in Versions, NEW fs \in ReportedFindings, Migrate(to, fs) PROVE IInv'
    <3>1. file \in Docs BY <2>6 DEF Migrate, IInv, TypeInv
    <3>2. fs \in SUBSET Findings BY DEF ReportedFindings, IInv, TypeInv, Reports
    <3> QED BY <2>6, <3>1, <3>2, MigrateIsDoc, CommandInvariant DEF Migrate
  <2>7. ASSUME NEW prune \in BOOLEAN, NEW include_waived \in BOOLEAN, NEW expires \in Expiries,
               BaselineUpdate(prune, include_waived, expires)
        PROVE  IInv'
    <3>1. Original \in Docs BY OriginalIsDoc DEF IInv
    <3>2. report \in Reports BY <2>7 DEF BaselineUpdate, IInv, TypeInv
    <3> QED BY <2>7, <3>1, <3>2, UpdateIsDoc, CommandInvariant DEF BaselineUpdate
  <2>8. CASE UNCHANGED vars BY <2>8 DEF vars, IInv, TypeInv, FreshInv
  <2> QED BY <2>1, <2>2, <2>3, <2>4, <2>5, <2>6, <2>7, <2>8 DEF Next
<1> QED BY <1>1, <1>2, PTL DEF Spec

\* The files keep their types, and so does the report.
THEOREM TypeCorrect == Spec => []TypeOK
<1>1. ASSUME NEW S, NEW entries \in Seq(S)
      PROVE  /\ DOMAIN entries = 1..Cardinality(DOMAIN entries)
             /\ \A i \in DOMAIN entries : entries[i] \in S
  <2>1. DOMAIN entries = 1..Len(entries) /\ Len(entries) \in Nat OBVIOUS
  <2>2. Cardinality(1..Len(entries)) = Len(entries) BY <2>1, FS_Interval
  <2> QED BY <2>1, <2>2
<1>2. ASSUME NEW doc \in Docs PROVE Document(doc)
  BY <1>1, DocFields DEF Document, IsEntries, AnEntry, AnExclusion
<1>3. IInv => TypeOK BY <1>2 DEF IInv, TypeInv, TypeOK, Reports
<1> QED BY <1>3, InvariantHolds, PTL
-------------------------------------------------------------------------------
(* What commands promise, as steps of the specification *)

\* A migration never turns a waived finding active, today or later.
THEOREM MigrationsKeepWaivers == Spec => MigrateKeepsWaivers
<1> DEFINE Kept == (\E to \in Versions, fs \in ReportedFindings : Migrate(to, fs)) /\ Completed /\ ~Dormant(file) =>
                     \A f \in Findings, day \in Future : Verdict(file, f, day) => Verdict(file', f, day)
<1>1. IInv /\ [Next]_vars => [Kept]_vars
  <2> SUFFICES ASSUME IInv, Completed, ~Dormant(file), NEW to \in Versions, NEW fs \in ReportedFindings,
                      Migrate(to, fs), NEW f \in Findings, NEW day \in Future, Verdict(file, f, day)
               PROVE  Verdict(file', f, day)
    OBVIOUS
  <2> DEFINE new == migrate_data(file, to, fingerprint_aliases(fs))
  <2>1. file' = IF Loads(new) THEN new ELSE file BY CommandWrites DEF Migrate, IInv
  <2>2. file \in Docs /\ fs \in SUBSET Findings
    BY DEF Migrate, IInv, TypeInv, ReportedFindings, Reports
  <2>3. Waived(to_waiver_set(new), f, day, 0)
    <3>1. file \in Documents(Fingerprints, SUBSET Paths, Words) /\ Waived(to_waiver_set(file), f, day, 0)
      BY <2>2 DEF Docs, Verdict
    <3>2. file.version = "1.1" => to = "1.1" BY DEF Migrate
    <3> QED BY <2>2, <3>1, <3>2, FindingAssumption, MigrationLosesNoWaiver
  <2>4. new \in Docs /\ new # Missing BY <2>2, MigrateIsDoc, TypeAssumption DEF Docs
  <2> QED BY <2>1, <2>3, <2>4 DEF Verdict
<1> QED BY <1>1, InvariantHolds, PTL DEF Spec, MigrateKeepsWaivers

\* `waivers add` waives what it names, for as long as it says.
THEOREM AddingWaives == Spec => AddWaives
<1> DEFINE Waives ==
      \A c \in EntryChoices :
        Add(c) /\ Completed /\ Loads(add_entry(Original, c))
          /\ c.key \notin Keys(Original[c.section])
          /\ (c.section = "benchmark" => Original.benchmark_expires_at = NoDate) =>
        \A f \in Findings, day \in Future :
          /\ c.key \in f.fingerprints \cup f.legacy
          /\ entry_applies_to_tool(IF c.section = "benchmark" THEN {} ELSE c.tools, f.tool)
          /\ ~Expired(c.expires, day, 0)
          => Verdict(file', f, day)
<1>1. IInv /\ [Next]_vars => [Waives]_vars
  <2> SUFFICES ASSUME IInv, NEW c \in EntryChoices, Add(c), Completed, Loads(add_entry(Original, c)),
                      c.key \notin Keys(Original[c.section]),
                      c.section = "benchmark" => Original.benchmark_expires_at = NoDate,
                      NEW f \in Findings, NEW day \in Future,
                      c.key \in f.fingerprints \cup f.legacy,
                      entry_applies_to_tool(IF c.section = "benchmark" THEN {} ELSE c.tools, f.tool),
                      ~Expired(c.expires, day, 0)
               PROVE  Verdict(file', f, day)
    OBVIOUS
  <2>1. Original \in Docs /\ add_entry(Original, c) \in Docs BY OriginalIsDoc, AddIsDoc DEF IInv
  <2>2. file' = add_entry(Original, c) /\ file' # Missing
    BY <2>1, CommandWrites, TypeAssumption DEF Add, IInv, Docs
  <2>3. /\ c.section \in {"finding_waivers", "benchmark"} /\ c.key \in Fingerprints /\ c.expires \in Int
        /\ c.tools \in SUBSET Words
        /\ c = [section |-> c.section, key |-> c.key, expires |-> c.expires, tools |-> c.tools]
    BY TypeAssumption
  <2>4. Waived(to_waiver_set(add_entry(Original, c)), f, day, 0)
    BY <2>1, <2>3, AddedEntryWaives DEF Docs
  <2> QED BY <2>2, <2>4 DEF Verdict
<1> QED BY <1>1, InvariantHolds, PTL DEF Spec, AddWaives

\* `baseline update` covers the report and loses nothing the report needs.
THEOREM UpdatesFollowReport == Spec => UpdateFollowsReport
<1>1. IInv /\ [Next]_vars => [UpdateCoversReport]_vars
  <2> SUFFICES ASSUME IInv, NEW prune \in BOOLEAN, NEW include_waived \in BOOLEAN, NEW expires \in Expiries,
                      BaselineUpdate(prune, include_waived, expires), Completed,
                      Loads(update_baseline(Original, report, prune, include_waived, expires)),
                      NEW f \in report.seen \ report.waived
               PROVE  Known(to_waiver_set(file'), f)
    BY DEF UpdateCoversReport
  <2> DEFINE new == update_baseline(Original, report, prune, include_waived, expires)
  <2>1. file' = new BY CommandWrites DEF BaselineUpdate, IInv
  <2>2. Original \in Docs /\ report \in Reports BY OriginalIsDoc DEF BaselineUpdate, IInv, TypeInv
  <2>3. new \in Docs /\ to_cover(report, include_waived) \subseteq Keys(new.benchmark)
    BY <2>2, UpdateIsDoc
  <2>4. f.primary \in to_cover(report, include_waived) BY DEF to_cover
  <2>5. f \in Findings /\ f.primary \in f.fingerprints BY <2>2, FindingAssumption DEF Reports
  <2> HIDE DEF new
  <2>6. to_waiver_set(new).benchmark = new.benchmark BY <2>3 DEF to_waiver_set, Docs, Documents
  <2>7. f.primary \in baseline_fingerprints(to_waiver_set(new))
    BY <2>3, <2>4, <2>6 DEF baseline_fingerprints, Keys
  <2> QED BY <2>1, <2>5, <2>7 DEF Known
<1>2. IInv /\ [Next]_vars => [UpdateKeepsWhatMatches]_vars
  <2> SUFFICES ASSUME IInv, NEW include_waived \in BOOLEAN, NEW expires \in Expiries,
                      BaselineUpdate(TRUE, include_waived, expires), Completed, file # Missing,
                      NEW f \in report.seen,
                      NEW key \in (f.fingerprints \cup f.legacy) \cap Keys(file.benchmark)
               PROVE  key \in Keys(file'.benchmark)
    BY DEF UpdateKeepsWhatMatches
  <2> DEFINE new == update_baseline(file, report, TRUE, include_waived, expires)
  <2>1. file' \in {new, file} BY CommandWrites DEF BaselineUpdate, Original, IInv
  <2>2. file \in Docs /\ report \in Reports BY DEF BaselineUpdate, IInv, TypeInv
  <2>3. key \in seen_any(report) BY DEF seen_any
  <2>4. PICK i \in DOMAIN file.benchmark : file.benchmark[i].key = key BY DEF Keys
  <2>5. key \in Keys(new.benchmark) BY <2>2, <2>3, <2>4, UpdateIsDoc
  <2> QED BY <2>1, <2>5
<1> QED BY <1>1, <1>2, InvariantHolds, PTL DEF Spec, UpdateFollowsReport
-------------------------------------------------------------------------------
(* Pruning *)

\* The same entry at two places of two documents means the same in both.
LEMMA SameEntry ==
  ASSUME NEW ws, NEW ws2, ws.benchmark_expires_at = ws2.benchmark_expires_at,
         NEW s \in Sections, NEW i \in DOMAIN ws[s], NEW k \in DOMAIN ws2[s], ws[s][i] = ws2[s][k], NEW f
  PROVE  /\ <<s, i>> \in matches_for(ws, f) <=> <<s, k>> \in matches_for(ws2, f)
         /\ Expiry(ws, <<s, i>>) = Expiry(ws2, <<s, k>>)
<1>1. <<s, i>> \in Refs(ws) /\ <<s, k>> \in Refs(ws2) BY DEF Refs
<1>2. Entry(ws, <<s, i>>) = Entry(ws2, <<s, k>>) BY DEF Entry
<1>3. Expiry(ws, <<s, i>>) = Expiry(ws2, <<s, k>>) BY <1>2 DEF Expiry
<1> QED BY <1>1, <1>2, <1>3 DEF matches_for

\* An entry that has expired stays expired.
LEMMA ExpiredLater ==
  ASSUME NEW date \in Int, NEW d1 \in Int, NEW d2 \in Int, d1 <= d2, Expired(date, d1, 0)
  PROVE  Expired(date, d2, 0)
  BY DEF Expired

\* Pruning what has expired, and what did not match a finding, changes no verdict on it.
LEMMA PruneKeeps ==
  ASSUME TypeInv, NEW doc \in Docs, ~Dormant(doc), NEW unused, NEW f, NEW day \in Future,
         unused \cap matches_for(to_waiver_set(doc), f) = {}
  PROVE  Waived(to_waiver_set(prune_data(doc, unused)), f, day, 0) <=> Waived(to_waiver_set(doc), f, day, 0)
<1> DEFINE new == prune_data(doc, unused)
           ws == to_waiver_set(doc)
           new_ws == to_waiver_set(new)
           kept(s) == {i \in DOMAIN doc[s] :
                    ~Expired(Expiry(doc, <<s, i>>), now, 0) /\ <<s, i>> \notin unused}
<1>1. \A s \in Sections :
        /\ \A i \in kept(s) : \E k \in DOMAIN new[s] : new[s][k] = doc[s][i]
        /\ \A k \in DOMAIN new[s] : \E i \in kept(s) : new[s][k] = doc[s][i]
  <2> TAKE s \in Sections
  <2>1. new[s] = Keep(doc[s], kept(s)) BY DEF prune_data, Docs, Documents, Sections
  <2>2. doc[s] \in Seq(AnEntry) \cup Seq(AnExclusion)
    BY DocFields DEF Sections
  <2>3. PICK S : doc[s] \in Seq(S) BY <2>2
  <2> DEFINE indexes == kept(s)
  <2>4. indexes \in SUBSET DOMAIN doc[s] OBVIOUS
  <2> HIDE DEF indexes
  <2>5. /\ \A i \in indexes : \E k \in DOMAIN Keep(doc[s], indexes) : Keep(doc[s], indexes)[k] = doc[s][i]
        /\ \A k \in DOMAIN Keep(doc[s], indexes) : \E i \in indexes : Keep(doc[s], indexes)[k] = doc[s][i]
    BY <2>3, <2>4, KeepLists
  <2> QED BY <2>1, <2>5 DEF indexes
<1>2. new \in Docs /\ new.version = doc.version /\ new.benchmark_expires_at = doc.benchmark_expires_at
  <2>1. new.version = doc.version /\ new.benchmark_expires_at = doc.benchmark_expires_at
    BY DEF prune_data, Docs, Documents
  <2> QED BY <2>1, PruneIsDoc
<1> HIDE DEF new
<1>3. ~Dormant(new) BY <1>1, <1>2 DEF Dormant, Sections
<1>4. /\ ws.benchmark_expires_at = doc.benchmark_expires_at
      /\ \A s \in Sections : DOMAIN ws[s] = DOMAIN doc[s] /\ \A i \in DOMAIN doc[s] : ws[s][i] = doc[s][i]
  BY NotDormantMeansAll DEF Docs
<1>5. /\ new_ws.benchmark_expires_at = new.benchmark_expires_at
      /\ \A s \in Sections : DOMAIN new_ws[s] = DOMAIN new[s] /\ \A i \in DOMAIN new[s] : new_ws[s][i] = new[s][i]
  BY <1>2, <1>3, NotDormantMeansAll DEF Docs
<1> HIDE DEF ws, new_ws
<1>6. \A s \in Sections : \A i \in DOMAIN doc[s] :
         Expiry(doc, <<s, i>>) = Expiry(ws, <<s, i>>) /\ Expiry(doc, <<s, i>>) \in Int
  <2> TAKE s \in Sections
  <2> TAKE i \in DOMAIN doc[s]
  <2>1. Expiry(doc, <<s, i>>) = Expiry(ws, <<s, i>>) BY <1>4 DEF Expiry, Entry
  <2>2. doc[s][i].expires \in Int
    <3>1. CASE s = "path_exclusions"
      <4>1. doc[s] \in Seq(AnExclusion) BY <3>1, DocFields
      <4>2. doc[s][i] \in AnExclusion BY <4>1
      <4> QED BY <4>2 DEF AnExclusion
    <3>2. CASE s \in {"finding_waivers", "benchmark"}
      <4>1. doc[s] \in Seq(AnEntry) BY <3>2, DocFields
      <4>2. doc[s][i] \in AnEntry BY <4>1
      <4> QED BY <4>2 DEF AnEntry
    <3> QED BY <3>1, <3>2 DEF Sections
  <2>3. Expiry(doc, <<s, i>>) \in Int BY <2>2, DocFields DEF Expiry, Entry
  <2> QED BY <2>1, <2>3
<1>7. now \in Int /\ day \in Int /\ now <= day BY TypeAssumption DEF TypeInv, Future
<1>8. ASSUME Waived(ws, f, day, 0) PROVE Waived(new_ws, f, day, 0)
  <2>1. PICK ref \in matches_for(ws, f) : ~Expired(Expiry(ws, ref), day, 0) BY <1>8 DEF Waived
  <2>7. PICK s \in Sections : \E i \in DOMAIN ws[s] : ref = <<s, i>> BY <2>1 DEF matches_for, Refs
  <2>2. PICK i \in DOMAIN ws[s] : ref = <<s, i>> BY <2>7
  <2>3. i \in kept(s)
    <3>1. i \in DOMAIN doc[s] /\ Expiry(doc, ref) = Expiry(ws, ref) /\ Expiry(doc, ref) \in Int
      BY <1>4, <1>6, <2>2
    <3>2. ~Expired(Expiry(doc, ref), now, 0) BY <1>7, <2>1, <3>1, ExpiredLater
    <3> QED BY <2>1, <2>2, <3>1, <3>2 DEF ws
  <2>4. PICK k \in DOMAIN new[s] : new[s][k] = doc[s][i] BY <1>1, <2>3
  <2>5. k \in DOMAIN new_ws[s] /\ ws[s][i] = new_ws[s][k] BY <1>4, <1>5, <2>2, <2>4
  <2>6. <<s, k>> \in matches_for(new_ws, f) /\ Expiry(ws, <<s, i>>) = Expiry(new_ws, <<s, k>>)
    BY <1>2, <1>4, <1>5, <2>1, <2>2, <2>5, SameEntry
  <2> QED BY <2>1, <2>2, <2>6 DEF Waived
<1>9. ASSUME Waived(new_ws, f, day, 0) PROVE Waived(ws, f, day, 0)
  <2>1. PICK ref \in matches_for(new_ws, f) : ~Expired(Expiry(new_ws, ref), day, 0) BY <1>9 DEF Waived
  <2>7. PICK s \in Sections : \E k \in DOMAIN new_ws[s] : ref = <<s, k>> BY <2>1 DEF matches_for, Refs
  <2>2. PICK k \in DOMAIN new_ws[s] : ref = <<s, k>> BY <2>7
  <2>3. PICK i \in kept(s) : new[s][k] = doc[s][i] BY <1>1, <1>5, <2>2
  <2>4. i \in DOMAIN ws[s] /\ ws[s][i] = new_ws[s][k] BY <1>4, <1>5, <2>2, <2>3
  <2>5. <<s, i>> \in matches_for(ws, f) /\ Expiry(ws, <<s, i>>) = Expiry(new_ws, <<s, k>>)
    BY <1>2, <1>4, <1>5, <2>1, <2>2, <2>4, SameEntry
  <2> QED BY <2>1, <2>2, <2>5 DEF Waived
<1> QED BY <1>8, <1>9 DEF ws, new_ws, new

\* Neither way of pruning changes a verdict, today or later: expired entries go on any
\* day, those a report lists as unused while the report is fresh.
THEOREM PruningNeverChangesVerdicts == Spec => PruningKeepsVerdicts
<1>1. ASSUME IInv, NEW unused, file # Missing, Command(prune_data(file, unused)), Completed, ~Dormant(file),
             NEW f, NEW day \in Future, unused \cap matches_for(to_waiver_set(file), f) = {}
      PROVE  Verdict(file', f, day) = Verdict(file, f, day)
  <2> DEFINE new == prune_data(file, unused)
  <2>1. file \in Docs BY <1>1 DEF IInv, TypeInv
  <2>2. new \in Docs /\ new # Missing BY <2>1, PruneIsDoc, TypeAssumption DEF Docs
  <2>3. file' \in {new, file} BY <1>1, CommandWrites DEF IInv
  <2>4. Waived(to_waiver_set(new), f, day, 0) <=> Waived(to_waiver_set(file), f, day, 0)
    BY <1>1, <2>1, PruneKeeps DEF IInv
  <2>5. CASE file' = file BY <2>5
  <2>6. CASE file' = new
    <3>1. Verdict(new, f, day) <=> Verdict(file, f, day) BY <1>1, <2>2, <2>4 DEF Verdict
    <3>2. Verdict(new, f, day) \in BOOLEAN /\ Verdict(file, f, day) \in BOOLEAN BY DEF Verdict
    <3> QED BY <2>6, <3>1, <3>2
  <2> QED BY <2>3, <2>5, <2>6
<1>2. IInv /\ [Next]_vars => [PruneKeepsVerdicts]_vars
  BY <1>1 DEF PruneKeepsVerdicts, Prune
<1>3. IInv /\ [Next]_vars => [FreshPruneKeepsVerdicts]_vars
  <2> SUFFICES ASSUME IInv, PruneWithReport, Completed, report.fresh, ~Dormant(file),
                      NEW f \in report.seen, NEW day \in Future
               PROVE  Verdict(file', f, day) = Verdict(file, f, day)
    BY DEF FreshPruneKeepsVerdicts
  <2>1. report.unused = unused_refs(to_waiver_set(file), report.seen)
    BY DEF PruneWithReport, IInv, FreshInv
  <2>2. report.unused \cap matches_for(to_waiver_set(file), f) = {} BY <2>1 DEF unused_refs
  <2> QED BY <1>1, <2>2 DEF PruneWithReport
<1> QED BY <1>2, <1>3, InvariantHolds, PTL DEF Spec, PruningKeepsVerdicts
===============================================================================
