---------------------------- MODULE FindingsProofs ----------------------------
(***************************************************************************)
(* What a fingerprint, a waiver and a rule id are worth from one run to the*)
(* next, for any source, any machines and any rules.                       *)
(***************************************************************************)
EXTENDS Findings, FiniteSetTheorems, SequenceTheorems, TLAPS

-------------------------------------------------------------------------------
(* Rule ids *)

\* The id a rule's findings end up with: bare, or as OpenGrep reports it.
StrippedId(check_id, rules) ==
  LET bare == bare_rule_id(check_id, local_rule_ids(rules).unique)
  IN IF bare = {} \/ bare = {check_id} THEN check_id ELSE CHOOSE id \in bare : TRUE
RuleId(m, q) == StrippedId(CheckId(m.mount, q), m.rules)

TypedRule(r) == r.dir \in Seq(STRING) /\ r.id \in Seq(STRING) \ {<<>>}

\* The end of a sequence is a suffix of it.
LEMMA EndIsSuffix ==
  ASSUME NEW s \in Seq(STRING), NEW t \in Seq(STRING) PROVE IsSuffix(t, s \o t)
<1> DEFINE u == s \o t
           R == Reverse(t)
           Q == Reverse(u)
<1>1. u \in Seq(STRING) /\ Len(u) = Len(s) + Len(t) /\ Len(s) \in Nat /\ Len(t) \in Nat
  OBVIOUS
<1>2. \A i \in 1..Len(t) : u[Len(s) + i] = t[i] OBVIOUS
<1>3. R = [i \in 1..Len(t) |-> t[(Len(t) - i) + 1]] /\ R \in Seq(STRING) /\ Len(R) = Len(t)
  BY DEF Reverse
<1> HIDE DEF u
<1>4. Q = [i \in 1..Len(u) |-> u[(Len(u) - i) + 1]] /\ Q \in Seq(STRING) /\ Len(Q) = Len(u)
  BY <1>1 DEF Reverse
<1>5. \A i \in 1..Len(t) : R[i] = Q[i]
  <2> SUFFICES ASSUME NEW i \in 1..Len(t) PROVE R[i] = Q[i] OBVIOUS
  <2>1. i \in 1..Len(u) BY <1>1
  <2>2. (Len(u) - i) + 1 = Len(s) + ((Len(t) - i) + 1) /\ (Len(t) - i) + 1 \in 1..Len(t) BY <1>1
  <2>3. u[Len(s) + ((Len(t) - i) + 1)] = t[(Len(t) - i) + 1] BY <1>2, <2>2
  <2>4. Q[i] = u[(Len(u) - i) + 1] BY <1>4, <2>1
  <2>5. R[i] = t[(Len(t) - i) + 1] BY <1>3
  <2> QED BY <2>2, <2>3, <2>4, <2>5
<1> HIDE DEF R, Q
<1>6. Len(R) <= Len(Q) BY <1>1, <1>3, <1>4
<1>7. SubSeq(R, 1, Len(R)) = SubSeq(Q, 1, Len(R))
  <2>1. Len(R) \in Nat /\ SubSeq(R, 1, Len(R)) = [i \in 1..Len(R) |-> R[i]] BY <1>3
  <2>2. SubSeq(Q, 1, Len(R)) = [i \in 1..Len(R) |-> Q[i]] BY <1>4, <2>1
  <2> QED BY <1>3, <1>5, <2>1, <2>2
<1>8. IsPrefix(R, Q) BY <1>6, <1>7 DEF IsPrefix
<1> QED BY <1>8 DEF IsSuffix, R, Q, u

LEMMA SelfSuffix == \A s \in Seq(STRING) : IsSuffix(s, s)
<1> SUFFICES ASSUME NEW s \in Seq(STRING) PROVE IsSuffix(s, s) OBVIOUS
<1>1. <<>> \in Seq(STRING) /\ <<>> \o s = s OBVIOUS
<1> QED BY <1>1, EndIsSuffix

LEMMA CheckIds ==
  ASSUME NEW mount \in Seq(STRING), NEW r, TypedRule(r)
  PROVE  /\ CheckId(mount, r) \in Seq(STRING) \ {<<>>}
         /\ IsSuffix(r.id, CheckId(mount, r))
<1>1. mount \o r.dir \in Seq(STRING) /\ r.id \in Seq(STRING) BY DEF TypedRule
<1>2. \A s, u \in Seq(STRING) : u # <<>> => s \o u \in Seq(STRING) /\ s \o u # <<>>
  <2> SUFFICES ASSUME NEW s \in Seq(STRING), NEW u \in Seq(STRING), u # <<>>
               PROVE  s \o u \in Seq(STRING) /\ s \o u # <<>>
    OBVIOUS
  <2>1. Len(u) > 0 /\ Len(s) >= 0 /\ Len(s \o u) = Len(s) + Len(u) OBVIOUS
  <2>2. Len(s \o u) # 0 BY <2>1
  <2> QED BY <2>2
<1>3. r.id # <<>> BY DEF TypedRule
<1>4. CheckId(mount, r) = (mount \o r.dir) \o r.id BY DEF CheckId
<1> QED BY <1>1, <1>2, <1>3, <1>4, EndIsSuffix

LEMMA SecondVersion == \A found : rule_id_for_version(found, 2) = found.check_id
  BY DEF rule_id_for_version

\* What the replacement does to a result, and that version 1 undoes it.
LEMMA Stripping ==
  ASSUME NEW m, NEW q, NEW path, NEW line, NEW match, NEW severity, NEW of, NEW result,
         CheckId(m.mount, q) # <<>>,
         result = strip_rule_id_prefixes(
                    Raw("opengrep", CheckId(m.mount, q), path, line, match, 0, severity, NoText, of), m.rules)
  PROVE  /\ result.check_id = RuleId(m, q)
         /\ rule_id_for_version(result, 1) = CheckId(m.mount, q)
         /\ rule_id_for_version(result, 2) = RuleId(m, q)
         /\ result.tool = "opengrep" /\ result.match = match /\ result.line = line
         /\ result.path = path /\ result.of = of
<1> DEFINE cid == CheckId(m.mount, q)
           found == Raw("opengrep", cid, path, line, match, 0, severity, NoText, of)
           bare == bare_rule_id(cid, local_rule_ids(m.rules).unique)
<1>1. /\ found.check_id = cid /\ found.original_check_id = <<>> /\ found.tool = "opengrep"
      /\ found.match = match /\ found.line = line /\ found.path = path /\ found.of = of
  BY DEF Raw
<1>2. result = IF bare = {} \/ bare = {cid} THEN found
               ELSE [found EXCEPT !.check_id = CHOOSE id \in bare : TRUE, !.original_check_id = found.check_id]
  <2>1. bare_rule_id(found.check_id, local_rule_ids(m.rules).unique) = bare BY <1>1
  <2> QED BY <1>1, <2>1 DEF strip_rule_id_prefixes
<1>3. RuleId(m, q) = IF bare = {} \/ bare = {cid} THEN cid ELSE CHOOSE id \in bare : TRUE
  BY DEF RuleId, StrippedId
<1>4. \A id : LET new == [found EXCEPT !.check_id = id, !.original_check_id = cid]
              IN /\ new.check_id = id /\ new.original_check_id = cid /\ new.tool = "opengrep"
                 /\ new.match = match /\ new.line = line /\ new.path = path /\ new.of = of
  BY DEF Raw
<1>5. cid # <<>> OBVIOUS
<1> HIDE DEF bare, found
<1>6. CASE bare = {} \/ bare = {cid}
  BY <1>1, <1>2, <1>3, <1>6 DEF rule_id_for_version
<1>7. CASE ~(bare = {} \/ bare = {cid})
  <2>1. result = [found EXCEPT !.check_id = RuleId(m, q), !.original_check_id = cid]
    BY <1>1, <1>2, <1>3, <1>7
  <2>2. /\ result.check_id = RuleId(m, q) /\ result.original_check_id = cid /\ result.tool = "opengrep"
        /\ result.match = match /\ result.line = line /\ result.path = path /\ result.of = of
    BY <2>1, <1>4
  <2>3. rule_id_for_version(result, 1) = cid BY <2>2, <1>5 DEF rule_id_for_version
  <2>4. rule_id_for_version(result, 2) = result.check_id BY SecondVersion, Zenon
  <2> QED BY <2>2, <2>3, <2>4
<1> QED BY <1>6, <1>7

\* An id is known to be of one rule file exactly if no other file has it.
LEMMA UniqueIds ==
  ASSUME NEW rules, IsFiniteSet(rules), NEW q \in rules
  PROVE  q.id \in local_rule_ids(rules).unique <=> \A s \in rules : s.id = q.id => RuleFile(s) = RuleFile(q)
<1> DEFINE S == {r \in rules : r.id = q.id}
           T == FilesOf(q.id, rules)
           g == [r \in S |-> RuleFile(r)]
<1>1. T = {RuleFile(r) : r \in S} BY DEF FilesOf
<1>2. q \in S /\ IsFiniteSet(S)
  <2>1. S \in SUBSET rules OBVIOUS
  <2> QED BY <2>1, FS_Subset
<1>3. IsFiniteSet(T)
  <2>1. g \in Surjection(S, T) BY <1>1 DEF Surjection
  <2> QED BY <1>2, <2>1, FS_Surjection
<1>4. RuleFile(q) \in T BY <1>1, <1>2
<1>5. q.id \in local_rule_ids(rules).unique <=> ~(Cardinality(T) > 1) BY DEF local_rule_ids
<1>6. Cardinality(T) \in Nat /\ Cardinality(T) # 0 BY <1>3, <1>4, FS_CardinalityType, FS_EmptySet
<1>7. q.id \in local_rule_ids(rules).unique <=> Cardinality(T) = 1 BY <1>5, <1>6
<1>8. Cardinality(T) = 1 <=> \E x : T = {x} BY <1>3, FS_Singleton
<1>9. (\E x : T = {x}) <=> \A s \in S : RuleFile(s) = RuleFile(q) BY <1>1, <1>2
<1> QED BY <1>7, <1>8, <1>9

\* When no other known id ends the reported one, only the rule's own can replace it.
LEMMA OnlyOwnId ==
  ASSUME NEW check_id, NEW rules, NEW id, Len(id) \in Nat, IsSuffix(id, check_id),
         \A other \in local_rule_ids(rules).unique : IsSuffix(other, check_id) => other = id
  PROVE  StrippedId(check_id, rules) = IF id \in local_rule_ids(rules).unique THEN id ELSE check_id
<1> DEFINE unique == local_rule_ids(rules).unique
           bare == bare_rule_id(check_id, unique)
<1>1. CASE id \in unique
  <2>1. {other \in unique : IsSuffix(other, check_id)} = {id} BY <1>1
  <2>2. bare = {id} BY <2>1 DEF bare_rule_id
  <2>3. bare # {} /\ (CHOOSE x \in bare : TRUE) = id BY <2>2
  <2>4. bare = {check_id} => check_id = id BY <2>2
  <2>5. StrippedId(check_id, rules) = IF bare = {} \/ bare = {check_id} THEN check_id ELSE CHOOSE x \in bare : TRUE
    BY DEF StrippedId
  <2> HIDE DEF bare, unique
  <2> QED BY <1>1, <2>3, <2>4, <2>5 DEF unique
<1>2. CASE id \notin unique
  <2>1. {other \in unique : IsSuffix(other, check_id)} = {} BY <1>2
  <2>2. bare = {} BY <2>1 DEF bare_rule_id
  <2> QED BY <1>2, <2>2 DEF StrippedId
<1> QED BY <1>1, <1>2

LEMMA MachineTypes ==
  ASSUME NEW m \in Machines
  PROVE  /\ m.mount \in Seq(STRING) /\ IsFiniteSet(m.rules)
         /\ \A r \in m.rules : TypedRule(r) /\ Len(r.id) \in Nat
  BY MachineAssumption DEF TypedRule

LEMMA UniqueAreIds ==
  ASSUME NEW rules, NEW id \in local_rule_ids(rules).unique PROVE \E r \in rules : r.id = id
  BY DEF local_rule_ids

LEMMA RuleIdWithoutOverlap ==
  ASSUME NEW m \in Machines, NoOverlap(m), NEW q \in m.rules
  PROVE  RuleId(m, q) = IF q.id \in local_rule_ids(m.rules).unique THEN q.id ELSE CheckId(m.mount, q)
<1>1. Len(q.id) \in Nat /\ IsSuffix(q.id, CheckId(m.mount, q)) BY MachineTypes, CheckIds
<1>2. ASSUME NEW other \in local_rule_ids(m.rules).unique, IsSuffix(other, CheckId(m.mount, q))
      PROVE  other = q.id
  <2>1. PICK r \in m.rules : r.id = other BY UniqueAreIds
  <2>2. ~Overlap(m, r, q) BY DEF NoOverlap
  <2> QED BY <1>2, <2>1, <2>2 DEF Overlap
<1> QED BY <1>1, <1>2, OnlyOwnId DEF RuleId

\* Two rules that OpenGrep reports apart keep different ids.
LEMMA RulesApart ==
  ASSUME NEW m \in Machines, NoOverlap(m), NEW q \in m.rules, NEW r \in m.rules, Apart(m, q, r)
  PROVE  RuleId(m, q) # RuleId(m, r)
<1> DEFINE unique == local_rule_ids(m.rules).unique
<1>1. /\ RuleId(m, q) = IF q.id \in unique THEN q.id ELSE CheckId(m.mount, q)
      /\ RuleId(m, r) = IF r.id \in unique THEN r.id ELSE CheckId(m.mount, r)
  BY RuleIdWithoutOverlap
<1>2. CheckId(m.mount, q) # CheckId(m.mount, r) BY DEF Apart
<1>3. IsSuffix(q.id, CheckId(m.mount, q)) /\ IsSuffix(r.id, CheckId(m.mount, r)) BY MachineTypes, CheckIds
<1>4. ~Overlap(m, q, r) /\ ~Overlap(m, r, q) BY DEF NoOverlap
<1> HIDE DEF unique
<1>5. CASE q.id \in unique /\ r.id \in unique
  <2>1. SUFFICES ASSUME q.id = r.id PROVE FALSE BY <1>1, <1>5
  <2>2. RuleFile(r) = RuleFile(q) BY <1>5, <2>1, UniqueIds, MachineTypes DEF unique
  <2>3. r.dir = q.dir BY <2>2 DEF RuleFile
  <2> QED BY <1>2, <2>1, <2>3 DEF CheckId
<1>6. CASE q.id \in unique /\ r.id \notin unique
  <2>1. SUFFICES ASSUME q.id = CheckId(m.mount, r) PROVE FALSE BY <1>1, <1>6
  <2>2. IsSuffix(r.id, q.id) BY <1>3, <2>1
  <2>3. q.id # r.id BY <1>6
  <2> QED BY <1>4, <2>1, <2>3, SelfSuffix, MachineTypes, CheckIds DEF Overlap
<1>7. CASE q.id \notin unique /\ r.id \in unique
  <2>1. SUFFICES ASSUME r.id = CheckId(m.mount, q) PROVE FALSE BY <1>1, <1>7
  <2>2. q.id # r.id BY <1>7
  <2> QED BY <1>4, <2>1, <2>2, SelfSuffix, MachineTypes, CheckIds DEF Overlap
<1>8. CASE q.id \notin unique /\ r.id \notin unique BY <1>1, <1>2, <1>8
<1> QED BY <1>5, <1>6, <1>7, <1>8

\* A rule that shares its id and its end with no other has its bare id, wherever it is
\* mounted.
LEMMA BareRule ==
  ASSUME NEW m \in Machines, NEW r \in m.rules, Bare(m, r) PROVE RuleId(m, r) = r.id
<1>1. Len(r.id) \in Nat /\ IsSuffix(r.id, CheckId(m.mount, r)) BY MachineTypes, CheckIds
<1>2. ASSUME NEW other \in local_rule_ids(m.rules).unique, IsSuffix(other, CheckId(m.mount, r))
      PROVE  other = r.id
  <2>1. PICK q \in m.rules : q.id = other BY UniqueAreIds
  <2> QED BY <1>2, <2>1 DEF Bare, Overlap
<1>3. r.id \in local_rule_ids(m.rules).unique
  <2>1. \A s \in m.rules : s.id = r.id => s = r BY DEF Bare
  <2> QED BY <2>1, UniqueIds, MachineTypes
<1> QED BY <1>1, <1>2, <1>3, OnlyOwnId DEF RuleId
-------------------------------------------------------------------------------
(* Waiving *)

LEMMA ImageIsFinite ==
  ASSUME NEW S, IsFiniteSet(S), NEW g, DOMAIN g = S PROVE IsFiniteSet({g[x] : x \in S})
<1> DEFINE T == {g[x] : x \in S}
           h == [x \in S |-> g[x]]
<1>1. h \in Surjection(S, T) BY DEF Surjection
<1> QED BY <1>1, FS_Surjection

LEMMA SetToSeqLists ==
  ASSUME NEW S, IsFiniteSet(S)
  PROVE  {SetToSeq(S)[i] : i \in DOMAIN SetToSeq(S)} = S
<1> DEFINE n == Cardinality(S)
           s == SetToSeq(S)
<1>1. n \in Nat /\ ExistsBijection(1..n, S) BY FS_CardinalityType
<1>2. \E g \in [1..n -> S] : IsInjective(g) BY <1>1 DEF ExistsBijection, Bijection, Injection
<1>3. s \in [1..n -> S] /\ IsInjective(s) BY <1>2 DEF SetToSeq
<1>4. s \in Injection(1..n, S) BY <1>3 DEF Injection
<1>5. IsFiniteSet(1..n) /\ Cardinality(1..n) = n BY <1>1, FS_Interval
<1>6. s \in Surjection(1..n, S) BY <1>4, <1>5, FS_Injection
<1> HIDE DEF s
<1>7. DOMAIN s = 1..n /\ (\A i \in 1..n : s[i] \in S) /\ \A x \in S : \E i \in 1..n : s[i] = x
  BY <1>3, <1>6 DEF Surjection
<1>8. {s[i] : i \in DOMAIN s} = S BY <1>7
<1> QED BY <1>8 DEF s

\* The engine waives what has a fingerprint, current or legacy, in the waiver file.
LEMMA WaivedByFingerprint ==
  ASSUME IsFiniteSet(waivers), NEW f
  PROVE  W!Waived(WaiverSet, f, 0, 0) = \E w \in waivers : w.fingerprint \in f.fingerprints \cup f.legacy
<1> DEFINE entry(w) == [key |-> w.fingerprint, expires |-> W!NoDate, tools |-> {}]
           S == {entry(w) : w \in waivers}
           fw == SetToSeq(S)
           g == [w \in waivers |-> entry(w)]
<1>1. {fw[i] : i \in DOMAIN fw} = S
  <2>1. {g[w] : w \in waivers} = S /\ DOMAIN g = waivers OBVIOUS
  <2> HIDE DEF g
  <2>2. IsFiniteSet({g[w] : w \in waivers}) BY <2>1, ImageIsFinite
  <2> QED BY <2>1, <2>2, SetToSeqLists
<1>2. /\ WaiverSet.finding_waivers = fw /\ WaiverSet.benchmark = <<>> /\ WaiverSet.path_exclusions = <<>>
  BY DEF WaiverSet, W!EmptyDocument
<1> HIDE DEF fw, S
<1>3. W!Refs(WaiverSet) = {"finding_waivers"} \X DOMAIN fw
  BY <1>2 DEF W!Refs, W!Sections
<1>4. \A i \in DOMAIN fw : \E w \in waivers : fw[i] = entry(w) BY <1>1 DEF S
<1>5. \A w \in waivers : \E i \in DOMAIN fw : fw[i] = entry(w) BY <1>1 DEF S
<1>6. \A i \in DOMAIN fw : /\ <<"finding_waivers", i>> \in W!Refs(WaiverSet)
                           /\ W!Entry(WaiverSet, <<"finding_waivers", i>>) = fw[i]
                           /\ ~W!Expired(W!Expiry(WaiverSet, <<"finding_waivers", i>>), 0, 0)
                           /\ W!entry_applies_to_tool(fw[i].tools, f.tool)
  <2> TAKE i \in DOMAIN fw
  <2>1. PICK w \in waivers : fw[i] = entry(w) BY <1>4
  <2>2. fw[i].expires = W!NoDate /\ fw[i].tools = {} BY <2>1
  <2>3. W!Entry(WaiverSet, <<"finding_waivers", i>>) = fw[i] BY <1>2 DEF W!Entry
  <2>4. W!Expiry(WaiverSet, <<"finding_waivers", i>>) = W!NoDate BY <2>2, <2>3 DEF W!Expiry
  <2> QED BY <1>3, <2>2, <2>3, <2>4 DEF W!Expired, W!entry_applies_to_tool
<1>7. \A ref : ref \in W!matches_for(WaiverSet, f) <=>
        \E i \in DOMAIN fw : ref = <<"finding_waivers", i>> /\ fw[i].key \in f.fingerprints \cup f.legacy
  BY <1>3, <1>6 DEF W!matches_for
<1>8. W!Waived(WaiverSet, f, 0, 0) <=> \E i \in DOMAIN fw : fw[i].key \in f.fingerprints \cup f.legacy
  BY <1>6, <1>7 DEF W!Waived
<1>9. W!Waived(WaiverSet, f, 0, 0) <=> \E w \in waivers : w.fingerprint \in f.fingerprints \cup f.legacy
  BY <1>4, <1>5, <1>8
<1>10. W!Waived(WaiverSet, f, 0, 0) \in BOOLEAN BY DEF W!Waived
<1> QED BY <1>9, <1>10
-------------------------------------------------------------------------------
(* Raw findings *)

\* The values of secrets, and none.
Candidates == {NoText, "key", "k-e-y", "pin"}

\* What each tool reports on a machine, as far as fingerprints and waivers look at it.
SecretRaw(m, r) ==
  /\ r.tool = "trufflehog" /\ r.check_id = <<"detector">> /\ r.of.rule = {}
  /\ r.match \in Candidates /\ r.path \in {r.of.file, Spelled(m, r.of.file)}
CodeRaw(m, r, q) ==
  /\ r.tool = "opengrep" /\ r.match \in Code /\ r.of.rule = {q}
  /\ r.check_id = RuleId(m, q)
  /\ rule_id_for_version(r, 1) = CheckId(m.mount, q) /\ rule_id_for_version(r, 2) = RuleId(m, q)
  /\ r.of.text \in Seq(Tokens) /\ r.line \in DOMAIN r.of.text /\ r.path = Spelled(m, r.of.file)
PackageRaw(r) ==
  /\ r.tool = "grype" /\ r.check_id = <<"CVE">> /\ r.of.rule = {} /\ r.match \in Packages
  /\ r.path = <<"/">> \o r.of.file
CheckRaw(m, r) ==
  /\ r.tool = "checkov" /\ r.check_id = <<"CKV">> /\ r.of.rule = {} /\ r.match = "bad"
  /\ IsName(r.of.file) /\ r.path = unrooted(Spelled(m, r.of.file))
RawOK(m, r) == SecretRaw(m, r) \/ (\E q \in m.rules : CodeRaw(m, r, q)) \/ PackageRaw(r) \/ CheckRaw(m, r)

\* The lines with a token: finitely many, each in a file of the source.
LEMMA LinesAreFinite ==
  ASSUME NEW files, IsSource(files), NEW tokens
  PROVE  /\ IsFiniteSet(Lines(files, tokens))
         /\ \A fi \in Lines(files, tokens) :
              /\ fi[1] \in DOMAIN files /\ IsName(fi[1]) /\ files[fi[1]] \in Seq(Tokens)
              /\ fi[2] \in DOMAIN files[fi[1]] /\ files[fi[1]][fi[2]] \in tokens
<1> DEFINE g == [f \in DOMAIN files |-> {f} \X DOMAIN files[f]]
           U == UNION {g[f] : f \in DOMAIN files}
<1>1. DOMAIN g = DOMAIN files /\ IsFiniteSet(DOMAIN files) BY DEF IsSource
<1>2. \A f \in DOMAIN files : IsFiniteSet(g[f])
  <2> TAKE f \in DOMAIN files
  <2>1. files[f] \in Seq(Tokens) BY DEF IsSource
  <2>2. DOMAIN files[f] = 1..Len(files[f]) /\ Len(files[f]) \in Nat BY <2>1
  <2>3. IsFiniteSet(1..Len(files[f])) BY <2>2, FS_Interval
  <2>4. IsFiniteSet({f}) BY FS_Singleton
  <2>5. IsFiniteSet({f} \X DOMAIN files[f]) BY <2>2, <2>3, <2>4, FS_Product
  <2> QED BY <2>5
<1>3. Lines(files, tokens) \in SUBSET U BY DEF Lines
<1>4. \A fi \in U : fi[1] \in DOMAIN files /\ fi[2] \in DOMAIN files[fi[1]] OBVIOUS
<1> HIDE DEF g
<1>5. IsFiniteSet({g[f] : f \in DOMAIN files}) BY <1>1, ImageIsFinite
<1>6. \A T \in {g[f] : f \in DOMAIN files} : IsFiniteSet(T) BY <1>2
<1>7. IsFiniteSet(U) BY <1>5, <1>6, FS_UNION
<1>8. IsFiniteSet(Lines(files, tokens)) BY <1>3, <1>7, FS_Subset
<1>9. \A fi \in Lines(files, tokens) : files[fi[1]][fi[2]] \in tokens BY DEF Lines
<1>10. \A f \in DOMAIN files : IsName(f) /\ files[f] \in Seq(Tokens) BY DEF IsSource
<1> QED BY <1>3, <1>4, <1>8, <1>9, <1>10

LEMMA RawFields ==
  ASSUME NEW tool, NEW rule, NEW path, NEW line, NEW match, NEW commit, NEW severity, NEW fix, NEW of,
         NEW r, r = Raw(tool, rule, path, line, match, commit, severity, fix, of)
  PROVE  r.tool = tool /\ r.check_id = rule /\ r.path = path /\ r.line = line /\ r.match = match /\ r.of = of
  BY DEF Raw

\* A candidate is a secret, or empty.
LEMMA CandidateIsSecret == \A token \in Secrets : Candidate(token) \in Candidates
  BY DEF Candidate, Secrets, Candidates

LEMMA SecretFindings ==
  ASSUME NEW m, IsSource(tree), IsFiniteSet(DOMAIN commits), \A c \in DOMAIN commits : IsSource(commits[c])
  PROVE  IsFiniteSet(run_trufflehog(m)) /\ \A r \in run_trufflehog(m) : SecretRaw(m, r)
<1>1. CASE m.repo.git
  <2> DEFINE found(c, fi) == Raw("trufflehog", <<"detector">>, fi[1], fi[2], Candidate(commits[c][fi[1]][fi[2]]), c,
                                 NoText, NoText, Of({}, fi[1], commits[c][fi[1]]))
             New(c) == {l \in Lines(commits[c], Secrets) : Added(c, l)}
             g == [c \in DOMAIN commits |-> {found(c, fi) : fi \in New(c)}]
  <2>1. run_trufflehog(m) = UNION {g[c] : c \in DOMAIN commits} BY <1>1 DEF run_trufflehog
  <2>2. ASSUME NEW c \in DOMAIN commits PROVE IsFiniteSet(g[c]) /\ \A r \in g[c] : SecretRaw(m, r)
    <3> DEFINE h == [fi \in New(c) |-> found(c, fi)]
    <3>1. IsFiniteSet(New(c))
      <4>1. New(c) \in SUBSET Lines(commits[c], Secrets) OBVIOUS
      <4> QED BY <4>1, LinesAreFinite, FS_Subset
    <3>2. g[c] = {h[fi] : fi \in New(c)} /\ DOMAIN h = New(c) OBVIOUS
    <3>3. \A fi \in New(c) : SecretRaw(m, found(c, fi))
      <4> TAKE fi \in New(c)
      <4>1. commits[c][fi[1]][fi[2]] \in Secrets BY LinesAreFinite
      <4> HIDE DEF New
      <4>2. Candidate(commits[c][fi[1]][fi[2]]) \in Candidates BY <4>1, CandidateIsSecret
      <4>3. found(c, fi).of.rule = {} /\ found(c, fi).of.file = fi[1] BY RawFields DEF Of
      <4>4. /\ found(c, fi).tool = "trufflehog" /\ found(c, fi).check_id = <<"detector">> /\ found(c, fi).path = fi[1]
            /\ found(c, fi).match = Candidate(commits[c][fi[1]][fi[2]])
        BY RawFields
      <4> QED BY <4>2, <4>3, <4>4 DEF SecretRaw
    <3>4. \A r \in g[c] : SecretRaw(m, r) BY <3>3
    <3> HIDE DEF h, g, New
    <3> QED BY <3>1, <3>2, <3>4, ImageIsFinite
  <2>3. DOMAIN g = DOMAIN commits OBVIOUS
  <2> HIDE DEF g
  <2>4. IsFiniteSet({g[c] : c \in DOMAIN commits}) BY <2>3, ImageIsFinite
  <2>5. \A T \in {g[c] : c \in DOMAIN commits} : IsFiniteSet(T) BY <2>2
  <2> QED BY <2>1, <2>2, <2>4, <2>5, FS_UNION
<1>2. CASE ~m.repo.git
  <2> DEFINE found(fi) == Raw("trufflehog", <<"detector">>, Spelled(m, fi[1]), fi[2], Candidate(tree[fi[1]][fi[2]]), 0,
                              NoText, NoText, Of({}, fi[1], tree[fi[1]]))
             L == Lines(tree, Secrets)
             h == [fi \in L |-> found(fi)]
  <2>1. run_trufflehog(m) = {h[fi] : fi \in L} /\ DOMAIN h = L BY <1>2 DEF run_trufflehog
  <2>2. \A fi \in L : SecretRaw(m, found(fi))
    <3> TAKE fi \in L
    <3>1. Candidate(tree[fi[1]][fi[2]]) \in Candidates BY LinesAreFinite, CandidateIsSecret
    <3>2. found(fi).of.rule = {} /\ found(fi).of.file = fi[1] BY RawFields DEF Of
    <3>3. /\ found(fi).tool = "trufflehog" /\ found(fi).check_id = <<"detector">> /\ found(fi).path = Spelled(m, fi[1])
          /\ found(fi).match = Candidate(tree[fi[1]][fi[2]])
      BY RawFields
    <3> QED BY <3>1, <3>2, <3>3 DEF SecretRaw
  <2>3. \A fi \in L : SecretRaw(m, h[fi]) BY <2>2
  <2>4. IsFiniteSet(L) BY LinesAreFinite
  <2> HIDE DEF h, L
  <2> QED BY <2>1, <2>3, <2>4, ImageIsFinite
<1> QED BY <1>1, <1>2

LEMMA ReportedIsCode ==
  ASSUME NEW m \in Machines, IsSource(tree), NEW q \in m.rules, NEW fi \in Lines(tree, Code)
  PROVE  CodeRaw(m, Reported(m, q, fi), q)
<1>1. /\ fi[1] \in DOMAIN tree /\ tree[fi[1]] \in Seq(Tokens)
      /\ fi[2] \in DOMAIN tree[fi[1]] /\ tree[fi[1]][fi[2]] \in Code
  BY LinesAreFinite
<1>2. PICK of : of = Of({q}, fi[1], tree[fi[1]]) OBVIOUS
<1>3. PICK path : path = Spelled(m, fi[1]) OBVIOUS
<1>4. PICK match : match = tree[fi[1]][fi[2]] OBVIOUS
<1>5. PICK line : line = fi[2] OBVIOUS
<1>6. PICK result : result = Reported(m, q, fi) OBVIOUS
<1>7. of.rule = {q} /\ of.text = tree[fi[1]] /\ of.file = fi[1] BY <1>2 DEF Of
<1>8. CheckId(m.mount, q) # <<>> BY MachineTypes, CheckIds
<1>9. result = strip_rule_id_prefixes(
                  Raw("opengrep", CheckId(m.mount, q), path, line, match, 0, NoText, NoText, of), m.rules)
  BY <1>2, <1>3, <1>4, <1>5, <1>6 DEF Reported
<1>10. /\ result.check_id = RuleId(m, q)
       /\ rule_id_for_version(result, 1) = CheckId(m.mount, q)
       /\ rule_id_for_version(result, 2) = RuleId(m, q)
       /\ result.tool = "opengrep" /\ result.match = match /\ result.line = line /\ result.of = of
       /\ result.path = path
  BY <1>8, <1>9, Stripping
<1> QED BY <1>1, <1>3, <1>4, <1>5, <1>6, <1>7, <1>10 DEF CodeRaw

LEMMA CodeFindings ==
  ASSUME NEW m \in Machines, IsSource(tree)
  PROVE  IsFiniteSet(run_opengrep(m)) /\ \A r \in run_opengrep(m) : \E q \in m.rules : CodeRaw(m, r, q)
<1> DEFINE L == Lines(tree, Code)
           g == [q \in m.rules |-> {Reported(m, q, fi) : fi \in L}]
<1>1. run_opengrep(m) = UNION {g[q] : q \in m.rules} BY DEF run_opengrep
<1>2. ASSUME NEW q \in m.rules PROVE IsFiniteSet(g[q]) /\ \A r \in g[q] : CodeRaw(m, r, q)
  <2> DEFINE h == [fi \in L |-> Reported(m, q, fi)]
  <2>1. g[q] = {h[fi] : fi \in L} /\ DOMAIN h = L OBVIOUS
  <2>2. \A fi \in L : CodeRaw(m, Reported(m, q, fi), q) BY ReportedIsCode
  <2>3. \A r \in g[q] : CodeRaw(m, r, q) BY <2>2
  <2>4. IsFiniteSet(L) BY LinesAreFinite
  <2> HIDE DEF g, h, L
  <2> QED BY <2>1, <2>3, <2>4, ImageIsFinite
<1>3. DOMAIN g = m.rules /\ IsFiniteSet(m.rules) BY MachineTypes
<1> HIDE DEF g
<1>4. IsFiniteSet({g[q] : q \in m.rules}) BY <1>3, ImageIsFinite
<1>5. \A T \in {g[q] : q \in m.rules} : IsFiniteSet(T) BY <1>2
<1>6. \A r \in run_opengrep(m) : \E q \in m.rules : CodeRaw(m, r, q) BY <1>1, <1>2
<1> QED BY <1>1, <1>4, <1>5, <1>6, FS_UNION

LEMMA PackageFindings ==
  ASSUME NEW m, IsSource(tree)
  PROVE  IsFiniteSet(run_grype(m)) /\ \A r \in run_grype(m) : PackageRaw(r)
<1> DEFINE found(fi) == Raw("grype", <<"CVE">>, <<"/">> \o fi[1], 0, tree[fi[1]][fi[2]], 0, m.db.severity, m.db.fix,
                            Of({}, fi[1], tree[fi[1]]))
           L == Lines(tree, Packages)
           h == [fi \in L |-> found(fi)]
<1>1. run_grype(m) = {h[fi] : fi \in L} /\ DOMAIN h = L BY DEF run_grype
<1>2. \A fi \in L : PackageRaw(found(fi))
  <2> TAKE fi \in L
  <2>1. tree[fi[1]][fi[2]] \in Packages BY LinesAreFinite
  <2>2. found(fi).of.rule = {} /\ found(fi).of.file = fi[1] BY RawFields DEF Of
  <2>3. PICK path : path = <<"/">> \o fi[1] OBVIOUS
  <2>4. PICK match : match = tree[fi[1]][fi[2]] OBVIOUS
  <2>5. found(fi).path = path /\ found(fi).match = match BY <2>3, <2>4 DEF Raw
  <2>6. found(fi).tool = "grype" /\ found(fi).check_id = <<"CVE">> BY DEF Raw
  <2> QED BY <2>1, <2>2, <2>3, <2>4, <2>5, <2>6 DEF PackageRaw
<1>3. \A fi \in L : PackageRaw(h[fi]) BY <1>2
<1>4. IsFiniteSet(L) BY LinesAreFinite
<1> HIDE DEF h, L
<1> QED BY <1>1, <1>3, <1>4, ImageIsFinite

LEMMA CheckFindings ==
  ASSUME NEW m, IsSource(tree)
  PROVE  IsFiniteSet(run_checkov(m)) /\ \A r \in run_checkov(m) : CheckRaw(m, r)
<1> DEFINE found(fi) == Raw("checkov", <<"CKV">>, unrooted(Spelled(m, fi[1])), fi[2], tree[fi[1]][fi[2]], 0,
                            NoText, NoText, Of({}, fi[1], tree[fi[1]]))
           L == Lines(tree, {"bad"})
           h == [fi \in L |-> found(fi)]
<1>1. run_checkov(m) = {h[fi] : fi \in L} /\ DOMAIN h = L BY DEF run_checkov
<1>2. \A fi \in L : CheckRaw(m, found(fi))
  <2> TAKE fi \in L
  <2>1. tree[fi[1]][fi[2]] = "bad" /\ IsName(fi[1]) BY LinesAreFinite
  <2>2. found(fi).of.rule = {} /\ found(fi).of.file = fi[1] BY RawFields DEF Of
  <2> QED BY <2>1, <2>2, RawFields DEF CheckRaw
<1>3. \A fi \in L : CheckRaw(m, h[fi]) BY <1>2
<1>4. IsFiniteSet(L) BY LinesAreFinite
<1> HIDE DEF h, L
<1> QED BY <1>1, <1>3, <1>4, ImageIsFinite
-------------------------------------------------------------------------------
(* Paths *)

\* A sequence is what is left of its concatenation after the first one.
LEMMA Rest ==
  ASSUME NEW s \in Seq(STRING), NEW t \in Seq(STRING)
  PROVE  IsPrefix(s, s \o t) /\ SubSeq(s \o t, Len(s) + 1, Len(s \o t)) = t
<1> DEFINE u == s \o t
           rest == SubSeq(u, Len(s) + 1, Len(u))
<1>1. u \in Seq(STRING) /\ Len(s) \in Nat /\ Len(t) \in Nat /\ Len(u) = Len(s) + Len(t) OBVIOUS
<1>2. \A i \in 1..Len(s) : u[i] = s[i] OBVIOUS
<1>3. \A i \in 1..Len(t) : u[Len(s) + i] = t[i] OBVIOUS
<1> HIDE DEF u
<1>4. SubSeq(s, 1, Len(s)) = SubSeq(u, 1, Len(s)) BY <1>1, <1>2
<1>5. IsPrefix(s, u) BY <1>1, <1>4 DEF IsPrefix
<1>6. rest \in Seq(STRING) /\ Len(rest) = Len(t) BY <1>1
<1>7. \A i \in 1..Len(t) : rest[i] = t[i] BY <1>1, <1>3
<1> HIDE DEF rest
<1>8. rest = t BY <1>6, <1>7
<1> QED BY <1>5, <1>8 DEF u, rest

LEMMA Cancel ==
  ASSUME NEW s \in Seq(STRING), NEW t \in Seq(STRING), NEW u \in Seq(STRING), s \o t = s \o u PROVE t = u
<1>1. SubSeq(s \o t, Len(s) + 1, Len(s \o t)) = t /\ SubSeq(s \o u, Len(s) + 1, Len(s \o u)) = u BY Rest
<1> QED BY <1>1

LEMMA Associative ==
  ASSUME NEW s \in Seq(STRING), NEW t \in Seq(STRING), NEW u \in Seq(STRING) PROVE (s \o t) \o u = s \o (t \o u)
  OBVIOUS

\* The first element of a sequence, and what follows it.
LEMMA HeadAndTail ==
  ASSUME NEW s \in Seq(STRING), s # <<>>, NEW t \in Seq(STRING)
  PROVE  /\ (s \o t)[1] = s[1] /\ s \o t # <<>> /\ Tail(s) \in Seq(STRING)
         /\ Tail(s \o t) = Tail(s) \o t /\ <<s[1]>> \o Tail(s) = s
         /\ Tail(s) = SubSeq(s, 2, Len(s)) /\ Len(s) > 0
         /\ Len(s) = 1 => Tail(s) = <<>> /\ s = <<s[1]>>
<1>1. Len(s) \in Nat /\ Len(s) > 0 /\ Len(t) \in Nat /\ Len(s \o t) = Len(s) + Len(t) OBVIOUS
<1>2. (s \o t)[1] = s[1] /\ s \o t # <<>> /\ s \o t \in Seq(STRING) BY <1>1
<1>3. Tail(s) \in Seq(STRING) /\ Len(Tail(s)) = Len(s) - 1 BY <1>1
<1>4. \A i \in 1..(Len(s) - 1) : Tail(s)[i] = s[i + 1] BY <1>1
<1>5. Tail(s \o t) = Tail(s) \o t
  <2> DEFINE a == Tail(s \o t)
             b == Tail(s) \o t
  <2>1. a \in Seq(STRING) /\ Len(a) = Len(s) + Len(t) - 1 BY <1>1, <1>2
  <2>2. b \in Seq(STRING) /\ Len(b) = Len(s) + Len(t) - 1 BY <1>1, <1>3
  <2>3. \A i \in 1..(Len(s) + Len(t) - 1) : a[i] = b[i]
    <3> TAKE i \in 1..(Len(s) + Len(t) - 1)
    <3>1. a[i] = (s \o t)[i + 1] BY <1>1, <1>2
    <3>2. CASE i <= Len(s) - 1
      <4>1. (s \o t)[i + 1] = s[i + 1] BY <1>1, <3>2
      <4>2. b[i] = Tail(s)[i] BY <1>1, <1>3, <3>2
      <4> QED BY <1>1, <1>4, <3>1, <3>2, <4>1, <4>2
    <3>3. CASE i > Len(s) - 1
      <4>1. (s \o t)[i + 1] = t[i + 1 - Len(s)] BY <1>1, <3>3
      <4>2. b[i] = t[i - (Len(s) - 1)] BY <1>1, <1>3, <3>3
      <4>3. i + 1 - Len(s) = i - (Len(s) - 1) BY <1>1
      <4> QED BY <3>1, <4>1, <4>2, <4>3
    <3> QED BY <1>1, <3>2, <3>3
  <2> HIDE DEF a, b
  <2>4. a = b BY <2>1, <2>2, <2>3
  <2> QED BY <2>4 DEF a, b
<1>6. <<s[1]>> \o Tail(s) = s
  <2> DEFINE a == <<s[1]>> \o Tail(s)
  <2>1. s[1] \in STRING BY <1>1
  <2>2. <<s[1]>> \in Seq(STRING) /\ Len(<<s[1]>>) = 1 BY <2>1
  <2>3. a \in Seq(STRING) /\ Len(a) = Len(s) BY <1>1, <1>3, <2>2
  <2>4. \A i \in 1..Len(s) : a[i] = s[i] BY <1>1, <1>3, <1>4, <2>2
  <2> HIDE DEF a
  <2>5. a = s BY <2>3, <2>4
  <2> QED BY <2>5 DEF a
<1>7. Tail(s) = SubSeq(s, 2, Len(s)) BY <1>1
<1>8. Len(s) = 1 => Tail(s) = <<>> /\ s = <<s[1]>> BY <1>1, <1>3
<1> QED BY <1>1, <1>2, <1>3, <1>5, <1>6, <1>7, <1>8

LEMMA HeadStays ==
  \A s, t \in Seq(STRING) : s # <<>> =>
    /\ Len(s) = 1 \/ Len(s) > 1
    /\ (s \o t)[1] = s[1] /\ s \o t # <<>> /\ s \o t \in Seq(STRING)
    /\ Len(s) \in Nat \ {0} /\ Len(t) \in Nat /\ Len(s \o t) = Len(s) + Len(t)
    /\ t # <<>> => Len(t) # 0
<1> SUFFICES ASSUME NEW s \in Seq(STRING), NEW t \in Seq(STRING), s # <<>>
             PROVE  /\ Len(s) = 1 \/ Len(s) > 1
                    /\ (s \o t)[1] = s[1] /\ s \o t # <<>> /\ s \o t \in Seq(STRING)
                    /\ Len(s) \in Nat \ {0} /\ Len(t) \in Nat /\ Len(s \o t) = Len(s) + Len(t)
                    /\ t # <<>> => Len(t) # 0
  OBVIOUS
<1>1. Len(s) \in Nat \ {0} /\ Len(t) \in Nat /\ Len(s \o t) = Len(s) + Len(t) /\ (t # <<>> => Len(t) # 0)
  OBVIOUS
<1>2. Len(s) = 1 \/ Len(s) > 1
  <2>1. \A n \in Nat \ {0} : n = 1 \/ n > 1 OBVIOUS
  <2> QED BY <1>1, <2>1
<1>3. (s \o t)[1] = s[1] /\ s \o t # <<>> BY HeadAndTail
<1>4. s \o t \in Seq(STRING) OBVIOUS
<1> QED BY <1>1, <1>2, <1>3, <1>4

LEMMA PrefixStarts ==
  ASSUME NEW s \in Seq(STRING), NEW t \in Seq(STRING), s # <<>>, IsPrefix(s, t) PROVE s[1] = t[1]
<1>1. Len(s) \in Nat \ {0} /\ Len(t) \in Nat /\ Len(s) <= Len(t) BY HeadStays DEF IsPrefix
<1>2. SubSeq(s, 1, Len(s)) = SubSeq(t, 1, Len(s)) BY DEF IsPrefix
<1>3. SubSeq(s, 1, Len(s))[1] = s[1] /\ SubSeq(t, 1, Len(s))[1] = t[1] BY <1>1
<1> QED BY <1>2, <1>3

LEMMA NothingBefore == \A s \in Seq(STRING) : <<>> \o s = s
  OBVIOUS

Root(m) == AbsPath(m, m.source)

LEMMA Roots ==
  ASSUME NEW m \in Machines
  PROVE  /\ m.source \in Seq(STRING) /\ m.source # <<>> /\ m.cwd \in Seq(STRING) /\ m.cwd # <<>> /\ m.cwd[1] = "/"
         /\ Root(m) \in Seq(STRING) /\ Root(m) # <<>> /\ Root(m)[1] = "/"
         /\ Root(m) = IF IsAbsolute(m.source) THEN m.source ELSE IF m.source = <<".">> THEN m.cwd ELSE m.cwd \o m.source
<1>1. m.source \in Seq(STRING) /\ m.source # <<>> /\ m.cwd \in Seq(STRING) /\ m.cwd # <<>> /\ m.cwd[1] = "/"
  BY MachineAssumption DEF IsPath, IsAbsolute
<1>2. Root(m) = IF IsAbsolute(m.source) THEN m.source ELSE IF m.source = <<".">> THEN m.cwd ELSE m.cwd \o m.source
  BY DEF Root, AbsPath
<1>3. m.cwd \o m.source \in Seq(STRING) /\ m.cwd \o m.source # <<>> /\ (m.cwd \o m.source)[1] = "/"
  BY <1>1, HeadStays
<1> QED BY <1>1, <1>2, <1>3 DEF IsAbsolute

LEMMA Slash ==
  ASSUME NEW m \in Machines PROVE <<"/">> \in Seq(STRING) /\ <<"/">> # <<>> /\ <<"/">>[1] = "/" /\ Len(<<"/">>) = 1
<1>1. "/" \in STRING
  <2>1. m.cwd[1] \in STRING
    <3>1. m.cwd \in Seq(STRING) /\ Len(m.cwd) \in Nat \ {0} BY Roots, HeadStays
    <3> QED BY <3>1
  <2> QED BY <2>1, Roots
<1>2. Len(<<"/">>) = 1 /\ Len(<<>>) = 0 OBVIOUS
<1> QED BY <1>1, <1>2

\* A relative path joined to the source is looked up under its root.
LEMMA LookUp ==
  ASSUME NEW m \in Machines, IsSource(tree), NEW z \in Seq(STRING), z # <<>>, z # <<".">>, z[1] # "/"
  PROVE  Exists(m, tree, Join(m.source, z)) <=> z \in DOMAIN tree
<1>1. ~IsAbsolute(z) BY DEF IsAbsolute
<1>2. AbsPath(m, Join(m.source, z)) = Root(m) \o z
  <2>1. CASE m.source = <<".">>
    <3>1. ~IsAbsolute(m.source) BY <2>1 DEF IsAbsolute
    <3>2. Join(m.source, z) = z BY <2>1 DEF Join
    <3> QED BY <1>1, <2>1, <3>1, <3>2, Roots DEF AbsPath
  <2>2. CASE m.source # <<".">>
    <3>1. Join(m.source, z) = m.source \o z BY <1>1, <2>2 DEF Join
    <3>2. (m.source \o z)[1] = m.source[1] /\ m.source \o z # <<>> BY Roots, HeadStays
    <3>3. CASE IsAbsolute(m.source)
      <4>1. IsAbsolute(m.source \o z) BY <3>2, <3>3 DEF IsAbsolute
      <4> QED BY <3>1, <3>3, <4>1, Roots DEF AbsPath
    <3>4. CASE ~IsAbsolute(m.source)
      <4>1. ~IsAbsolute(m.source \o z) BY <3>2, <3>4, Roots DEF IsAbsolute
      <4>2. m.source \o z # <<".">>
        <5>1. /\ Len(m.source \o z) = Len(m.source) + Len(z)
              /\ Len(m.source) \in Nat \ {0} /\ Len(z) \in Nat \ {0}
          BY Roots, HeadStays
        <5>2. Len(m.source \o z) # 1 /\ Len(<<".">>) = 1 BY <5>1
        <5> QED BY <5>2
      <4>3. (m.cwd \o m.source) \o z = m.cwd \o (m.source \o z) BY Roots, Associative
      <4> QED BY <2>2, <3>1, <3>4, <4>1, <4>2, <4>3, Roots DEF AbsPath
    <3> QED BY <3>3, <3>4
  <2> QED BY <2>1, <2>2
<1>3. \A file \in DOMAIN tree : file \in Seq(STRING) BY DEF IsSource, IsName
<1>4. \A file \in DOMAIN tree : Root(m) \o file = Root(m) \o z <=> file = z BY <1>3, Roots, Cancel
<1>5. FileAt(m, tree, Join(m.source, z)) = {file \in DOMAIN tree : Root(m) \o file = Root(m) \o z}
  BY <1>2 DEF FileAt, Root
<1> QED BY <1>4, <1>5 DEF Exists

\* An absolute path leads to a file of the source if it is under its root.
LEMMA LookUpAbsolute ==
  ASSUME NEW m, NEW p, IsAbsolute(p)
  PROVE  Exists(m, tree, p) <=> \E file \in DOMAIN tree : Root(m) \o file = p
  BY DEF Exists, FileAt, AbsPath, Root

\* A file's own name stays, and its path under the root is cut down to it.
LEMMA NameStays ==
  ASSUME NEW m \in Machines, IsSource(tree), NEW x \in DOMAIN tree, NEW p,
         p = x \/ p = Root(m) \o x \/ (/\ ~IsAbsolute(p) /\ <<"/">> \o p = Root(m) \o x
                                       /\ ~Exists(m, tree, Join(m.source, p)))
  PROVE  relativize_path(m, tree, p) = x
<1>1. x \in Seq(STRING) /\ x # <<>> /\ x # <<".">> /\ x[1] # "/" /\ ~IsAbsolute(x)
  BY DEF IsSource, IsName, IsAbsolute
<1>2. Exists(m, tree, Join(m.source, x)) BY <1>1, LookUp
<1>3. PICK full : full = Root(m) \o x OBVIOUS
<1>4. IsAbsolute(full) BY <1>1, <1>3, Roots, HeadStays DEF IsAbsolute
<1>5. IsPrefix(Root(m), full) /\ SubSeq(full, Len(Root(m)) + 1, Len(full)) = x BY <1>1, <1>3, Roots, Rest
<1>6. Exists(m, tree, full) BY <1>3, <1>4, LookUpAbsolute
<1> DEFINE text == IF ~IsAbsolute(p) /\ ~Exists(m, tree, Join(m.source, p)) /\ Exists(m, tree, <<"/">> \o p)
                   THEN <<"/">> \o p ELSE p
           inside == IF IsAbsolute(text) /\ IsPrefix(Root(m), text) THEN SubSeq(text, Len(Root(m)) + 1, Len(text))
                     ELSE text
<1>7. text = x \/ text = full BY <1>1, <1>2, <1>3, <1>4, <1>6
<1>8. inside = x BY <1>1, <1>4, <1>5, <1>7
<1> HIDE DEF text
<1>9. relativize_path(m, tree, p) =
        IF IsAbsolute(inside) /\ ~Exists(m, tree, inside) /\ Exists(m, tree, Join(m.source, unrooted(inside)))
        THEN unrooted(inside)
        ELSE IF /\ ~Exists(m, tree, Join(m.source, inside))
                /\ Len(unrooted(inside)) > 1 /\ unrooted(inside)[1] = Last(Root(m))
                /\ Exists(m, tree, Join(m.source, Tail(unrooted(inside))))
             THEN Tail(unrooted(inside))
             ELSE inside
  BY DEF relativize_path, text, Root
<1> HIDE DEF inside
<1> QED BY <1>1, <1>2, <1>8, <1>9

\* What is left of a path that no file of the source has, and that leads nowhere else.
LEMMA StrayPath ==
  ASSUME NEW m, NEW p, ~IsAbsolute(p), ~Exists(m, tree, Join(m.source, p)), ~Exists(m, tree, <<"/">> \o p)
  PROVE  relativize_path(m, tree, p) =
           IF Len(p) > 1 /\ p[1] = Last(Root(m)) /\ Exists(m, tree, Join(m.source, Tail(p))) THEN Tail(p) ELSE p
  BY DEF relativize_path, unrooted, Root

\* A path a relative source is at the start of.
LEMMA SpelledUnderSource ==
  ASSUME NEW m \in Machines, IsSource(tree), NEW x \in DOMAIN tree, ~IsAbsolute(m.source), m.source # <<".">>,
         \A i \in 2..Len(Root(m)) : SubSeq(Root(m), i, Len(Root(m))) \o x \notin DOMAIN tree,
         \A y \in DOMAIN tree \ {x} : Root(m) \o y # <<"/">> \o (m.source \o x)
  PROVE  \/ relativize_path(m, tree, m.source \o x) = x
         \/ Nested(m) /\ relativize_path(m, tree, m.source \o x) = m.source \o x
<1>1. x \in Seq(STRING) /\ x # <<>> /\ x # <<".">> /\ x[1] # "/" BY DEF IsSource, IsName
<1>2. PICK s, c : s = m.source /\ c = m.cwd OBVIOUS
<1>3. s \in Seq(STRING) /\ s # <<>> /\ c \in Seq(STRING) /\ c # <<>> /\ Root(m) = c \o s BY <1>2, Roots
<1>4. PICK p : p = s \o x OBVIOUS
<1>5. s[1] # "/" BY <1>2, <1>3 DEF IsAbsolute
<1>6. p \in Seq(STRING) /\ p # <<>> /\ p[1] = s[1] /\ Len(p) = Len(s) + Len(x) /\ Len(s) \in Nat \ {0} /\ Len(x) \in Nat \ {0}
  BY <1>1, <1>3, <1>4, HeadStays
<1>7. ~IsAbsolute(p) BY <1>5, <1>6 DEF IsAbsolute
<1>8. Len(p) > 1 /\ p # <<".">>
  <2>1. Len(p) # 1 /\ Len(p) > 1 /\ Len(<<".">>) = 1 BY <1>6
  <2> QED BY <2>1
<1>9. Len(c) \in Nat \ {0} /\ Len(c \o s) = Len(c) + Len(s) BY <1>3, HeadStays
<1>10. SubSeq(c \o s, Len(c) + 1, Len(c \o s)) = s BY <1>3, Rest
<1>11. p \notin DOMAIN tree
  <2>1. Len(c) + 1 \in 2..Len(Root(m)) BY <1>3, <1>6, <1>9
  <2> QED BY <1>3, <1>4, <1>10, <2>1
<1>12. ~Exists(m, tree, Join(m.source, p)) BY <1>5, <1>6, <1>8, <1>11, LookUp
<1>13. CASE Exists(m, tree, <<"/">> \o p)
  <2>1. IsAbsolute(<<"/">> \o p)
    <3>1. <<"/">> \in Seq(STRING) /\ <<"/">> # <<>> /\ <<"/">>[1] = "/" BY Slash
    <3> QED BY <1>6, <3>1, HeadStays DEF IsAbsolute
  <2>2. PICK y \in DOMAIN tree : Root(m) \o y = <<"/">> \o p BY <1>13, <2>1, LookUpAbsolute
  <2>3. y = x BY <1>2, <1>4, <2>2
  <2> QED BY <1>2, <1>4, <1>7, <1>12, <2>2, <2>3, NameStays
<1>14. CASE ~Exists(m, tree, <<"/">> \o p)
  <2>1. relativize_path(m, tree, p) =
          IF Len(p) > 1 /\ p[1] = Last(Root(m)) /\ Exists(m, tree, Join(m.source, Tail(p))) THEN Tail(p) ELSE p
    BY <1>7, <1>12, <1>14, StrayPath
  <2>2. Tail(p) = Tail(s) \o x /\ Tail(s) \in Seq(STRING) /\ Tail(s) = SubSeq(s, 2, Len(s))
    BY <1>1, <1>3, <1>4, HeadAndTail
  <2>3. CASE Len(s) = 1
    <3>1. Tail(s) = <<>> BY <1>1, <1>3, <2>3, HeadAndTail
    <3>2. Tail(p) = x BY <1>1, <2>2, <3>1, NothingBefore
    <3>3. Exists(m, tree, Join(m.source, x)) BY <1>1, LookUp
    <3>4. Last(Root(m)) = s[1]
      <4>1. (c \o s)[Len(c) + 1] = s[1] BY <1>3, <2>3, <1>9
      <4> QED BY <1>3, <1>9, <2>3, <4>1 DEF Last
    <3> QED BY <1>2, <1>4, <1>6, <1>8, <2>1, <3>2, <3>3, <3>4
  <2>4. CASE Len(s) > 1
    <3>1. Tail(p) \notin DOMAIN tree
      <4>1. SubSeq(c \o s, Len(c) + 2, Len(c \o s)) = Tail(s)
        <5> DEFINE t == SubSeq(c \o s, Len(c) + 2, Len(c \o s))
        <5>1. c \o s \in Seq(STRING) BY <1>3
        <5>2. t \in Seq(STRING) /\ Len(t) = Len(s) - 1 BY <1>6, <1>9, <2>4, <5>1
        <5>3. Tail(s) \in Seq(STRING) /\ Len(Tail(s)) = Len(s) - 1 BY <1>3, <1>6
        <5>4. \A i \in 1..(Len(s) - 1) : t[i] = s[i + 1] BY <1>3, <1>6, <1>9, <5>1
        <5>5. \A i \in 1..(Len(s) - 1) : Tail(s)[i] = s[i + 1] BY <1>3, <1>6
        <5> HIDE DEF t
        <5>6. t = Tail(s) BY <5>2, <5>3, <5>4, <5>5
        <5> QED BY <5>6 DEF t
      <4>2. Len(c) + 2 \in 2..Len(Root(m)) BY <1>3, <1>9, <1>6, <2>4
      <4> QED BY <1>3, <2>2, <4>1, <4>2
    <3>2. PICK t : t = Tail(p) OBVIOUS
    <3>3. t \in Seq(STRING) /\ Len(t) = Len(p) - 1 /\ t[1] = p[2] BY <1>6, <1>8, <3>2
    <3>4. t # <<>> /\ t # <<".">>
      <4>1. Len(t) # 1 /\ Len(t) # 0 /\ Len(<<".">>) = 1 /\ Len(<<>>) = 0 BY <1>6, <2>4, <3>3
      <4> QED BY <4>1
    <3>5. t[1] # "/"
      <4>1. p[2] = s[2] BY <1>1, <1>3, <1>4, <1>6, <2>4
      <4>2. s[2] # "/" BY <1>2, <1>6, <2>4, MachineAssumption DEF IsPath
      <4> QED BY <3>3, <4>1, <4>2
    <3>6. ~Exists(m, tree, Join(m.source, Tail(p))) BY <3>1, <3>2, <3>3, <3>4, <3>5, LookUp
    <3>7. Nested(m) BY <1>2, <2>4 DEF Nested
    <3> QED BY <1>2, <1>4, <2>1, <3>6, <3>7
  <2>5. Len(s) = 1 \/ Len(s) > 1 BY <1>3, HeadStays
  <2> QED BY <2>3, <2>4, <2>5
<1> QED BY <1>13, <1>14

\* However a tool spells a file of the source, its name comes out unless the spelling has
\* another reading.
LEMMA RelativePath ==
  ASSUME NEW m \in Machines, IsSource(tree), NEW x \in DOMAIN tree,
         \A i \in 2..Len(Root(m)) : SubSeq(Root(m), i, Len(Root(m))) \o x \notin DOMAIN tree,
         \A y \in DOMAIN tree \ {x} : Root(m) \o y # <<"/">> \o Spelled(m, x),
         NEW p, \/ p = x \/ p = Spelled(m, x) \/ p = unrooted(Spelled(m, x))
                \/ p = <<"/">> \o x /\ ~(Len(Root(m)) > 1 /\ IsPrefix(Root(m), p))
  PROVE  relativize_path(m, tree, p) = x \/ (Nested(m) /\ relativize_path(m, tree, p) = m.source \o x)
<1>1. x \in Seq(STRING) /\ x # <<>> /\ x # <<".">> /\ x[1] # "/" /\ ~IsAbsolute(x)
  BY DEF IsSource, IsName, IsAbsolute
<1>2. CASE p = x BY <1>2, NameStays
<1> DEFINE spelled == p = x \/ p = Spelled(m, x) \/ p = unrooted(Spelled(m, x))
<1>3. CASE m.source = <<".">> /\ spelled
  <2>1. Spelled(m, x) = x BY <1>3 DEF Spelled, Join
  <2>2. unrooted(x) = x BY <1>1 DEF unrooted
  <2> QED BY <1>2, <1>3, <2>1, <2>2
<1>4. CASE IsAbsolute(m.source) /\ spelled
  <2>1. m.source # <<".">> BY <1>4 DEF IsAbsolute
  <2>2. Spelled(m, x) = m.source \o x /\ Root(m) = m.source BY <1>1, <1>4, <2>1, Roots DEF Spelled, Join
  <2>3. /\ m.source \o x \in Seq(STRING) /\ m.source \o x # <<>> /\ (m.source \o x)[1] = "/"
        /\ Len(m.source) \in Nat \ {0} /\ Len(x) \in Nat \ {0}
    BY <1>1, <1>4, <2>2, Roots, HeadStays DEF IsAbsolute
  <2>4. CASE p = Spelled(m, x)
    <3>1. p = Root(m) \o x BY <2>2, <2>4
    <3> QED BY <3>1, NameStays
  <2>5. CASE p = unrooted(Spelled(m, x))
    <3>1. p = Tail(m.source \o x) BY <2>2, <2>3, <2>5 DEF unrooted, IsAbsolute
    <3>2. p = Tail(m.source) \o x /\ Tail(m.source) \in Seq(STRING) /\ Tail(m.source) = SubSeq(m.source, 2, Len(m.source))
      BY <1>1, <3>1, Roots, HeadAndTail
    <3>3. CASE Len(m.source) = 1
      <4>1. Tail(m.source) = <<>> BY <1>1, <3>3, Roots, HeadAndTail
      <4>2. p = x BY <1>1, <3>2, <4>1, NothingBefore
      <4> QED BY <1>2, <4>2
    <3>4. CASE Len(m.source) > 1
      <4>1. p \notin DOMAIN tree
        <5>1. 2 \in 2..Len(Root(m)) BY <2>2, <2>3, <3>4
        <5> QED BY <2>2, <3>2, <5>1
      <4>2. <<"/">> \o p = m.source \o x
        <5>1. <<>> \in Seq(STRING) OBVIOUS
        <5> QED BY <2>3, <3>1, <5>1, HeadAndTail
      <4>3. Len(Tail(m.source)) = Len(m.source) - 1 /\ Tail(m.source)[1] = m.source[2] BY <2>3, <3>4, Roots
      <4>4. Tail(m.source) # <<>>
        <5>1. Len(Tail(m.source)) # 0 /\ Len(<<>>) = 0 BY <2>3, <3>4, <4>3
        <5> QED BY <5>1
      <4>5. m.source[2] # "/" BY <2>3, <3>4, MachineAssumption DEF IsPath
      <4>6. p \in Seq(STRING) /\ p # <<>> /\ p[1] # "/" /\ Len(p) = Len(m.source) - 1 + Len(x)
        BY <1>1, <3>2, <4>3, <4>4, <4>5, HeadStays
      <4>7. p # <<".">>
        <5>1. Len(p) # 1 /\ Len(<<".">>) = 1 BY <2>3, <3>4, <4>6
        <5> QED BY <5>1
      <4>8. ~Exists(m, tree, Join(m.source, p)) BY <4>1, <4>6, <4>7, LookUp
      <4>9. ~IsAbsolute(p) BY <4>6 DEF IsAbsolute
      <4> QED BY <2>2, <4>2, <4>8, <4>9, NameStays
    <3> QED BY <2>3, <3>3, <3>4
  <2> QED BY <1>2, <1>4, <2>4, <2>5
<1>5. CASE ~IsAbsolute(m.source) /\ m.source # <<".">> /\ spelled
  <2>1. Spelled(m, x) = m.source \o x BY <1>1, <1>5 DEF Spelled, Join
  <2>2. (m.source \o x)[1] = m.source[1] BY <1>1, Roots, HeadStays
  <2>3. unrooted(m.source \o x) = m.source \o x BY <1>5, <2>2, Roots DEF unrooted, IsAbsolute
  <2>4. p = x \/ p = m.source \o x BY <1>5, <2>1, <2>3
  <2>5. CASE p = m.source \o x BY <1>5, <2>1, <2>5, SpelledUnderSource
  <2> QED BY <1>2, <2>4, <2>5
<1>6. CASE p = <<"/">> \o x /\ ~(Len(Root(m)) > 1 /\ IsPrefix(Root(m), p))
  <2>1. <<"/">> \in Seq(STRING) /\ <<"/">> # <<>> /\ <<"/">>[1] = "/" BY Slash
  <2>2. p[1] = "/" /\ p # <<>> /\ p \in Seq(STRING) /\ IsAbsolute(p) BY <1>1, <1>6, <2>1, HeadStays DEF IsAbsolute
  <2>3. CASE Len(Root(m)) = 1
    <3>1. Root(m) = <<Root(m)[1]>> BY <1>1, <2>3, Roots, HeadAndTail
    <3>2. p = Root(m) \o x BY <1>6, <3>1, Roots
    <3> QED BY <3>2, NameStays
  <2>4. CASE Len(Root(m)) > 1
    <3>1. ~IsPrefix(Root(m), p) BY <1>6, <2>4
    <3>2. ~Exists(m, tree, p)
      <4>1. \A y \in DOMAIN tree : y \in Seq(STRING) BY DEF IsSource, IsName
      <4>2. \A y \in DOMAIN tree : IsPrefix(Root(m), Root(m) \o y) BY <4>1, Roots, Rest
      <4> QED BY <2>2, <3>1, <4>2, LookUpAbsolute
    <3>3. unrooted(p) = x
      <4>1. unrooted(p) = Tail(p) BY <2>2 DEF unrooted
      <4>2. SubSeq(<<"/">> \o x, 2, Len(<<"/">> \o x)) = x
        <5>1. Len(<<"/">>) + 1 = 2 BY Slash
        <5> QED BY <1>1, <2>1, <5>1, Rest
      <4>3. Tail(p) = SubSeq(p, 2, Len(p)) BY <2>2, <1>1, HeadAndTail
      <4> QED BY <1>6, <4>1, <4>2, <4>3
    <3>4. Exists(m, tree, Join(m.source, x)) BY <1>1, LookUp
    <3>5. relativize_path(m, tree, p) = unrooted(p)
      BY <2>2, <3>1, <3>2, <3>3, <3>4 DEF relativize_path, Root
    <3> QED BY <3>3, <3>5
  <2>5. Len(Root(m)) = 1 \/ Len(Root(m)) > 1 BY Roots, HeadStays
  <2> QED BY <2>3, <2>4, <2>5
<1> QED BY <1>2, <1>3, <1>4, <1>5, <1>6

-------------------------------------------------------------------------------
(* Fingerprints *)

\* The fingerprints a waiver is recommended for, of each tool.
SecretPrint(m, candidate) ==
  <<"trufflehog", 1, "SECRET", <<"detector">>, KeyOf(m), normalize_secret(candidate), ProjectOf(m)>>
RulePrint(m, version, id, match) == <<"opengrep", version, "RULE", id, KeyOf(m), match, ProjectOf(m)>>
PackagePrint(m, name) == <<"grype", 1, "PKG", <<"CVE">>, KeyOf(m), name, ProjectOf(m)>>
CheckedPath(m, file) == path_norm_sha(checkov_rel_path(m, unrooted(Spelled(m, file))))
CheckPrint(m, path) == <<"checkov", 1, "RULE", <<"CKV">>, KeyOf(m), path, ProjectOf(m)>>

\* All fingerprints of a version of a piece of code, by whether its file could be read.
Located(m, version, id, match, path, text, line) ==
  {RulePrint(m, version, id, match),
   <<"opengrep", version, "EXACT", id, text, ByteOffset(m, text, line), ByteEnd(m, text, line), ProjectOf(m)>>,
   <<"opengrep", version, "CTX", id, path, context_hash(text, line), ProjectOf(m)>>}
Unlocated(m, version, id, match, path) ==
  {RulePrint(m, version, id, match), <<"opengrep", version, "EXACT", id, "<unlocatable>">>,
   <<"opengrep", version, "CTX", id, path, "<unlocatable>">>}

\* What a finding has to do with its fingerprints, by the tool that reported it.
SecretFinding(m, f) ==
  /\ f.tool = "trufflehog" /\ f.of.rule = {} /\ f.match \in Candidates /\ f.legacy = {}
  /\ f.match # NoText => SecretPrint(m, f.match) \in f.fingerprints
  /\ \A fp \in f.fingerprints :
       /\ f.match # NoText /\ fp[1] = "trufflehog" /\ fp[2] = 1
       /\ \/ fp = SecretPrint(m, f.match)
          \/ fp[3] = "EXACT" /\ fp[5] \in f.read
          \/ fp[3] \in {"CTX", "CTXSOFT"}
CodePrints(m, q, f) ==
  \E path :
    \/ /\ f.read = {}
       /\ f.fingerprints = Unlocated(m, 2, RuleId(m, q), f.match, path)
       /\ f.legacy = Unlocated(m, 1, CheckId(m.mount, q), f.match, path)
    \/ \E text \in f.read :
         /\ f.fingerprints = Located(m, 2, RuleId(m, q), f.match, path, text, f.line)
         /\ f.legacy = Located(m, 1, CheckId(m.mount, q), f.match, path, text, f.line)
CodeFinding(m, q, f) ==
  /\ f.tool = "opengrep" /\ f.of.rule = {q} /\ f.match \in Code /\ f.rule_id = RuleId(m, q)
  /\ f.of.text \in Seq(Tokens) /\ f.line \in DOMAIN f.of.text
  /\ CodePrints(m, q, f)
PackageFinding(m, f) ==
  /\ f.tool = "grype" /\ f.of.rule = {} /\ f.match \in Packages /\ f.legacy = {} /\ f.read = {}
  /\ PackagePrint(m, f.match) \in f.fingerprints
  /\ \A fp \in f.fingerprints :
       fp[1] = "grype" /\ fp[2] = 1 /\ (fp = PackagePrint(m, f.match) \/ fp[3] \in {"EXACT", "CTX"})
CheckFinding(m, f) ==
  /\ f.tool = "checkov" /\ f.of.rule = {} /\ f.match = "bad" /\ f.legacy = {} /\ f.read = {}
  /\ IsName(f.of.file)
  /\ CheckPrint(m, CheckedPath(m, f.of.file)) \in f.fingerprints
  /\ \A fp \in f.fingerprints :
       fp[1] = "checkov" /\ fp[2] = 1 /\ (fp = CheckPrint(m, CheckedPath(m, f.of.file)) \/ fp[3] \in {"EXACT", "CTX"})
FindingOK(m, f) ==
  SecretFinding(m, f) \/ (\E q \in m.rules : CodeFinding(m, q, f)) \/ PackageFinding(m, f) \/ CheckFinding(m, f)

LEMMA SecretPrints ==
  ASSUME NEW m, NEW r, SecretRaw(m, r), NEW fps, NEW read,
         fps = trufflehog_fingerprints(m, tree, commits, ProjectOf(m), KeyOf(m), r),
         read = read_file_bytes_generic(m, tree, commits, r)
  PROVE  /\ r.match # NoText => SecretPrint(m, r.match) \in fps
         /\ \A fp \in fps :
              /\ r.match # NoText /\ fp[1] = "trufflehog" /\ fp[2] = 1
              /\ \/ fp = SecretPrint(m, r.match)
                 \/ fp[3] = "EXACT" /\ fp[5] \in read
                 \/ fp[3] \in {"CTX", "CTXSOFT"}
<1>1. PICK project, key : project = ProjectOf(m) /\ key = KeyOf(m) OBVIOUS
<1>2. PICK text : text = CHOOSE t \in read : TRUE OBVIOUS
<1>3. read # {} => text \in read BY <1>2
<1>4. PICK span : span = find_span_in_file(text, r.match) OBVIOUS
<1>5. PICK line : line = CHOOSE i \in span : TRUE OBVIOUS
<1>6. PICK path : path = path_norm_sha(trufflehog_path_used(m, r)) OBVIOUS
<1>7. PICK from, to, context :
        from = ByteOffset(m, text, line) /\ to = ByteEnd(m, text, line) /\ context = context_hash(text, line)
  OBVIOUS
<1>8. PICK secret : secret = <<"trufflehog", 1, "SECRET", r.check_id, key, normalize_secret(r.match), project>>
  OBVIOUS
<1>9. secret = SecretPrint(m, r.match) /\ secret[1] = "trufflehog" /\ secret[2] = 1
  BY <1>1, <1>8 DEF SecretPrint, SecretRaw
<1>10. fps = IF r.match = NoText THEN {}
             ELSE IF read = {} THEN {secret}
             ELSE IF span = {}
                  THEN {secret, <<"trufflehog", 1, "CTXSOFT", r.check_id, path, text, r.line>>}
             ELSE {secret, <<"trufflehog", 1, "EXACT", r.check_id, text, from, to, project>>,
                   <<"trufflehog", 1, "CTX", r.check_id, path, context, project>>}
  BY <1>1, <1>2, <1>4, <1>5, <1>6, <1>7, <1>8 DEF trufflehog_fingerprints, file_sha
<1> QED BY <1>3, <1>9, <1>10

LEMMA CodeTiers ==
  ASSUME NEW m, NEW r, NEW version, NEW id, id = rule_id_for_version(r, version), NEW read, NEW fps,
         fps = opengrep_fingerprints(m, tree, ProjectOf(m), KeyOf(m), r, version),
         read = FileAt(m, tree, Join(m.source, r.path))
  PROVE  fps = IF read = {} THEN Unlocated(m, version, id, r.match, path_norm_sha(r.path))
               ELSE Located(m, version, id, r.match, path_norm_sha(r.path), tree[CHOOSE f \in read : TRUE], r.line)
  BY DEF opengrep_fingerprints, Unlocated, Located, RulePrint, file_sha
\* Checkov's path without the source, before it is hashed: the file's name when the source
\* is relative, else the absolute path without its slash.
LEMMA CheckPath ==
  ASSUME NEW m \in Machines, NEW file, IsName(file)
  PROVE  checkov_rel_path(m, unrooted(Spelled(m, file))) =
           IF IsAbsolute(m.source) THEN Tail(m.source) \o file ELSE file
<1>1. m.source \in Seq(STRING) /\ m.source # <<>> BY MachineAssumption DEF IsPath
<1>2. file \in Seq(STRING) /\ file # <<>> /\ file[1] # "/" BY DEF IsName
<1>3. ~IsAbsolute(file) /\ unrooted(file) = file BY <1>2 DEF IsAbsolute, unrooted
<1>4. CASE m.source = <<".">>
  <2>1. Spelled(m, file) = file BY <1>4 DEF Spelled, Join
  <2>2. checkov_rel_path(m, file) = file BY <1>4 DEF checkov_rel_path
  <2>3. ~IsAbsolute(m.source) BY <1>4 DEF IsAbsolute
  <2> QED BY <1>3, <2>1, <2>2, <2>3
<1>5. CASE m.source # <<".">>
  <2> DEFINE spelled == m.source \o file
  <2>1. Spelled(m, file) = spelled BY <1>3, <1>5 DEF Spelled, Join
  <2>2. Len(m.source) \in Nat /\ Len(m.source) > 0 /\ Len(file) \in Nat BY <1>1, <1>2
  <2>3. /\ spelled \in Seq(STRING) /\ Len(spelled) = Len(m.source) + Len(file)
        /\ spelled[1] = m.source[1] /\ spelled # <<>>
    BY <1>1, <1>2, <2>2
  <2>4. CASE ~IsAbsolute(m.source)
    <3>1. unrooted(spelled) = spelled BY <1>1, <2>3, <2>4 DEF unrooted, IsAbsolute
    <3>2. IsPrefix(m.source, spelled) /\ SubSeq(spelled, Len(m.source) + 1, Len(spelled)) = file
      BY <1>1, <1>2, Rest
    <3>3. checkov_rel_path(m, spelled) = file BY <1>5, <3>2 DEF checkov_rel_path
    <3> QED BY <1>3, <2>1, <2>4, <3>1, <3>3
  <2>5. CASE IsAbsolute(m.source)
    <3>1. unrooted(spelled) = Tail(spelled) BY <2>3, <2>5 DEF unrooted, IsAbsolute
    <3>2. Tail(spelled) = Tail(m.source) \o file /\ Tail(m.source) \in Seq(STRING) /\ Tail(spelled) \in Seq(STRING)
      <4>1. Tail(spelled) = Tail(m.source) \o file /\ Tail(m.source) \in Seq(STRING) BY <1>1, <1>2, HeadAndTail
      <4>2. Tail(m.source) \o file \in Seq(STRING) BY <1>2, <4>1
      <4> HIDE DEF spelled
      <4> QED BY <4>1, <4>2
    <3>3. ~IsPrefix(m.source, Tail(spelled))
      <4>1. m.source[1] = "/" BY <2>5 DEF IsAbsolute
      <4>2. Len(spelled) > 1 BY <1>2, <2>2, <2>3
      <4>3. Tail(spelled)[1] = spelled[2] BY <2>3, <4>2
      <4>4. spelled[2] # "/"
        <5>1. CASE Len(m.source) = 1
          <6>1. spelled[2] = file[1] BY <1>1, <1>2, <2>2, <5>1
          <6> QED BY <1>2, <6>1
        <5>2. CASE Len(m.source) > 1
          <6>1. 2 \in 2..Len(m.source) /\ spelled[2] = m.source[2] BY <1>1, <1>2, <2>2, <5>2
          <6> QED BY <6>1, MachineAssumption DEF IsPath
        <5> QED BY <1>1, <1>2, <5>1, <5>2, HeadStays
      <4> HIDE DEF spelled
      <4> QED BY <1>1, <2>2, <3>2, <4>1, <4>3, <4>4, PrefixStarts
    <3>4. checkov_rel_path(m, Tail(spelled)) = Tail(spelled) BY <3>3 DEF checkov_rel_path
    <3> QED BY <2>1, <2>5, <3>1, <3>2, <3>4
  <2> QED BY <2>4, <2>5
<1> QED BY <1>4, <1>5

\* What attach_common and the waivers make of a raw finding.
LEMMA AttachedFields ==
  ASSUME NEW m, NEW r, NEW f, f = apply_waivers_to_model(attach_common(m, r))
  PROVE  /\ f.tool = r.tool /\ f.rule_id = r.check_id /\ f.line = r.line /\ f.match = r.match /\ f.of = r.of
         /\ f.fingerprints = fingerprints(m, r) /\ f.legacy = legacy_fingerprints(m, r) /\ f.read = read_text(m, r)
<1> DEFINE g == attach_common(m, r)
<1>1. /\ g.tool = r.tool /\ g.rule_id = r.check_id /\ g.line = r.line /\ g.match = r.match /\ g.of = r.of
      /\ g.fingerprints = fingerprints(m, r) /\ g.legacy = legacy_fingerprints(m, r) /\ g.read = read_text(m, r)
  BY DEF attach_common
<1>2. PICK waived : waived = W!Waived(WaiverSet, g, 0, 0) OBVIOUS
<1>3. f = [g EXCEPT !.waived = waived] BY <1>2 DEF apply_waivers_to_model
<1> HIDE DEF g
<1> QED BY <1>1, <1>3

\* A finding is waived by any of its fingerprints.
LEMMA AttachedWaived ==
  ASSUME NEW m, NEW r, NEW f, IsFiniteSet(waivers), f = apply_waivers_to_model(attach_common(m, r))
  PROVE  f.waived = \E w \in waivers : w.fingerprint \in f.fingerprints \cup f.legacy
<1> DEFINE g == attach_common(m, r)
<1>1. f.fingerprints = g.fingerprints /\ f.legacy = g.legacy
  BY AttachedFields DEF attach_common
<1>2. W!Waived(WaiverSet, g, 0, 0) = \E w \in waivers : w.fingerprint \in g.fingerprints \cup g.legacy
  BY WaivedByFingerprint
<1>3. f = [g EXCEPT !.waived = W!Waived(WaiverSet, g, 0, 0)] BY DEF apply_waivers_to_model
<1>4. "waived" \in DOMAIN g BY DEF attach_common
<1> HIDE DEF g
<1>5. f.waived = W!Waived(WaiverSet, g, 0, 0) BY <1>3, <1>4
<1> QED BY <1>1, <1>2, <1>5

LEMMA AttachedSecret ==
  ASSUME NEW m, NEW r, SecretRaw(m, r), NEW f, f = apply_waivers_to_model(attach_common(m, r))
  PROVE  SecretFinding(m, f)
<1>1. r.tool = "trufflehog" BY DEF SecretRaw
<1>2. fingerprints(m, r) = trufflehog_fingerprints(m, tree, commits, ProjectOf(m), KeyOf(m), r)
  BY <1>1 DEF fingerprints
<1>3. legacy_fingerprints(m, r) = {} BY <1>1 DEF legacy_fingerprints, EMIT_LEGACY_VERSIONS
<1>4. read_text(m, r) = read_file_bytes_generic(m, tree, commits, r) BY <1>1 DEF read_text
<1> QED BY <1>1, <1>2, <1>3, <1>4, AttachedFields, SecretPrints DEF SecretFinding, SecretRaw

LEMMA AttachedCode ==
  ASSUME NEW m, NEW r, NEW q, CodeRaw(m, r, q), NEW f,
         f = apply_waivers_to_model(attach_common(m, r))
  PROVE  CodeFinding(m, q, f)
<1>1. r.tool = "opengrep" BY DEF CodeRaw
<1>2. fingerprints(m, r) = opengrep_fingerprints(m, tree, ProjectOf(m), KeyOf(m), r, 2)
  BY <1>1 DEF fingerprints
<1>3. legacy_fingerprints(m, r) = opengrep_fingerprints(m, tree, ProjectOf(m), KeyOf(m), r, 1)
  BY <1>1 DEF legacy_fingerprints, EMIT_LEGACY_VERSIONS
<1> DEFINE files == FileAt(m, tree, Join(m.source, r.path))
           text == tree[CHOOSE file \in files : TRUE]
           path == path_norm_sha(r.path)
<1>4. f.read = {tree[file] : file \in files}
  <2>1. read_text(m, r) = {tree[file] : file \in files} BY <1>1 DEF read_text
  <2> QED BY <2>1, AttachedFields
<1>5. files = {} => f.read = {} BY <1>4
<1>6. files # {} => text \in f.read BY <1>4
<1>7. f.line = r.line /\ f.match = r.match /\ f.fingerprints = fingerprints(m, r) /\ f.legacy = legacy_fingerprints(m, r)
  BY AttachedFields
<1>8. /\ rule_id_for_version(r, 2) = RuleId(m, q) /\ rule_id_for_version(r, 1) = CheckId(m.mount, q)
  BY DEF CodeRaw
<1>9. /\ f.fingerprints = IF files = {} THEN Unlocated(m, 2, RuleId(m, q), f.match, path)
                          ELSE Located(m, 2, RuleId(m, q), f.match, path, text, f.line)
      /\ f.legacy = IF files = {} THEN Unlocated(m, 1, CheckId(m.mount, q), f.match, path)
                    ELSE Located(m, 1, CheckId(m.mount, q), f.match, path, text, f.line)
  <2>1. f.match = r.match /\ f.line = r.line BY <1>7
  <2>2. f.fingerprints = opengrep_fingerprints(m, tree, ProjectOf(m), KeyOf(m), r, 2) BY <1>2, <1>7
  <2>3. f.legacy = opengrep_fingerprints(m, tree, ProjectOf(m), KeyOf(m), r, 1) BY <1>3, <1>7
  <2>4. f.fingerprints = IF files = {} THEN Unlocated(m, 2, RuleId(m, q), r.match, path)
                         ELSE Located(m, 2, RuleId(m, q), r.match, path, text, r.line)
    <3>1. PICK id, read, fps : id = rule_id_for_version(r, 2) /\ read = files /\ fps = f.fingerprints OBVIOUS
    <3>2. fps = IF read = {} THEN Unlocated(m, 2, id, r.match, path_norm_sha(r.path))
                ELSE Located(m, 2, id, r.match, path_norm_sha(r.path), tree[CHOOSE file \in read : TRUE], r.line)
      BY <2>2, <3>1, CodeTiers
    <3> QED BY <1>8, <3>1, <3>2
  <2>5. f.legacy = IF files = {} THEN Unlocated(m, 1, CheckId(m.mount, q), r.match, path)
                   ELSE Located(m, 1, CheckId(m.mount, q), r.match, path, text, r.line)
    <3>1. PICK id, read, fps : id = rule_id_for_version(r, 1) /\ read = files /\ fps = f.legacy OBVIOUS
    <3>2. fps = IF read = {} THEN Unlocated(m, 1, id, r.match, path_norm_sha(r.path))
                ELSE Located(m, 1, id, r.match, path_norm_sha(r.path), tree[CHOOSE file \in read : TRUE], r.line)
      BY <2>3, <3>1, CodeTiers
    <3> QED BY <1>8, <3>1, <3>2
  <2> HIDE DEF files, text, path
  <2> QED BY <2>1, <2>4, <2>5
<1> HIDE DEF files, text, path
<1>10. CodePrints(m, q, f) BY <1>5, <1>6, <1>9 DEF CodePrints
<1> QED BY <1>10, AttachedFields DEF CodeFinding, CodeRaw

LEMMA AttachedPackage ==
  ASSUME NEW m, NEW r, PackageRaw(r), NEW f, f = apply_waivers_to_model(attach_common(m, r))
  PROVE  PackageFinding(m, f)
<1>1. r.tool = "grype" BY DEF PackageRaw
<1>2. fingerprints(m, r) = grype_fingerprints(m, ProjectOf(m), KeyOf(m), r) BY <1>1 DEF fingerprints
<1>3. legacy_fingerprints(m, r) = {} BY <1>1 DEF legacy_fingerprints, EMIT_LEGACY_VERSIONS
<1>4. read_text(m, r) = {} BY <1>1 DEF read_text
<1>5. PackagePrint(m, r.match) \in fingerprints(m, r) BY <1>2 DEF grype_fingerprints, PackagePrint, PackageRaw
<1>6. \A fp \in fingerprints(m, r) :
        fp[1] = "grype" /\ fp[2] = 1 /\ (fp = PackagePrint(m, r.match) \/ fp[3] \in {"EXACT", "CTX"})
  BY <1>2 DEF grype_fingerprints, PackagePrint, PackageRaw
<1> QED BY <1>1, <1>3, <1>4, <1>5, <1>6, AttachedFields DEF PackageFinding, PackageRaw

LEMMA AttachedCheck ==
  ASSUME NEW m \in Machines, NEW r, CheckRaw(m, r), NEW f,
         f = apply_waivers_to_model(attach_common(m, r))
  PROVE  CheckFinding(m, f)
<1>1. r.tool = "checkov" BY DEF CheckRaw
<1>2. fingerprints(m, r) = checkov_fingerprints(m, ProjectOf(m), KeyOf(m), r) BY <1>1 DEF fingerprints
<1>3. legacy_fingerprints(m, r) = {} BY <1>1 DEF legacy_fingerprints, EMIT_LEGACY_VERSIONS
<1>4. read_text(m, r) = {} BY <1>1 DEF read_text
<1>5. PICK path : path = path_norm_sha(checkov_rel_path(m, r.path)) OBVIOUS
<1>6. path = CheckedPath(m, r.of.file) BY <1>5 DEF CheckRaw, CheckedPath
<1>7. CheckPrint(m, path) \in fingerprints(m, r) BY <1>2, <1>5 DEF checkov_fingerprints, CheckPrint, CheckRaw
<1>8. \A fp \in fingerprints(m, r) :
        fp[1] = "checkov" /\ fp[2] = 1 /\ (fp = CheckPrint(m, path) \/ fp[3] \in {"EXACT", "CTX"})
  BY <1>2, <1>5 DEF checkov_fingerprints, CheckPrint, CheckRaw
<1> QED BY <1>1, <1>3, <1>4, <1>6, <1>7, <1>8, AttachedFields DEF CheckFinding, CheckRaw

LEMMA AttachedOK ==
  ASSUME NEW m \in Machines, NEW r, RawOK(m, r), NEW f, IsFiniteSet(waivers),
         f = apply_waivers_to_model(attach_common(m, r))
  PROVE  FindingOK(m, f) /\ f.waived = \E w \in waivers : w.fingerprint \in f.fingerprints \cup f.legacy
<1>1. FindingOK(m, f)
  <2>1. CASE SecretRaw(m, r) BY <2>1, AttachedSecret DEF FindingOK
  <2>2. CASE \E q \in m.rules : CodeRaw(m, r, q) BY <2>2, AttachedCode DEF FindingOK
  <2>3. CASE PackageRaw(r) BY <2>3, AttachedPackage DEF FindingOK
  <2>4. CASE CheckRaw(m, r) BY <2>4, AttachedCheck DEF FindingOK
  <2> QED BY <2>1, <2>2, <2>3, <2>4 DEF RawOK
<1> QED BY <1>1, AttachedWaived

\* The path of a finding is its file's name, however its tool spells it.
LEMMA AttachedPaths ==
  ASSUME NEW m \in Machines, IsSource(tree), NEW r, RawOK(m, r), NEW f, f = apply_waivers_to_model(attach_common(m, r)),
         f.of.file \in DOMAIN tree, ~Misread(m, f, DOMAIN tree)
  PROVE  f.paths = {f.of.file} \/ (Nested(m) /\ f.paths = {m.source \o f.of.file})
<1>1. PICK x : x = f.of.file OBVIOUS
<1>2. f.tool = r.tool /\ r.of.file = x BY <1>1, AttachedFields
<1>3. f.paths = {relativize_path(m, tree, r.path)}
  <2> DEFINE g == attach_common(m, r)
  <2>1. g.paths = {relativize_path(m, tree, r.path)} BY DEF attach_common
  <2>2. PICK waived : waived = W!Waived(WaiverSet, g, 0, 0) OBVIOUS
  <2>3. f = [g EXCEPT !.waived = waived] BY <2>2 DEF apply_waivers_to_model
  <2> HIDE DEF g
  <2> QED BY <2>1, <2>3
<1>4. /\ \A i \in 2..Len(Root(m)) : SubSeq(Root(m), i, Len(Root(m))) \o x \notin DOMAIN tree
      /\ \A y \in DOMAIN tree \ {x} : Root(m) \o y # <<"/">> \o Spelled(m, x)
      /\ ~(f.tool = "grype" /\ Len(Root(m)) > 1 /\ IsPrefix(Root(m), <<"/">> \o x))
  BY <1>1 DEF Misread, Root
<1>5. \/ r.path = x \/ r.path = Spelled(m, x) \/ r.path = unrooted(Spelled(m, x))
      \/ r.path = <<"/">> \o x /\ r.tool = "grype"
  BY <1>2 DEF RawOK, SecretRaw, CodeRaw, PackageRaw, CheckRaw
<1>6. \/ r.path = x \/ r.path = Spelled(m, x) \/ r.path = unrooted(Spelled(m, x))
      \/ r.path = <<"/">> \o x /\ ~(Len(Root(m)) > 1 /\ IsPrefix(Root(m), r.path))
  BY <1>2, <1>4, <1>5
<1>7. PICK p : p = r.path OBVIOUS
<1>8. relativize_path(m, tree, p) = x \/ (Nested(m) /\ relativize_path(m, tree, p) = m.source \o x)
  BY <1>1, <1>4, <1>6, <1>7, RelativePath
<1> QED BY <1>1, <1>3, <1>7, <1>8

-------------------------------------------------------------------------------
(* The inductive invariant *)

Sources == {files \in UNION {[N -> Seq(Tokens)] : N \in SUBSET Seq(STRING)} : IsFiniteSet(DOMAIN files)}
SourceInv ==
  /\ machine \in Machines /\ IsSource(tree)
  /\ commits \in Seq(Sources) /\ \A c \in DOMAIN commits : IsSource(commits[c])

\* What the scanners have reported is of the machine of the run.
RawInv == IsFiniteSet(raw) /\ (~scanned => raw = {}) /\ \A r \in raw : RawOK(machine, r)

\* An entry of the waiver file has a fingerprint of a finding of the machine it was written on.
WrittenFor(w, f) ==
  /\ w.fingerprint \in f.fingerprints \cup f.legacy
  /\ w.for.tool = f.tool /\ w.for.line = f.line /\ w.for.match = f.match /\ w.for.of = f.of /\ w.for.read = f.read
EntryOK(w) == w.machine \in Machines /\ \E f : FindingOK(w.machine, f) /\ WrittenFor(w, f)
EntriesOK(entries) == entries = {} \/ \E w : entries = {w} /\ EntryOK(w)
WaiverInv == EntriesOK(waivers)

\* A report's findings have the fingerprints of its machine, and are waived by its waivers.
ReportInv ==
  /\ report.machine \in Machines /\ EntriesOK(report.waivers) /\ IsFiniteSet(report.findings)
  /\ \A f \in report.findings :
       /\ FindingOK(report.machine, f)
       /\ f.waived = \E w \in report.waivers : w.fingerprint \in f.fingerprints \cup f.legacy
  /\ PathsAreRelative

IInv == SourceInv /\ RawInv /\ WaiverInv /\ ReportInv

LEMMA SourcesAreSources ==
  ASSUME NEW files, IsSource(files) PROVE files \in Sources
<1>1. DOMAIN files \in SUBSET Seq(STRING) BY DEF IsSource, IsName
<1> QED BY <1>1 DEF IsSource, Sources

LEMMA EmptyReport ==
  ASSUME NEW m \in Machines, report' = NoReport(m) PROVE ReportInv'
<1>1. IsFiniteSet({}) BY FS_EmptySet
<1>2. report'.machine = m /\ report'.waivers = {} /\ report'.findings = {} BY DEF NoReport
<1>3. EntriesOK({}) BY DEF EntriesOK
<1> QED BY <1>1, <1>2, <1>3 DEF ReportInv, PathsAreRelative

LEMMA EntriesAreFinite ==
  ASSUME NEW entries, EntriesOK(entries) PROVE IsFiniteSet(entries)
  BY FS_EmptySet, FS_Singleton DEF EntriesOK

LEMMA CommitsAreFinite ==
  ASSUME SourceInv PROVE IsFiniteSet(DOMAIN commits)
<1>1. DOMAIN commits = 1..Len(commits) /\ Len(commits) \in Nat BY DEF SourceInv
<1> QED BY <1>1, FS_Interval

LEMMA InitHolds == Init => IInv
<1> SUFFICES ASSUME Init PROVE IInv OBVIOUS
<1>1. machine \in Machines /\ IsSource(tree) BY TreeAssumption DEF Init
<1>2. tree \in Sources BY <1>1, SourcesAreSources
<1>3. commits \in Seq(Sources) /\ \A c \in DOMAIN commits : commits[c] = tree BY <1>2 DEF Init
<1>4. SourceInv BY <1>1, <1>3 DEF SourceInv
<1>5. IsFiniteSet({}) BY FS_EmptySet
<1>6. RawInv BY <1>5 DEF Init, RawInv
<1>7. EntriesOK({}) BY DEF EntriesOK
<1>8. WaiverInv BY <1>7 DEF Init, WaiverInv
<1>9. report.waivers = {} /\ report.findings = {} /\ report.machine = machine BY DEF Init, NoReport
<1>10. ReportInv BY <1>1, <1>5, <1>7, <1>9 DEF ReportInv, PathsAreRelative
<1> QED BY <1>4, <1>6, <1>8, <1>10 DEF IInv

\* The scanners report what their tools can report, and finitely much of it.
LEMMA ScanHolds == IInv /\ Scan => IInv'
<1> SUFFICES ASSUME IInv, Scan PROVE IInv' OBVIOUS
<1>1. machine \in Machines /\ IsSource(tree) /\ \A c \in DOMAIN commits : IsSource(commits[c])
  BY DEF IInv, SourceInv
<1>2. IsFiniteSet(DOMAIN commits) BY CommitsAreFinite DEF IInv
<1>3. IsFiniteSet(run_trufflehog(machine)) /\ \A r \in run_trufflehog(machine) : RawOK(machine, r)
  BY <1>1, <1>2, SecretFindings DEF RawOK
<1>4. IsFiniteSet(run_opengrep(machine)) /\ \A r \in run_opengrep(machine) : RawOK(machine, r)
  BY <1>1, CodeFindings DEF RawOK
<1>5. IsFiniteSet(run_grype(machine)) /\ \A r \in run_grype(machine) : RawOK(machine, r)
  BY <1>1, PackageFindings DEF RawOK
<1>6. IsFiniteSet(run_checkov(machine)) /\ \A r \in run_checkov(machine) : RawOK(machine, r)
  BY <1>1, CheckFindings DEF RawOK
<1>7. raw' = ((run_trufflehog(machine) \cup run_opengrep(machine)) \cup run_grype(machine)) \cup run_checkov(machine)
  BY DEF Scan
<1>8. IsFiniteSet(raw') BY <1>3, <1>4, <1>5, <1>6, <1>7, FS_Union
<1>9. \A r \in raw' : RawOK(machine, r) BY <1>3, <1>4, <1>5, <1>6, <1>7
<1>10. machine' = machine /\ scanned' = TRUE BY DEF Scan
<1>11. RawInv' BY <1>8, <1>9, <1>10 DEF RawInv
<1>12. SourceInv' BY DEF IInv, SourceInv, Scan
<1>13. WaiverInv' BY DEF IInv, WaiverInv, Scan
<1>14. ReportInv' BY <1>1, EmptyReport DEF Scan
<1> QED BY <1>11, <1>12, <1>13, <1>14 DEF IInv

LEMMA FingerprintHolds == IInv /\ Fingerprint => IInv'
<1> SUFFICES ASSUME IInv, Fingerprint PROVE IInv' OBVIOUS
<1> DEFINE found(r) == apply_waivers_to_model(attach_common(machine, r))
           g == [r \in raw |-> found(r)]
<1>1. machine \in Machines /\ EntriesOK(waivers) /\ IsFiniteSet(raw) /\ \A r \in raw : RawOK(machine, r)
  BY DEF IInv, SourceInv, WaiverInv, RawInv
<1>2. report'.machine = machine /\ report'.waivers = waivers /\ report'.findings = {found(r) : r \in raw}
  BY DEF Fingerprint
<1>3. IsFiniteSet({found(r) : r \in raw})
  <2>1. DOMAIN g = raw /\ {g[r] : r \in raw} = {found(r) : r \in raw} OBVIOUS
  <2> HIDE DEF g, found
  <2>2. IsFiniteSet({g[r] : r \in raw}) BY <1>1, <2>1, ImageIsFinite
  <2> QED BY <2>1, <2>2
<1>4. IsFiniteSet(waivers) BY <1>1, EntriesAreFinite
<1>5. \A r \in raw : FindingOK(machine, found(r)) BY <1>1, <1>4, AttachedOK
<1>6. \A r \in raw : found(r).waived = \E w \in waivers : w.fingerprint \in found(r).fingerprints \cup found(r).legacy
  BY <1>1, <1>4, AttachedOK
<1> HIDE DEF found
<1>7. \A f \in report'.findings : FindingOK(machine, f) BY <1>2, <1>5
<1>8. \A f \in report'.findings : f.waived = \E w \in waivers : w.fingerprint \in f.fingerprints \cup f.legacy
  BY <1>2, <1>6
<1>9. PathsAreRelative'
  <2>1. IsSource(tree) /\ report'.files = DOMAIN tree BY DEF IInv, SourceInv, Fingerprint
  <2>2. \A r \in raw : found(r).of.file \in DOMAIN tree /\ ~Misread(machine, found(r), DOMAIN tree) =>
          \/ found(r).paths = {found(r).of.file}
          \/ Nested(machine) /\ found(r).paths = {machine.source \o found(r).of.file}
    BY <1>1, <2>1, AttachedPaths DEF found
  <2> QED BY <1>2, <2>1, <2>2 DEF PathsAreRelative
<1>10. ReportInv' BY <1>1, <1>2, <1>3, <1>7, <1>8, <1>9 DEF ReportInv
<1>11. IsFiniteSet({}) BY FS_EmptySet
<1>12. RawInv' BY <1>11 DEF RawInv, Fingerprint
<1>13. SourceInv' BY DEF IInv, SourceInv, Fingerprint
<1>14. WaiverInv' BY DEF IInv, WaiverInv, Fingerprint
<1> QED BY <1>10, <1>12, <1>13, <1>14 DEF IInv

LEMMA WaiveHolds ==
  ASSUME IInv, NEW f \in report.findings, NEW fp \in f.fingerprints \cup f.legacy, Waive(f, fp) PROVE IInv'
<1> DEFINE w == [fingerprint |-> fp, machine |-> report.machine,
                 for |-> [tool |-> f.tool, line |-> f.line, match |-> f.match, of |-> f.of, read |-> f.read]]
<1>1. FindingOK(report.machine, f) /\ report.machine \in Machines BY DEF IInv, ReportInv
<1>2. WrittenFor(w, f) /\ w.machine = report.machine BY DEF WrittenFor
<1>3. waivers' = {w} BY DEF Waive
<1> HIDE DEF w
<1>4. EntryOK(w) BY <1>1, <1>2 DEF EntryOK
<1>5. EntriesOK({w}) BY <1>4 DEF EntriesOK
<1>6. WaiverInv' BY <1>3, <1>5 DEF WaiverInv
<1>7. SourceInv' BY DEF IInv, SourceInv, Waive
<1>8. RawInv' BY DEF IInv, RawInv, Waive
<1>9. ReportInv' BY DEF IInv, ReportInv, Waive, PathsAreRelative
<1> QED BY <1>6, <1>7, <1>8, <1>9 DEF IInv

LEMMA EditHolds == ASSUME IInv, NEW f \in DOMAIN tree, Edit(f) PROVE IInv'
<1>1. machine \in Machines /\ IsSource(tree) BY DEF IInv, SourceInv
<1>2. tree[f] \in Seq(Tokens) /\ "-" \in Tokens BY <1>1 DEF IsSource, Tokens
<1>3. <<"-">> \in Seq(Tokens) BY <1>2
<1>4. \A text \in Seq(Tokens) : <<"-">> \o text \in Seq(Tokens) /\ text \o <<"-">> \in Seq(Tokens) BY <1>3
<1>5. IsSource(tree')
  <2>1. \A text \in Seq(Tokens) : IsSource([tree EXCEPT ![f] = text])
    <3> TAKE text \in Seq(Tokens)
    <3> DEFINE new == [tree EXCEPT ![f] = text]
    <3>1. DOMAIN new = DOMAIN tree /\ \A g \in DOMAIN tree : new[g] \in Seq(Tokens) BY <1>1 DEF IsSource
    <3>2. new = [g \in DOMAIN new |-> new[g]] BY <3>1
    <3> QED BY <1>1, <3>1, <3>2 DEF IsSource
  <2>2. IsSource(Restrict(tree, DOMAIN tree \ {f}))
    <3>1. IsFiniteSet(DOMAIN tree \ {f}) BY <1>1, FS_Subset DEF IsSource
    <3> QED BY <1>1, <3>1 DEF IsSource, Restrict
  <2>3. \A g \in NewNames : IsSource(Renamed(f, g))
    <3> TAKE g \in NewNames
    <3>1. IsName(g) BY TreeAssumption
    <3>2. IsFiniteSet((DOMAIN tree \ {f}) \cup {g}) BY <1>1, FS_Subset, FS_Singleton, FS_Union DEF IsSource
    <3> QED BY <1>1, <1>2, <3>1, <3>2 DEF IsSource, Renamed
  <2>4. tree' \in Changed(f) BY DEF Edit
  <2> QED BY <1>2, <1>4, <2>1, <2>2, <2>3, <2>4 DEF Changed
<1>6. SourceInv' BY <1>5 DEF IInv, SourceInv, Edit
<1>7. RawInv' BY DEF IInv, RawInv, Edit
<1>8. WaiverInv' BY DEF IInv, WaiverInv, Edit
<1>9. ReportInv' BY <1>1, EmptyReport DEF Edit
<1> QED BY <1>6, <1>7, <1>8, <1>9 DEF IInv

LEMMA CommitHolds == IInv /\ Commit => IInv'
<1> SUFFICES ASSUME IInv, Commit PROVE IInv' OBVIOUS
<1>1. machine \in Machines /\ IsSource(tree) /\ commits \in Seq(Sources) /\ \A c \in DOMAIN commits : IsSource(commits[c])
  BY DEF IInv, SourceInv
<1>2. tree \in Sources BY <1>1, SourcesAreSources
<1>3. commits' = Append(commits, tree) BY DEF Commit
<1>4. commits' \in Seq(Sources) BY <1>1, <1>2, <1>3
<1>5. \A c \in DOMAIN commits' : commits'[c] = tree \/ (c \in DOMAIN commits /\ commits'[c] = commits[c])
  BY <1>1, <1>2, <1>3
<1>6. \A c \in DOMAIN commits' : IsSource(commits'[c]) BY <1>1, <1>5
<1>7. SourceInv' BY <1>1, <1>4, <1>6 DEF SourceInv, Commit
<1>8. RawInv' BY DEF IInv, RawInv, Commit
<1>9. WaiverInv' BY DEF IInv, WaiverInv, Commit
<1>10. ReportInv' BY <1>1, EmptyReport DEF Commit
<1> QED BY <1>7, <1>8, <1>9, <1>10 DEF IInv

LEMMA MoveHolds == ASSUME IInv, NEW m \in Machines, Move(m) PROVE IInv'
<1>1. raw = {} /\ IsFiniteSet({}) BY FS_EmptySet DEF IInv, RawInv, Move
<1>2. RawInv' BY <1>1 DEF RawInv, Move
<1>3. SourceInv' BY DEF IInv, SourceInv, Move
<1>4. WaiverInv' BY DEF IInv, WaiverInv, Move
<1>5. ReportInv' BY EmptyReport DEF Move
<1> QED BY <1>2, <1>3, <1>4, <1>5 DEF IInv

LEMMA NextHolds == IInv /\ [Next]_vars => IInv'
<1> SUFFICES ASSUME IInv, [Next]_vars PROVE IInv' OBVIOUS
<1>1. CASE Scan BY <1>1, ScanHolds
<1>2. CASE Fingerprint BY <1>2, FingerprintHolds
<1>3. CASE \E f \in report.findings : \E fp \in f.fingerprints \cup f.legacy : Waive(f, fp) BY <1>3, WaiveHolds
<1>4. CASE \E f \in DOMAIN tree : Edit(f) BY <1>4, EditHolds
<1>5. CASE Commit BY <1>5, CommitHolds
<1>6. CASE \E m \in Machines \ {machine} : Move(m) BY <1>6, MoveHolds
<1>7. CASE UNCHANGED vars BY <1>7 DEF vars, IInv, SourceInv, RawInv, WaiverInv, ReportInv, PathsAreRelative
<1> QED BY <1>1, <1>2, <1>3, <1>4, <1>5, <1>6, <1>7 DEF Next
-------------------------------------------------------------------------------
(* What follows from it *)

\* Everything known of the sources, the findings and the waivers holds on every run.
THEOREM InvariantHolds == Spec => []IInv
<1> QED BY InitHolds, NextHolds, PTL DEF Spec

\* The rule in the fingerprints of code, by version.
IdOf(m, q, version) == IF version = 2 THEN RuleId(m, q) ELSE CheckId(m.mount, q)

\* A fingerprint of code is one of its three tiers.
LEMMA CodeFields ==
  ASSUME NEW m, NEW q, NEW f, CodeFinding(m, q, f), NEW fp \in f.fingerprints \cup f.legacy
  PROVE  \E version \in {1, 2} :
           /\ fp \in IF version = 2 THEN f.fingerprints ELSE f.legacy
           /\ fp[1] = "opengrep" /\ fp[2] = version /\ fp[4] = IdOf(m, q, version)
           /\ \/ fp = RulePrint(m, version, IdOf(m, q, version), f.match)
              \/ fp[3] = "EXACT" /\ fp[5] \in f.read /\ fp[6] = ByteOffset(m, fp[5], f.line) /\ Len(fp) = 8
              \/ fp[3] = "EXACT" /\ f.read = {} /\ Len(fp) = 5
              \/ fp[3] = "CTX"
<1>1. CodePrints(m, q, f) BY DEF CodeFinding
<1>2. PICK version \in {1, 2} : fp \in IF version = 2 THEN f.fingerprints ELSE f.legacy OBVIOUS
<1>3. \E path :
        \/ f.read = {} /\ fp \in Unlocated(m, version, IdOf(m, q, version), f.match, path)
        \/ \E text \in f.read : fp \in Located(m, version, IdOf(m, q, version), f.match, path, text, f.line)
  BY <1>1, <1>2 DEF CodePrints, IdOf
<1>4. PICK id, match : id = IdOf(m, q, version) /\ match = f.match OBVIOUS
<1>5. PICK path :
        \/ f.read = {} /\ fp \in Unlocated(m, version, id, match, path)
        \/ \E text \in f.read : fp \in Located(m, version, id, match, path, text, f.line)
  BY <1>3, <1>4
<1>6. RulePrint(m, version, id, match)[1] = "opengrep" /\ RulePrint(m, version, id, match)[2] = version
      /\ RulePrint(m, version, id, match)[4] = id
  BY DEF RulePrint
<1>7. CASE f.read = {} /\ fp \in Unlocated(m, version, id, match, path)
  BY <1>2, <1>4, <1>6, <1>7 DEF Unlocated
<1>8. CASE \E text \in f.read : fp \in Located(m, version, id, match, path, text, f.line)
  <2>1. PICK text \in f.read : fp \in Located(m, version, id, match, path, text, f.line) BY <1>8
  <2> QED BY <1>2, <1>4, <1>6, <2>1 DEF Located
<1> QED BY <1>5, <1>7, <1>8

\* The current fingerprints of code are of version 2, the legacy ones of version 1.
LEMMA CodeVersions ==
  ASSUME NEW m, NEW q, NEW f, CodeFinding(m, q, f)
  PROVE  /\ \A fp \in f.fingerprints : fp[2] = 2 /\ fp[4] = RuleId(m, q)
         /\ \A fp \in f.legacy : fp[2] = 1 /\ fp[4] = CheckId(m.mount, q)
         /\ RulePrint(m, 2, RuleId(m, q), f.match) \in f.fingerprints /\ RulePrint(m, 1, CheckId(m.mount, q), f.match) \in f.legacy
<1>1. \A version, id, match : RulePrint(m, version, id, match)[2] = version /\ RulePrint(m, version, id, match)[4] = id
  BY DEF RulePrint
<1>2. \A version, id, match, path : /\ RulePrint(m, version, id, match) \in Unlocated(m, version, id, match, path)
                                    /\ \A fp \in Unlocated(m, version, id, match, path) : fp[2] = version /\ fp[4] = id
  BY <1>1 DEF Unlocated
<1>3. \A version, id, match, path, text, line :
        /\ RulePrint(m, version, id, match) \in Located(m, version, id, match, path, text, line)
        /\ \A fp \in Located(m, version, id, match, path, text, line) : fp[2] = version /\ fp[4] = id
  BY <1>1 DEF Located
<1> QED BY <1>2, <1>3 DEF CodeFinding, CodePrints

LEMMA CodeOfRule ==
  ASSUME NEW m, NEW f, FindingOK(m, f), f.tool = "opengrep" PROVE \E q \in m.rules : CodeFinding(m, q, f)
  BY DEF FindingOK, SecretFinding, PackageFinding, CheckFinding

\* Two rules that OpenGrep reports apart share neither an id nor a fingerprint.
LEMMA RulesStayApartHolds == IInv => RulesStayApart
<1> SUFFICES ASSUME IInv, NoOverlap(report.machine),
                    NEW f \in report.findings, NEW g \in report.findings, f.tool = "opengrep", g.tool = "opengrep",
                    \A q \in f.of.rule, r \in g.of.rule : Apart(report.machine, q, r)
             PROVE  f.rule_id # g.rule_id /\ f.fingerprints \cap g.fingerprints = {}
  BY DEF RulesStayApart
<1> DEFINE m == report.machine
<1>1. m \in Machines /\ FindingOK(m, f) /\ FindingOK(m, g) BY DEF IInv, ReportInv
<1> HIDE DEF m
<1>2. PICK q \in m.rules : CodeFinding(m, q, f)
  BY <1>1, CodeOfRule
<1>3. PICK r \in m.rules : CodeFinding(m, r, g)
  BY <1>1, CodeOfRule
<1>4. f.of.rule = {q} /\ g.of.rule = {r} /\ f.rule_id = RuleId(m, q) /\ g.rule_id = RuleId(m, r)
  BY <1>2, <1>3 DEF CodeFinding
<1>5. Apart(m, q, r) BY <1>4 DEF m
<1>6. RuleId(m, q) # RuleId(m, r) BY <1>1, <1>5, RulesApart DEF m
<1>7. \A fp \in f.fingerprints : fp[4] = RuleId(m, q) BY <1>2, CodeVersions
<1>8. \A fp \in g.fingerprints : fp[4] = RuleId(m, r) BY <1>3, CodeVersions
<1> QED BY <1>4, <1>6, <1>7, <1>8
\* Lines that start at the same byte are the same line, if they end alike.
LEMMA OffsetsTellLines ==
  ASSUME NEW m \in Machines, NEW n \in Machines, m.eol = n.eol, NEW text \in Seq(Tokens),
         NEW i \in DOMAIN text, NEW j \in DOMAIN text, ByteOffset(m, text, i) = ByteOffset(n, text, j)
  PROVE  i = j
<1>1. i \in 1..Len(text) /\ j \in 1..Len(text) /\ Len(text) \in Nat OBVIOUS
<1>2. PICK k : k = 1 + m.eol OBVIOUS
<1>3. k \in Nat /\ k > 0 BY <1>2, MachineAssumption
<1>4. (i - 1) * k = (j - 1) * k BY <1>2 DEF ByteOffset
<1>5. \A a, b \in Nat, c \in Nat : c > 0 /\ a * c = b * c => a = b
  <2>1. SUFFICES ASSUME NEW a \in Nat, NEW b \in Nat, NEW c \in Nat, c > 0, a < b PROVE a * c < b * c
    <3> SUFFICES ASSUME NEW a \in Nat, NEW b \in Nat, NEW c \in Nat, c > 0, a * c = b * c PROVE a = b OBVIOUS
    <3>1. ~(a < b) /\ ~(b < a) BY <2>1
    <3> QED BY <3>1
  <2>2. b >= a + 1 BY <2>1
  <2>3. PICK d \in Nat : b = a + d /\ d >= 1
    <3>1. b - a \in Nat /\ b = a + (b - a) /\ b - a >= 1 BY <2>2
    <3> QED BY <3>1
  <2>4. b * c = a * c + d * c BY <2>3
  <2>5. d * c >= c BY <2>1, <2>3
  <2> QED BY <2>1, <2>4, <2>5
<1> QED BY <1>1, <1>3, <1>4, <1>5

\* What an EXACT fingerprint says of the finding that has it.
LEMMA ExactFields ==
  ASSUME NEW m, NEW f, FindingOK(m, f), NEW fp \in f.fingerprints \cup f.legacy, fp[3] = "EXACT"
  PROVE  /\ fp[1] = f.tool
         /\ \/ f.tool = "trufflehog" /\ f.of.rule = {} /\ fp[5] \in f.read
            \/ f.tool \in {"grype", "checkov"} /\ f.read = {}
            \/ f.tool = "opengrep" /\ \E q \in m.rules, version \in {1, 2} :
                 /\ f.of.rule = {q} /\ f.of.text \in Seq(Tokens) /\ f.line \in DOMAIN f.of.text
                 /\ fp[2] = version /\ fp[4] = IdOf(m, q, version)
                 /\ \/ fp[5] \in f.read /\ fp[6] = ByteOffset(m, fp[5], f.line) /\ Len(fp) = 8
                    \/ f.read = {} /\ Len(fp) = 5
<1>1. CASE SecretFinding(m, f)
  <2>1. fp \in f.fingerprints /\ f.tool = "trufflehog" BY <1>1 DEF SecretFinding
  <2>2. SecretPrint(m, f.match)[3] # "EXACT" BY DEF SecretPrint
  <2> QED BY <1>1, <2>1, <2>2 DEF SecretFinding
<1>2. CASE PackageFinding(m, f) BY <1>2 DEF PackageFinding
<1>3. CASE CheckFinding(m, f) BY <1>3 DEF CheckFinding
<1>4. ASSUME NEW q \in m.rules, CodeFinding(m, q, f)
      PROVE  /\ f.tool = "opengrep" /\ fp[1] = "opengrep"
             /\ \E version \in {1, 2} :
                 /\ f.of.rule = {q} /\ f.of.text \in Seq(Tokens) /\ f.line \in DOMAIN f.of.text
                 /\ fp[2] = version /\ fp[4] = IdOf(m, q, version)
                 /\ \/ fp[5] \in f.read /\ fp[6] = ByteOffset(m, fp[5], f.line) /\ Len(fp) = 8
                    \/ f.read = {} /\ Len(fp) = 5
  <2>1. \A version, id, match : RulePrint(m, version, id, match)[3] # "EXACT" BY DEF RulePrint
  <2>2. PICK version \in {1, 2} :
           /\ fp[1] = "opengrep" /\ fp[2] = version /\ fp[4] = IdOf(m, q, version)
           /\ \/ fp = RulePrint(m, version, IdOf(m, q, version), f.match)
              \/ fp[3] = "EXACT" /\ fp[5] \in f.read /\ fp[6] = ByteOffset(m, fp[5], f.line) /\ Len(fp) = 8
              \/ fp[3] = "EXACT" /\ f.read = {} /\ Len(fp) = 5
              \/ fp[3] = "CTX"
    BY <1>4, CodeFields
  <2>3. \/ fp[5] \in f.read /\ fp[6] = ByteOffset(m, fp[5], f.line) /\ Len(fp) = 8
        \/ f.read = {} /\ Len(fp) = 5
    BY <2>1, <2>2
  <2> QED BY <1>4, <2>2, <2>3 DEF CodeFinding
<1>5. CASE \E q \in m.rules : CodeFinding(m, q, f) BY <1>4, <1>5
<1> QED BY <1>1, <1>2, <1>3, <1>5 DEF FindingOK

\* What is known of a waiver of the last report.
LEMMA WaiverOfReport ==
  ASSUME IInv, NEW w \in report.waivers
  PROVE  /\ w.machine \in Machines
         /\ \E g : FindingOK(w.machine, g) /\ WrittenFor(w, g)
         /\ \A f \in report.findings : f.waived <=> w.fingerprint \in f.fingerprints \cup f.legacy
<1>1. report.waivers = {w} /\ EntryOK(w) BY DEF IInv, ReportInv, EntriesOK
<1>2. \A f \in report.findings : f.waived = \E v \in report.waivers : v.fingerprint \in f.fingerprints \cup f.legacy
  BY DEF IInv, ReportInv
<1> QED BY <1>1, <1>2 DEF EntryOK
\* A waiver for one place stays there: text, line and rule follow from the fingerprint.
LEMMA LocatedHolds == IInv => LocatedWaiverIsNarrow
<1> SUFFICES ASSUME IInv, NEW w \in report.waivers, parse_fingerprint(w.fingerprint).tier = "EXACT",
                    ReadAsScanned(w.for), NEW f \in report.findings, f.waived, f.read \subseteq {f.of.text}
             PROVE  LET m == w.machine
                        n == report.machine
                    IN /\ f.tool = w.for.tool
                       /\ f.of.text = w.for.of.text
                       /\ f.tool = "opengrep" /\ m.eol = n.eol => f.line = w.for.line
                       /\ SameRules(m, n) /\ NoOverlap(m) =>
                            \A q \in f.of.rule, r \in w.for.of.rule : ~Apart(m, q, r)
  BY DEF LocatedWaiverIsNarrow
<1> DEFINE m == w.machine
           n == report.machine
           fp == w.fingerprint
<1>1. m \in Machines /\ n \in Machines /\ FindingOK(n, f) BY WaiverOfReport DEF IInv, ReportInv
<1>2. PICK g : FindingOK(m, g) /\ WrittenFor(w, g) BY WaiverOfReport
<1>3. fp \in f.fingerprints \cup f.legacy /\ fp \in g.fingerprints \cup g.legacy
  BY <1>2, WaiverOfReport DEF WrittenFor
<1>4. fp[3] = "EXACT" BY DEF parse_fingerprint
<1>5. /\ w.for.tool = g.tool /\ w.for.line = g.line /\ w.for.of = g.of
      /\ g.read = {g.of.text} /\ g.read # {}
  BY <1>2 DEF WrittenFor, ReadAsScanned
<1> HIDE DEF m, n, fp
<1>6. /\ fp[1] = g.tool
      /\ \/ g.tool = "trufflehog" /\ g.of.rule = {} /\ fp[5] \in g.read
         \/ g.tool \in {"grype", "checkov"} /\ g.read = {}
         \/ g.tool = "opengrep" /\ \E q \in m.rules, version \in {1, 2} :
              /\ g.of.rule = {q} /\ g.of.text \in Seq(Tokens) /\ g.line \in DOMAIN g.of.text
              /\ fp[2] = version /\ fp[4] = IdOf(m, q, version)
              /\ \/ fp[5] \in g.read /\ fp[6] = ByteOffset(m, fp[5], g.line) /\ Len(fp) = 8
                 \/ g.read = {} /\ Len(fp) = 5
  BY <1>2, <1>3, <1>4, ExactFields
<1>7. /\ fp[1] = f.tool
      /\ \/ f.tool = "trufflehog" /\ f.of.rule = {} /\ fp[5] \in f.read
         \/ f.tool \in {"grype", "checkov"} /\ f.read = {}
         \/ f.tool = "opengrep" /\ \E q \in n.rules, version \in {1, 2} :
              /\ f.of.rule = {q} /\ f.of.text \in Seq(Tokens) /\ f.line \in DOMAIN f.of.text
              /\ fp[2] = version /\ fp[4] = IdOf(n, q, version)
              /\ \/ fp[5] \in f.read /\ fp[6] = ByteOffset(n, fp[5], f.line) /\ Len(fp) = 8
                 \/ f.read = {} /\ Len(fp) = 5
  BY <1>1, <1>3, <1>4, ExactFields
<1>8. f.tool = g.tool /\ g.tool \in {"trufflehog", "opengrep"} BY <1>5, <1>6, <1>7
<1>9. CASE g.tool = "trufflehog"
  <2>1. fp[5] \in g.read /\ fp[5] \in f.read /\ f.of.rule = {} /\ f.tool # "opengrep" BY <1>6, <1>7, <1>8, <1>9
  <2> QED BY <1>5, <1>8, <2>1
<1>10. CASE g.tool = "opengrep"
  <2>1. PICK r \in m.rules, v \in {1, 2} :
           /\ g.of.rule = {r} /\ g.of.text \in Seq(Tokens) /\ g.line \in DOMAIN g.of.text
           /\ fp[2] = v /\ fp[4] = IdOf(m, r, v)
           /\ fp[5] \in g.read /\ fp[6] = ByteOffset(m, fp[5], g.line) /\ Len(fp) = 8
    BY <1>5, <1>6, <1>10
  <2>2. PICK q \in n.rules, u \in {1, 2} :
           /\ f.of.rule = {q} /\ f.line \in DOMAIN f.of.text
           /\ fp[2] = u /\ fp[4] = IdOf(n, q, u)
           /\ fp[5] \in f.read /\ fp[6] = ByteOffset(n, fp[5], f.line)
    BY <1>7, <1>8, <1>10, <2>1
  <2>3. fp[5] = g.of.text /\ f.of.text = g.of.text BY <1>5, <2>1, <2>2
  <2>4. m.eol = n.eol => f.line = g.line
    <3>1. ByteOffset(m, g.of.text, g.line) = ByteOffset(n, g.of.text, f.line) BY <2>1, <2>2, <2>3
    <3>2. f.line \in DOMAIN g.of.text BY <2>2, <2>3
    <3> QED BY <1>1, <2>1, <3>1, <3>2, OffsetsTellLines
  <2>5. SameRules(m, n) /\ NoOverlap(m) => ~Apart(m, q, r)
    <3> SUFFICES ASSUME SameRules(m, n), NoOverlap(m), Apart(m, q, r) PROVE FALSE OBVIOUS
    <3>1. m.mount = n.mount /\ m.rules = n.rules BY DEF SameRules
    <3>2. IdOf(m, q, u) = IdOf(n, q, u) BY <3>1 DEF IdOf, RuleId
    <3>3. IdOf(m, q, u) = IdOf(m, r, u) BY <2>1, <2>2, <3>2
    <3>4. RuleId(m, q) # RuleId(m, r) BY <1>1, <2>1, <2>2, <3>1, RulesApart
    <3>5. CheckId(m.mount, q) # CheckId(m.mount, r) BY DEF Apart
    <3> QED BY <3>3, <3>4, <3>5 DEF IdOf
  <2> QED BY <1>5, <1>8, <2>1, <2>2, <2>3, <2>4, <2>5 DEF m, n
<1> QED BY <1>8, <1>9, <1>10

\* The same project has the same key and the same id on both machines.
LEMMA ProjectsAgree ==
  ASSUME NEW m \in Machines, NEW n \in Machines, SameProject(m, n)
  PROVE  ProjectOf(m) = ProjectOf(n) /\ KeyOf(m) = KeyOf(n)
<1>1. m.key = n.key /\ m.project_id = n.project_id BY DEF SameProject
<1>2. ProjectOf(m) = ProjectOf(n)
  <2>1. CASE m.project_id # P!NoText BY <1>1, <2>1 DEF ProjectOf, P!derive_project_id
  <2>2. CASE m.repo = n.repo BY <1>1, <2>2 DEF ProjectOf
  <2>3. CASE Readable(m) /\ Readable(n) /\ m.project_id = P!NoText
    <3>1. ASSUME NEW k \in Machines, Readable(k), k.project_id = P!NoText
          PROVE  \E r \in k.repo.remote : ProjectOf(k) = <<"remote", r.host.name, r.path>>
      <4>1. PICK r \in k.repo.remote : r.form # "ssh" BY <3>1 DEF Readable
      <4>2. \A s \in k.repo.remote : s = r BY <4>1, MachineAssumption
      <4>3. (CHOOSE s \in k.repo.remote : TRUE) = r BY <4>1, <4>2
      <4>4. k.repo.git /\ k.repo.remote # {} BY <3>1, <4>1 DEF Readable
      <4>5. ProjectOf(k) = P!normalize_git_remote(r)
        BY <3>1, <4>3, <4>4 DEF ProjectOf, P!derive_project_id
      <4> QED BY <4>1, <4>5 DEF P!normalize_git_remote
    <3>2. PICK r \in m.repo.remote : ProjectOf(m) = <<"remote", r.host.name, r.path>> BY <2>3, <3>1
    <3>3. PICK s \in n.repo.remote : ProjectOf(n) = <<"remote", s.host.name, s.path>> BY <1>1, <2>3, <3>1
    <3>4. r.host.name = s.host.name /\ r.path = s.path BY MachineAssumption
    <3> QED BY <3>2, <3>3, <3>4
  <2> QED BY <2>1, <2>2, <2>3 DEF SameProject
<1> QED BY <1>1, <1>2 DEF KeyOf
\* The same secret has the same text, up to separators; no secret is empty.
LEMMA SameSecret ==
  ASSUME NEW a \in Candidates, NEW b \in Candidates,
         normalize_secret(a) = normalize_secret(b), a # NoText
  PROVE  b # NoText
<1>1. "key" # NoText BY DEF NoText
<1>2. "k-e-y" # NoText BY DEF NoText
<1>3. normalize_secret(NoText) = NoText BY <1>2 DEF normalize_secret
<1>4. normalize_secret(a) # NoText BY <1>1 DEF Candidates, normalize_secret
<1> QED BY <1>3, <1>4

\* Only secrets are normalised.
LEMMA SameText ==
  ASSUME NEW a \in Code \cup Packages, NEW b \in Code \cup Packages, normalize_secret(a) = normalize_secret(b)
  PROVE  a = b
  BY DEF normalize_secret, Code, Packages

\* The tool of a finding tells what is known of it.
LEMMA FindingOfTool ==
  ASSUME NEW m, NEW f, FindingOK(m, f)
  PROVE  /\ f.tool = "trufflehog" => SecretFinding(m, f)
         /\ f.tool = "opengrep" => \E q \in m.rules : CodeFinding(m, q, f)
         /\ f.tool = "grype" => PackageFinding(m, f)
         /\ f.tool = "checkov" => CheckFinding(m, f)
         /\ f.tool \in {"trufflehog", "opengrep", "grype", "checkov"}
<1>1. SecretFinding(m, f) => f.tool = "trufflehog" BY DEF SecretFinding
<1>2. (\E q \in m.rules : CodeFinding(m, q, f)) => f.tool = "opengrep" BY DEF CodeFinding
<1>3. PackageFinding(m, f) => f.tool = "grype" BY DEF PackageFinding
<1>4. CheckFinding(m, f) => f.tool = "checkov" BY DEF CheckFinding
<1> QED BY <1>1, <1>2, <1>3, <1>4 DEF FindingOK

\* The recommended fingerprint of a finding is one of every finding with the same cause.
LEMMA SameCauseSamePrint ==
  ASSUME NEW m \in Machines, NEW n \in Machines, SameProject(m, n),
         NEW g, FindingOK(m, g), NEW f, FindingOK(n, f),
         NEW fp \in g.fingerprints \cup g.legacy, fp[3] \in {"SECRET", "RULE", "PKG"}, fp[2] = CURRENT_FP_VERSION[fp[1]],
         SameCause(g, f), \A r \in f.of.rule : RuleIdStays(r, m, n),
         f.tool = "checkov" => ~IsAbsolute(m.source) /\ ~IsAbsolute(n.source)
  PROVE  fp \in f.fingerprints
<1>1. ProjectOf(m) = ProjectOf(n) /\ KeyOf(m) = KeyOf(n) BY ProjectsAgree
<1>2. /\ g.tool = f.tool /\ g.of.rule = f.of.rule /\ normalize_secret(g.match) = normalize_secret(f.match)
      /\ f.tool = "checkov" => g.of.file = f.of.file
  BY DEF SameCause
<1>3. CASE f.tool = "trufflehog"
  <2>1. SecretFinding(m, g) /\ SecretFinding(n, f) BY <1>2, <1>3, FindingOfTool
  <2>2. fp = SecretPrint(m, g.match) /\ g.match # NoText BY <2>1 DEF SecretFinding
  <2>3. f.match # NoText BY <1>2, <2>1, <2>2, SameSecret DEF SecretFinding
  <2>4. SecretPrint(n, f.match) \in f.fingerprints BY <2>1, <2>3 DEF SecretFinding
  <2>5. SecretPrint(n, f.match) = SecretPrint(m, g.match) BY <1>1, <1>2 DEF SecretPrint
  <2> QED BY <2>2, <2>4, <2>5
<1>4. CASE f.tool = "opengrep"
  <2>1. PICK r \in m.rules : CodeFinding(m, r, g) BY <1>2, <1>4, FindingOfTool
  <2>2. PICK q \in n.rules : CodeFinding(n, q, f) BY <1>4, FindingOfTool
  <2>3. q = r BY <1>2, <2>1, <2>2 DEF CodeFinding
  <2>4. PICK version \in {1, 2} :
          /\ fp[1] = "opengrep" /\ fp[2] = version
          /\ \/ fp = RulePrint(m, version, IdOf(m, r, version), g.match)
             \/ fp[3] = "EXACT"
             \/ fp[3] = "CTX"
    BY <2>1, CodeFields
  <2>5. CURRENT_FP_VERSION["opengrep"] = 2 BY DEF CURRENT_FP_VERSION
  <2>6. fp = RulePrint(m, 2, RuleId(m, r), g.match) BY <2>4, <2>5 DEF IdOf
  <2>7. RuleId(m, r) = RuleId(n, r)
    <3>1. RuleIdStays(r, m, n) BY <2>2, <2>3 DEF CodeFinding
    <3>2. CASE SameRules(m, n) BY <3>2 DEF SameRules, RuleId
    <3>3. CASE Bare(m, r) /\ Bare(n, r)
      <4>1. RuleId(m, r) = r.id BY <3>3, BareRule
      <4>2. RuleId(n, r) = r.id BY <2>3, <3>3, BareRule
      <4> QED BY <4>1, <4>2
    <3> QED BY <3>1, <3>2, <3>3 DEF RuleIdStays
  <2>8. g.match = f.match BY <1>2, <2>1, <2>2, SameText DEF CodeFinding
  <2>9. RulePrint(m, 2, RuleId(m, r), g.match) = RulePrint(n, 2, RuleId(n, q), f.match)
    BY <1>1, <2>3, <2>7, <2>8 DEF RulePrint
  <2> QED BY <2>2, <2>6, <2>9, CodeVersions
<1>5. CASE f.tool = "grype"
  <2>1. PackageFinding(m, g) /\ PackageFinding(n, f) BY <1>2, <1>5, FindingOfTool
  <2>2. fp = PackagePrint(m, g.match) /\ PackagePrint(n, f.match) \in f.fingerprints BY <2>1 DEF PackageFinding
  <2>3. g.match = f.match BY <1>2, <2>1, SameText DEF PackageFinding
  <2> QED BY <1>1, <2>2, <2>3 DEF PackagePrint
<1>6. CASE f.tool = "checkov"
  <2>1. CheckFinding(m, g) /\ CheckFinding(n, f) BY <1>2, <1>6, FindingOfTool
  <2>2. fp = CheckPrint(m, CheckedPath(m, g.of.file)) BY <2>1 DEF CheckFinding
  <2>3. CheckPrint(n, CheckedPath(n, f.of.file)) \in f.fingerprints BY <2>1 DEF CheckFinding
  <2>4. CheckedPath(m, g.of.file) = path_norm_sha(g.of.file) BY <1>6, <2>1, CheckPath DEF CheckedPath, CheckFinding
  <2>5. CheckedPath(n, f.of.file) = path_norm_sha(f.of.file) BY <1>6, <2>1, CheckPath DEF CheckedPath, CheckFinding
  <2> QED BY <1>1, <1>2, <1>6, <2>2, <2>3, <2>4, <2>5 DEF CheckPrint
<1> QED BY <1>3, <1>4, <1>5, <1>6, FindingOfTool

\* A recommended waiver keeps waiving what it was written for.
LEMMA FollowHolds == IInv => FingerprintsFollow
<1> SUFFICES ASSUME IInv, NEW w \in report.waivers,
                    w.fingerprint[3] \in {"SECRET", "RULE", "PKG"},
                    w.fingerprint[2] = CURRENT_FP_VERSION[w.fingerprint[1]],
                    SameProject(w.machine, report.machine),
                    NEW f \in report.findings, SameCause(w.for, f),
                    \A r \in f.of.rule : RuleIdStays(r, w.machine, report.machine),
                    f.tool = "checkov" => ~IsAbsolute(w.machine.source) /\ ~IsAbsolute(report.machine.source)
             PROVE  f.waived
  BY DEF FingerprintsFollow, parse_fingerprint
<1>1. report.machine \in Machines /\ FindingOK(report.machine, f) BY DEF IInv, ReportInv
<1>2. PICK g : FindingOK(w.machine, g) /\ WrittenFor(w, g) BY WaiverOfReport
<1>3. w.fingerprint \in g.fingerprints \cup g.legacy /\ SameCause(g, f)
  BY <1>2 DEF WrittenFor, SameCause
<1>4. w.fingerprint \in f.fingerprints
  BY <1>1, <1>2, <1>3, WaiverOfReport, SameCauseSamePrint
<1> QED BY <1>4, WaiverOfReport

\* The fields of the recommended fingerprints.
LEMMA PrintFields ==
  /\ \A m, c : LET fp == SecretPrint(m, c)
               IN fp[1] = "trufflehog" /\ fp[3] = "SECRET" /\ fp[5] = KeyOf(m) /\ fp[6] = normalize_secret(c) /\ fp[7] = ProjectOf(m)
  /\ \A m, v, id, c : LET fp == RulePrint(m, v, id, c)
                      IN /\ fp[1] = "opengrep" /\ fp[2] = v /\ fp[3] = "RULE" /\ fp[4] = id
                         /\ fp[5] = KeyOf(m) /\ fp[6] = c /\ fp[7] = ProjectOf(m)
  /\ \A m, c : LET fp == PackagePrint(m, c)
               IN fp[1] = "grype" /\ fp[3] = "PKG" /\ fp[5] = KeyOf(m) /\ fp[6] = c /\ fp[7] = ProjectOf(m)
  /\ \A m, c : LET fp == CheckPrint(m, c)
               IN fp[1] = "checkov" /\ fp[3] = "RULE" /\ fp[5] = KeyOf(m) /\ fp[6] = c /\ fp[7] = ProjectOf(m)
  BY DEF SecretPrint, RulePrint, PackagePrint, CheckPrint

\* What a recommended fingerprint says of the finding that has it.
LEMMA RecommendedFields ==
  ASSUME NEW m, NEW f, FindingOK(m, f), NEW fp \in f.fingerprints \cup f.legacy, fp[3] \in {"SECRET", "RULE", "PKG"}
  PROVE  /\ fp[1] = f.tool /\ fp[5] = KeyOf(m) /\ fp[7] = ProjectOf(m)
         /\ \/ f.tool = "trufflehog" /\ f.of.rule = {} /\ fp[6] = normalize_secret(f.match)
            \/ f.tool = "opengrep" /\ fp[6] = f.match /\ \E q \in m.rules, version \in {1, 2} :
                 f.of.rule = {q} /\ fp[2] = version /\ fp[4] = IdOf(m, q, version)
            \/ f.tool = "grype" /\ f.of.rule = {} /\ fp[6] = f.match
            \/ f.tool = "checkov" /\ f.of.rule = {} /\ IsName(f.of.file) /\ fp[6] = CheckedPath(m, f.of.file)
<1>1. CASE SecretFinding(m, f)
  <2>1. fp = SecretPrint(m, f.match) /\ f.tool = "trufflehog" /\ f.of.rule = {} BY <1>1 DEF SecretFinding
  <2> QED BY <2>1, PrintFields
<1>2. CASE \E q \in m.rules : CodeFinding(m, q, f)
  <2>1. PICK q \in m.rules : CodeFinding(m, q, f) BY <1>2
  <2>2. f.tool = "opengrep" /\ f.of.rule = {q} BY <2>1 DEF CodeFinding
  <2>3. PICK version \in {1, 2} :
          /\ fp[2] = version /\ fp[4] = IdOf(m, q, version)
          /\ fp = RulePrint(m, version, IdOf(m, q, version), f.match) \/ fp[3] = "EXACT" \/ fp[3] = "CTX"
    BY <2>1, CodeFields
  <2>4. fp = RulePrint(m, version, IdOf(m, q, version), f.match) BY <2>3
  <2> QED BY <2>2, <2>3, <2>4, PrintFields
<1>3. CASE PackageFinding(m, f)
  <2>1. fp = PackagePrint(m, f.match) /\ f.tool = "grype" /\ f.of.rule = {} BY <1>3 DEF PackageFinding
  <2> QED BY <2>1, PrintFields
<1>4. CASE CheckFinding(m, f)
  <2>1. fp = CheckPrint(m, CheckedPath(m, f.of.file)) /\ f.tool = "checkov" /\ f.of.rule = {} /\ IsName(f.of.file)
    BY <1>4 DEF CheckFinding
  <2> QED BY <2>1, PrintFields
<1> QED BY <1>1, <1>2, <1>3, <1>4 DEF FindingOK

\* Paths that are hashed alike differ at most in leading dots.
LEMMA HashedAlike ==
  ASSUME NEW a \in Seq(STRING), a # <<>>, a[1] # "/", NEW b \in Seq(STRING), b # <<>>, b[1] # "/",
         path_norm_sha(a) = path_norm_sha(b)
  PROVE  undotted(a[1]) = undotted(b[1]) /\ Tail(a) = Tail(b) /\ SameFile(a, b)
<1>1. unrooted(a) = a /\ unrooted(b) = b BY DEF unrooted, IsAbsolute
<1>2. [a EXCEPT ![1] = undotted(@)] = [b EXCEPT ![1] = undotted(@)] BY <1>1 DEF path_norm_sha
<1>3. Len(a) \in Nat \ {0} /\ Len(b) \in Nat \ {0} /\ DOMAIN a = 1..Len(a) /\ DOMAIN b = 1..Len(b) BY HeadStays
<1>4. DOMAIN a = DOMAIN b BY <1>2
<1>5. Len(a) = Len(b)
  <2>1. \A i, j \in Nat \ {0} : 1..i = 1..j => i = j OBVIOUS
  <2> QED BY <1>3, <1>4, <2>1
<1>6. undotted(a[1]) = undotted(b[1]) BY <1>2, <1>3
<1>7. \A i \in 2..Len(a) : a[i] = b[i] BY <1>2, <1>3, <1>4
<1>8. Tail(a) = Tail(b)
  <2>1. Tail(a) \in Seq(STRING) /\ Tail(b) \in Seq(STRING) /\ Len(Tail(a)) = Len(a) - 1 /\ Len(Tail(b)) = Len(a) - 1
    BY <1>3, <1>5
  <2>2. \A i \in 1..(Len(a) - 1) : Tail(a)[i] = a[i + 1] /\ Tail(b)[i] = b[i + 1] /\ i + 1 \in 2..Len(a)
    BY <1>3, <1>5
  <2>3. \A s, t \in Seq(STRING) : Len(s) = Len(t) /\ (\A i \in 1..Len(s) : s[i] = t[i]) => s = t OBVIOUS
  <2>4. \A i \in 1..Len(Tail(a)) : Tail(a)[i] = Tail(b)[i] BY <1>7, <2>1, <2>2
  <2> QED BY <2>1, <2>3, <2>4
<1>9. Head(a) = a[1] /\ Head(b) = b[1] BY <1>3
<1> QED BY <1>6, <1>8, <1>9 DEF SameFile

\* Checkov's fingerprints tell files apart, but for leading dots, where the source is spelled alike.
LEMMA CheckedApart ==
  ASSUME NEW m \in Machines, NEW n \in Machines, SameSpelling(m, n), NEW a, IsName(a), NEW b, IsName(b),
         CheckedPath(m, a) = CheckedPath(n, b)
  PROVE  SameFile(a, b)
<1>1. a \in Seq(STRING) /\ a # <<>> /\ a[1] # "/" /\ b \in Seq(STRING) /\ b # <<>> /\ b[1] # "/" BY DEF IsName
<1>2. /\ CheckedPath(m, a) = path_norm_sha(IF IsAbsolute(m.source) THEN Tail(m.source) \o a ELSE a)
      /\ CheckedPath(n, b) = path_norm_sha(IF IsAbsolute(n.source) THEN Tail(n.source) \o b ELSE b)
  BY CheckPath DEF CheckedPath
<1>3. CASE ~IsAbsolute(m.source) /\ ~IsAbsolute(n.source) BY <1>1, <1>2, <1>3, HashedAlike
<1>4. CASE m.source = n.source /\ IsAbsolute(m.source)
  <2> DEFINE above == Tail(m.source)
  <2>1. m.source \in Seq(STRING) /\ m.source # <<>> /\ Len(m.source) \in Nat \ {0} BY Roots, HeadStays
  <2>2. above \in Seq(STRING) /\ (Len(m.source) = 1 => above = <<>>) BY <1>1, <2>1, HeadAndTail
  <2>3. path_norm_sha(above \o a) = path_norm_sha(above \o b) BY <1>2, <1>4
  <2>4. CASE Len(m.source) = 1
    <3>1. above \o a = a /\ above \o b = b BY <1>1, <2>2, <2>4, NothingBefore
    <3> QED BY <1>1, <2>3, <3>1, HashedAlike
  <2>5. CASE Len(m.source) > 1
    <3>1. above[1] = m.source[2] /\ Len(above) = Len(m.source) - 1 BY <2>1, <2>5
    <3>2. above # <<>>
      <4>1. Len(above) # 0 /\ Len(<<>>) = 0 BY <2>1, <2>5, <3>1
      <4> QED BY <4>1
    <3>3. m.source[2] # "/" BY <2>1, <2>5, MachineAssumption DEF IsPath
    <3> HIDE DEF above
    <3>4. /\ above \o a \in Seq(STRING) /\ above \o a # <<>> /\ (above \o a)[1] = above[1]
          /\ above \o b \in Seq(STRING) /\ above \o b # <<>> /\ (above \o b)[1] = above[1]
      BY <1>1, <2>2, <3>2, HeadStays
    <3>5. Tail(above \o a) = Tail(above \o b) BY <2>3, <3>1, <3>3, <3>4, HashedAlike
    <3>6. Tail(above \o a) = Tail(above) \o a /\ Tail(above \o b) = Tail(above) \o b /\ Tail(above) \in Seq(STRING)
      BY <1>1, <2>2, <3>2, HeadAndTail
    <3>7. a = b BY <1>1, <3>5, <3>6, Cancel
    <3> QED BY <3>7 DEF SameFile
  <2> QED BY <2>1, <2>4, <2>5, HeadStays, <1>1
<1> QED BY <1>3, <1>4 DEF SameSpelling

\* A recommended waiver waives nothing but what it was written for.
LEMMA NarrowHolds == IInv => RecommendedWaiverIsNarrow
<1> SUFFICES ASSUME IInv, NEW w \in report.waivers, w.fingerprint[3] \in {"SECRET", "RULE", "PKG"},
                    NEW f \in report.findings, f.waived
             PROVE  LET m == w.machine
                        n == report.machine
                    IN /\ f.tool = w.for.tool /\ ProjectOf(m) = ProjectOf(n) /\ KeyOf(m) = KeyOf(n)
                       /\ f.tool # "checkov" => normalize_secret(f.match) = normalize_secret(w.for.match)
                       /\ f.tool = "checkov" /\ SameSpelling(m, n) => SameFile(f.of.file, w.for.of.file)
                       /\ \A q \in f.of.rule, r \in w.for.of.rule :
                            /\ SameRules(m, n) /\ NoOverlap(m) => ~Apart(m, q, r)
                            /\ w.fingerprint[2] = CURRENT_FP_VERSION.opengrep /\ Bare(n, q) /\ Bare(m, r) => q.id = r.id
  BY DEF RecommendedWaiverIsNarrow, parse_fingerprint
<1> DEFINE m == w.machine
           n == report.machine
           fp == w.fingerprint
<1>1. m \in Machines /\ n \in Machines /\ FindingOK(n, f) BY WaiverOfReport DEF IInv, ReportInv
<1>2. PICK g : FindingOK(m, g) /\ WrittenFor(w, g) BY WaiverOfReport
<1>3. fp \in f.fingerprints \cup f.legacy /\ fp \in g.fingerprints \cup g.legacy
  BY <1>2, WaiverOfReport DEF WrittenFor
<1>4. w.for.tool = g.tool /\ w.for.match = g.match /\ w.for.of = g.of BY <1>2 DEF WrittenFor
<1>5. fp[3] \in {"SECRET", "RULE", "PKG"} OBVIOUS
<1> HIDE DEF m, n, fp
<1>6. /\ fp[1] = g.tool /\ fp[5] = KeyOf(m) /\ fp[7] = ProjectOf(m)
      /\ \/ g.tool = "trufflehog" /\ g.of.rule = {} /\ fp[6] = normalize_secret(g.match)
         \/ g.tool = "opengrep" /\ fp[6] = g.match /\ \E q \in m.rules, version \in {1, 2} :
              g.of.rule = {q} /\ fp[2] = version /\ fp[4] = IdOf(m, q, version)
         \/ g.tool = "grype" /\ g.of.rule = {} /\ fp[6] = g.match
         \/ g.tool = "checkov" /\ g.of.rule = {} /\ IsName(g.of.file) /\ fp[6] = CheckedPath(m, g.of.file)
  BY <1>2, <1>3, <1>5, RecommendedFields
<1>7. /\ fp[1] = f.tool /\ fp[5] = KeyOf(n) /\ fp[7] = ProjectOf(n)
      /\ \/ f.tool = "trufflehog" /\ f.of.rule = {} /\ fp[6] = normalize_secret(f.match)
         \/ f.tool = "opengrep" /\ fp[6] = f.match /\ \E q \in n.rules, version \in {1, 2} :
              f.of.rule = {q} /\ fp[2] = version /\ fp[4] = IdOf(n, q, version)
         \/ f.tool = "grype" /\ f.of.rule = {} /\ fp[6] = f.match
         \/ f.tool = "checkov" /\ f.of.rule = {} /\ IsName(f.of.file) /\ fp[6] = CheckedPath(n, f.of.file)
  BY <1>1, <1>3, <1>5, RecommendedFields
<1>8. f.tool = g.tool /\ ProjectOf(m) = ProjectOf(n) /\ KeyOf(m) = KeyOf(n) BY <1>6, <1>7
<1>9. f.tool # "checkov" => normalize_secret(f.match) = normalize_secret(g.match) BY <1>6, <1>7, <1>8
<1>10. f.tool = "checkov" /\ SameSpelling(m, n) => SameFile(f.of.file, g.of.file)
  <2> SUFFICES ASSUME f.tool = "checkov", SameSpelling(m, n) PROVE SameFile(f.of.file, g.of.file) OBVIOUS
  <2>1. /\ IsName(g.of.file) /\ IsName(f.of.file)
        /\ CheckedPath(n, f.of.file) = CheckedPath(m, g.of.file)
    BY <1>6, <1>7, <1>8
  <2>2. SameSpelling(n, m) BY DEF SameSpelling
  <2> QED BY <1>1, <2>1, <2>2, CheckedApart
<1>11. ASSUME NEW q \in f.of.rule, NEW r \in g.of.rule
       PROVE  /\ SameRules(m, n) /\ NoOverlap(m) => ~Apart(m, q, r)
              /\ fp[2] = CURRENT_FP_VERSION.opengrep /\ Bare(n, q) /\ Bare(m, r) => q.id = r.id
  <2>1. PICK version \in {1, 2} : r \in m.rules /\ fp[2] = version /\ fp[4] = IdOf(m, r, version) BY <1>6, <1>11
  <2>2. q \in n.rules /\ fp[4] = IdOf(n, q, version) BY <1>7, <1>11, <2>1
  <2>3. IdOf(n, q, version) = IdOf(m, r, version) BY <2>1, <2>2
  <2>4. SameRules(m, n) /\ NoOverlap(m) => ~Apart(m, q, r)
    <3> SUFFICES ASSUME SameRules(m, n), NoOverlap(m), Apart(m, q, r) PROVE FALSE OBVIOUS
    <3>1. m.mount = n.mount /\ m.rules = n.rules BY DEF SameRules
    <3>2. IdOf(m, q, version) = IdOf(m, r, version) BY <2>3, <3>1 DEF IdOf, RuleId
    <3>3. RuleId(m, q) # RuleId(m, r) BY <1>1, <2>1, <2>2, <3>1, RulesApart
    <3>4. CheckId(m.mount, q) # CheckId(m.mount, r) BY DEF Apart
    <3> QED BY <3>2, <3>3, <3>4 DEF IdOf
  <2>5. fp[2] = CURRENT_FP_VERSION.opengrep /\ Bare(n, q) /\ Bare(m, r) => q.id = r.id
    <3> SUFFICES ASSUME fp[2] = CURRENT_FP_VERSION.opengrep, Bare(n, q), Bare(m, r) PROVE q.id = r.id OBVIOUS
    <3>1. version = 2 BY <2>1 DEF CURRENT_FP_VERSION
    <3>2. RuleId(n, q) = q.id /\ RuleId(m, r) = r.id BY <1>1, <2>1, <2>2, BareRule
    <3> QED BY <2>3, <3>1, <3>2 DEF IdOf
  <2> QED BY <2>4, <2>5
<1> QED BY <1>4, <1>8, <1>9, <1>10, <1>11 DEF m, n, fp

\* A waiver of version 1 keeps waiving its code while the rules stay where they were.
LEMMA LegacyHolds == IInv => LegacyWaiverHolds
<1> SUFFICES ASSUME IInv, NEW w \in report.waivers,
                    w.fingerprint[1] = "opengrep", w.fingerprint[2] = 1, w.fingerprint[3] = "RULE",
                    SameProject(w.machine, report.machine), w.machine.mount = report.machine.mount,
                    NEW f \in report.findings, SameCause(w.for, f)
             PROVE  f.waived
  BY DEF LegacyWaiverHolds, parse_fingerprint
<1> DEFINE m == w.machine
           n == report.machine
           fp == w.fingerprint
<1>1. n \in Machines /\ FindingOK(n, f) /\ m \in Machines BY WaiverOfReport DEF IInv, ReportInv
<1>2. PICK g : FindingOK(m, g) /\ WrittenFor(w, g) BY WaiverOfReport
<1>3. /\ fp \in g.fingerprints \cup g.legacy /\ g.tool = f.tool /\ g.of.rule = f.of.rule
      /\ normalize_secret(g.match) = normalize_secret(f.match)
  BY <1>2 DEF WrittenFor, SameCause
<1>4. ProjectOf(m) = ProjectOf(n) /\ KeyOf(m) = KeyOf(n) BY <1>1, ProjectsAgree
<1>5. fp[1] = "opengrep" /\ fp[2] = 1 /\ fp[3] = "RULE" /\ m.mount = n.mount OBVIOUS
<1> HIDE DEF m, n, fp
<1>6. g.tool = "opengrep"
  <2>1. SecretFinding(m, g) => fp[1] = "trufflehog" BY <1>3 DEF SecretFinding
  <2>2. PackageFinding(m, g) => fp[1] = "grype" BY <1>3 DEF PackageFinding
  <2>3. CheckFinding(m, g) => fp[1] = "checkov" BY <1>3 DEF CheckFinding
  <2>4. (\E q \in m.rules : CodeFinding(m, q, g)) => g.tool = "opengrep" BY DEF CodeFinding
  <2> QED BY <1>2, <1>5, <2>1, <2>2, <2>3, <2>4 DEF FindingOK
<1>7. PICK r \in m.rules : CodeFinding(m, r, g) BY <1>2, <1>6, FindingOfTool
<1>8. PICK q \in n.rules : CodeFinding(n, q, f) BY <1>1, <1>3, <1>6, FindingOfTool
<1>9. q = r BY <1>3, <1>7, <1>8 DEF CodeFinding
<1>10. PICK version \in {1, 2} :
         /\ fp[2] = version
         /\ \/ fp = RulePrint(m, version, IdOf(m, r, version), g.match)
            \/ fp[3] = "EXACT"
            \/ fp[3] = "CTX"
  BY <1>3, <1>7, CodeFields
<1>11. fp = RulePrint(m, 1, CheckId(m.mount, r), g.match) BY <1>5, <1>10 DEF IdOf
<1>12. CheckId(m.mount, r) = CheckId(n.mount, q) BY <1>5, <1>9
<1>13. g.match = f.match BY <1>3, <1>7, <1>8, SameText DEF CodeFinding
<1>14. RulePrint(m, 1, CheckId(m.mount, r), g.match) = RulePrint(n, 1, CheckId(n.mount, q), f.match)
  BY <1>4, <1>12, <1>13 DEF RulePrint
<1>15. fp \in f.legacy BY <1>8, <1>11, <1>14, CodeVersions
<1> QED BY <1>15, WaiverOfReport DEF fp

\* The tuples of the tiers of code tell where it is.
LEMMA TupleFields ==
  /\ \A v, id, a, b, c, d :
       LET fp == <<"opengrep", v, "EXACT", id, a, b, c, d>>
       IN fp[3] = "EXACT" /\ fp[5] = a /\ fp[6] = b /\ fp[7] = c /\ fp[8] = d /\ Len(fp) = 8
  /\ \A v, id : LET fp == <<"opengrep", v, "EXACT", id, "<unlocatable>">> IN fp[3] = "EXACT" /\ Len(fp) = 5
  /\ \A v, id, a, b, c :
       LET fp == <<"opengrep", v, "CTX", id, a, b, c>>
       IN fp[3] = "CTX" /\ fp[5] = a /\ fp[6] = b /\ fp[7] = c /\ Len(fp) = 7
  /\ \A v, id, a :
       LET fp == <<"opengrep", v, "CTX", id, a, "<unlocatable>">> IN fp[3] = "CTX" /\ fp[5] = a /\ Len(fp) = 6
  /\ \A m, v, id, a : RulePrint(m, v, id, a)[3] = "RULE" /\ RulePrint(m, v, id, a)[6] = a
  BY DEF RulePrint

\* Both versions of the fingerprints of one piece of code.
Versions(m, cid, rid, legacy, current) ==
  \E match, path, text, line :
    \/ legacy = Unlocated(m, 1, cid, match, path) /\ current = Unlocated(m, 2, rid, match, path)
    \/ legacy = Located(m, 1, cid, match, path, text, line) /\ current = Located(m, 2, rid, match, path, text, line)

\* The fingerprints of one version stand for those of the other, tier by tier: a legacy
\* one that two places share has a current one they share.
LEMMA TierByTier ==
  ASSUME NEW m, NEW cid, NEW rid, NEW A, NEW A2, NEW B, NEW B2,
         Versions(m, cid, rid, A, A2), Versions(m, cid, rid, B, B2),
         NEW old \in A \cap B, NEW new \in A2, old[3] = new[3]
  PROVE  new \in B2
<1>1. PICK match, path, text, line, same, place, content, row :
        /\ \/ A = Unlocated(m, 1, cid, match, path) /\ A2 = Unlocated(m, 2, rid, match, path)
           \/ A = Located(m, 1, cid, match, path, text, line) /\ A2 = Located(m, 2, rid, match, path, text, line)
        /\ \/ B = Unlocated(m, 1, cid, same, place) /\ B2 = Unlocated(m, 2, rid, same, place)
           \/ B = Located(m, 1, cid, same, place, content, row) /\ B2 = Located(m, 2, rid, same, place, content, row)
  BY DEF Versions
<1>2. PICK from, to, context, project :
        /\ from = ByteOffset(m, text, line) /\ to = ByteEnd(m, text, line) /\ context = context_hash(text, line)
        /\ project = ProjectOf(m)
  OBVIOUS
<1>3. PICK start, end, around :
        start = ByteOffset(m, content, row) /\ end = ByteEnd(m, content, row) /\ around = context_hash(content, row)
  OBVIOUS
<1> DEFINE E(v, id, a, b, c) == <<"opengrep", v, "EXACT", id, a, b, c, project>>
           C(v, id, a, b) == <<"opengrep", v, "CTX", id, a, b, project>>
           UE(v, id) == <<"opengrep", v, "EXACT", id, "<unlocatable>">>
           UC(v, id, a) == <<"opengrep", v, "CTX", id, a, "<unlocatable>">>
<1>4. /\ \A v, id : Located(m, v, id, match, path, text, line) =
                       {RulePrint(m, v, id, match), E(v, id, text, from, to), C(v, id, path, context)}
      /\ \A v, id : Located(m, v, id, same, place, content, row) =
                       {RulePrint(m, v, id, same), E(v, id, content, start, end), C(v, id, place, around)}
      /\ \A v, id, a, b : Unlocated(m, v, id, a, b) = {RulePrint(m, v, id, a), UE(v, id), UC(v, id, b)}
  BY <1>2, <1>3 DEF Located, Unlocated
<1>5. /\ \A v, id, a, b, c : E(v, id, a, b, c)[3] = "EXACT" /\ E(v, id, a, b, c)[5] = a /\ E(v, id, a, b, c)[6] = b
                             /\ E(v, id, a, b, c)[7] = c /\ Len(E(v, id, a, b, c)) = 8
      /\ \A v, id, a, b : C(v, id, a, b)[3] = "CTX" /\ C(v, id, a, b)[5] = a /\ C(v, id, a, b)[6] = b
                          /\ Len(C(v, id, a, b)) = 7
      /\ \A v, id : UE(v, id)[3] = "EXACT" /\ Len(UE(v, id)) = 5
      /\ \A v, id, a : UC(v, id, a)[3] = "CTX" /\ UC(v, id, a)[5] = a /\ Len(UC(v, id, a)) = 6
      /\ \A v, id, a : RulePrint(m, v, id, a)[3] = "RULE" /\ RulePrint(m, v, id, a)[6] = a
  BY TupleFields
<1>6. PICK rule, rule2 : rule = RulePrint(m, 1, cid, match) /\ rule2 = RulePrint(m, 2, rid, match) OBVIOUS
<1>7. PICK other, other2 : other = RulePrint(m, 1, cid, same) /\ other2 = RulePrint(m, 2, rid, same) OBVIOUS
<1>8. /\ rule[3] = "RULE" /\ rule2[3] = "RULE" /\ other[3] = "RULE" /\ other2[3] = "RULE"
      /\ rule = other => rule2 = other2
  BY <1>5, <1>6, <1>7
<1> HIDE DEF E, C, UE, UC
<1>9. CASE A = Unlocated(m, 1, cid, match, path) /\ A2 = Unlocated(m, 2, rid, match, path)
  <2>1. old \in {rule, UE(1, cid), UC(1, cid, path)} /\ new \in {rule2, UE(2, rid), UC(2, rid, path)}
    BY <1>4, <1>6, <1>9
  <2>2. CASE B = Unlocated(m, 1, cid, same, place) /\ B2 = Unlocated(m, 2, rid, same, place)
    <3>1. old \in {other, UE(1, cid), UC(1, cid, place)} /\ B2 = {other2, UE(2, rid), UC(2, rid, place)}
      BY <1>4, <1>7, <2>2
    <3> QED BY <1>5, <1>8, <2>1, <3>1
  <2>3. CASE B = Located(m, 1, cid, same, place, content, row) /\ B2 = Located(m, 2, rid, same, place, content, row)
    <3>1. /\ old \in {other, E(1, cid, content, start, end), C(1, cid, place, around)}
          /\ B2 = {other2, E(2, rid, content, start, end), C(2, rid, place, around)}
      BY <1>4, <1>7, <2>3
    <3> QED BY <1>5, <1>8, <2>1, <3>1
  <2> QED BY <1>1, <2>2, <2>3
<1>10. CASE A = Located(m, 1, cid, match, path, text, line) /\ A2 = Located(m, 2, rid, match, path, text, line)
  <2>1. /\ old \in {rule, E(1, cid, text, from, to), C(1, cid, path, context)}
        /\ new \in {rule2, E(2, rid, text, from, to), C(2, rid, path, context)}
    BY <1>4, <1>6, <1>10
  <2>2. CASE B = Unlocated(m, 1, cid, same, place) /\ B2 = Unlocated(m, 2, rid, same, place)
    <3>1. old \in {other, UE(1, cid), UC(1, cid, place)} /\ B2 = {other2, UE(2, rid), UC(2, rid, place)}
      BY <1>4, <1>7, <2>2
    <3> QED BY <1>5, <1>8, <2>1, <3>1
  <2>3. CASE B = Located(m, 1, cid, same, place, content, row) /\ B2 = Located(m, 2, rid, same, place, content, row)
    <3>1. /\ old \in {other, E(1, cid, content, start, end), C(1, cid, place, around)}
          /\ B2 = {other2, E(2, rid, content, start, end), C(2, rid, place, around)}
      BY <1>4, <1>7, <2>3
    <3> QED BY <1>5, <1>8, <2>1, <3>1
  <2> QED BY <1>1, <2>2, <2>3
<1> QED BY <1>1, <1>9, <1>10

LEMMA AliasesHold == IInv => AliasesKeepWaivers
<1> SUFFICES ASSUME IInv, NEW g \in report.findings, NEW old \in g.legacy, NEW new \in g.fingerprints, old[3] = new[3],
                    NEW f \in report.findings, old \in f.legacy
             PROVE  new \in f.fingerprints
  BY DEF AliasesKeepWaivers, fingerprint_aliases, parse_fingerprint
<1>1. PICK m : m = report.machine OBVIOUS
<1>2. FindingOK(m, f) /\ FindingOK(m, g) BY <1>1 DEF IInv, ReportInv
<1>3. f.tool = "opengrep" /\ g.tool = "opengrep"
  BY <1>2, FindingOfTool DEF SecretFinding, PackageFinding, CheckFinding
<1>4. PICK q \in m.rules : CodeFinding(m, q, f) BY <1>2, <1>3, FindingOfTool
<1>5. PICK r \in m.rules : CodeFinding(m, r, g) BY <1>2, <1>3, FindingOfTool
<1>6. CheckId(m.mount, q) = CheckId(m.mount, r) BY <1>4, <1>5, CodeVersions
<1>7. RuleId(m, q) = RuleId(m, r) BY <1>6 DEF RuleId
<1>8. PICK cid, rid : cid = CheckId(m.mount, q) /\ rid = RuleId(m, q) OBVIOUS
<1>9. CodePrints(m, q, f) /\ CodePrints(m, r, g) BY <1>4, <1>5 DEF CodeFinding
<1>10. Versions(m, cid, rid, g.legacy, g.fingerprints) /\ Versions(m, cid, rid, f.legacy, f.fingerprints)
  BY <1>6, <1>7, <1>8, <1>9 DEF CodePrints, Versions
<1> QED BY <1>10, TierByTier
-------------------------------------------------------------------------------
(* The properties the runs check *)

\* Whatever is edited, renamed and committed, and wherever the next run happens: the waiver
\* the documentation recommends keeps waiving the secret, the code, the package or the
\* check it was written for (fingerprints/*.py, waivers/apply.py).
THEOREM WaiversFollow == Spec => []FingerprintsFollow
<1> QED BY InvariantHolds, FollowHolds, PTL

\* The same waiver waives nothing else: no other secret, code or package, no other project,
\* and, with rules and sources spelled alike, no other rule and no other file but for
\* leading dots (the SECRET, RULE and PKG tiers of fingerprints/*.py).
THEOREM WaiversStayNarrow == Spec => []RecommendedWaiverIsNarrow
<1> QED BY InvariantHolds, NarrowHolds, PTL

\* A waiver with a version 1 fingerprint goes on waiving, and the alias that `waivers
\* migrate` would put in its place waives no less (opengrep.py, run.fingerprint_aliases).
THEOREM UpgradesKeepWaivers == Spec => []LegacyWaiversSurvive
<1> QED BY InvariantHolds, LegacyHolds, AliasesHold, PTL DEF LegacyWaiversSurvive

\* A waiver for one place waives neither another text nor another line nor another rule
\* (the EXACT tiers of trufflehog.py and opengrep.py).
THEOREM PlacesStayApart == Spec => []LocatedWaiverIsNarrow
<1> QED BY InvariantHolds, LocatedHolds, PTL

\* Bare rule ids merge no two rules, for any rules and any mount (opengrep_rule_ids.py).
THEOREM RulesKeepTheirNames == Spec => []RulesStayApart
<1> QED BY InvariantHolds, RulesStayApartHolds, PTL

\* Every finding names its file relative to the source, however its tool spells the path,
\* on every machine; a nested relative source may stay in front of it, and a path with a
\* second reading is left out (reporting/fields.relativize_path, normalize/*.py).
THEOREM PathsStayRelative == Spec => []PathsAreRelative
<1>1. IInv => PathsAreRelative BY DEF IInv, ReportInv
<1> QED BY <1>1, InvariantHolds, PTL
===============================================================================
