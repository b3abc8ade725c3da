---------------------------- MODULE TriageProofs ----------------------------
(***************************************************************************)
(* The issue table and the quota for any number of workers, occurrences,   *)
(* rules and thresholds.  The table is tied to the occurrences taken so    *)
(* far (TableInv); the overrun is bounded because a worker that starts a   *)
(* run without quota passed the gate while there was some (QuotaInv).      *)
(***************************************************************************)
EXTENDS Triage, FiniteSetTheorems, TLAPS

Environments == {DATA[o].environment : o \in OCCURRENCES}
Releases == {DATA[o].release : o \in OCCURRENCES}

Rows == [count : Nat \ {0}, first : Int, last : Int,
         status : {"open", "resolved", "regressed", "muted"}, regression : BOOLEAN,
         environments : SUBSET Environments, releases : SUBSET Releases]

\* What a worker holds: nothing, or an occurrence before its gate or its insert.
Held == {Idle} \cup [pc : {"triage"}, occ : OCCURRENCES, isNew : BOOLEAN]
               \cup [pc : {"insert"}, occ : OCCURRENCES]

TypeInv ==
    /\ pending \subseteq OCCURRENCES
    /\ wk \in [Workers -> Held]
    /\ issues \in [Fingerprints -> {NoIssue} \cup Rows]
    /\ active \in [Fingerprints -> Nat]
    /\ quota \in Int
    /\ launched \in Nat
    /\ dead \subseteq OCCURRENCES \ pending

-----------------------------------------------------------------------------
\* The row an upsert leaves is a row, and each of its fields is what the
\* statement of issues.py computes from the row before.
LEMMA UpsertedRow ==
  ASSUME NEW row \in {NoIssue} \cup Rows, NEW o \in OCCURRENCES
  PROVE  LET r == Upserted(row, DATA[o])
             environment == DATA[o].environment
         IN  /\ r \in Rows
             /\ row = NoIssue =>
                  /\ r.count = 1 /\ r.first = DATA[o].at /\ r.last = DATA[o].at
                  /\ r.environments = {environment} /\ r.releases = {DATA[o].release}
             /\ row # NoIssue =>
                  /\ r.count = row.count + 1 /\ r.first = row.first
                  /\ r.last = IF DATA[o].at > row.last THEN DATA[o].at ELSE row.last
                  /\ r.environments = row.environments \cup {environment}
                  /\ r.releases = (row.releases \cup {DATA[o].release}) \ {Missing}
                  /\ r.status = IF row.status = "resolved" THEN "regressed" ELSE row.status
                  /\ r.regression = (row.regression \/ row.status = "resolved")
  <1>0. /\ DATA[o].at \in Int
        /\ DATA[o].environment \in Environments
        /\ DATA[o].release \in Releases
    BY TriageAssumption DEF Environments, Releases, OCCURRENCES
  <1>1. CASE row = NoIssue
    BY <1>0, <1>1 DEF Upserted, Rows, NoIssue
  <1>2. CASE row # NoIssue
    <2>1. row \in Rows
      BY <1>2
    <2>. DEFINE r == Upserted(row, DATA[o])
    <2>2. r = [row EXCEPT
                !.count = @ + 1,
                !.last = IF DATA[o].at > @ THEN DATA[o].at ELSE @,
                !.status = IF @ = "resolved" THEN "regressed" ELSE @,
                !.regression = @ \/ row.status = "resolved",
                !.environments = @ \cup {DATA[o].environment},
                !.releases = (@ \cup {DATA[o].release}) \ {Missing}]
      BY <1>2 DEF Upserted
    <2>5. /\ row.count \in Nat \ {0} /\ row.first \in Int /\ row.last \in Int
          /\ row.status \in {"open", "resolved", "regressed", "muted"}
          /\ row.regression \in BOOLEAN
          /\ row.environments \subseteq Environments /\ row.releases \subseteq Releases
      BY <2>1 DEF Rows
    <2>6. /\ row.count + 1 \in Nat \ {0}
          /\ (IF DATA[o].at > row.last THEN DATA[o].at ELSE row.last) \in Int
          /\ (IF row.status = "resolved" THEN "regressed" ELSE row.status)
                \in {"open", "resolved", "regressed", "muted"}
          /\ row.environments \cup {DATA[o].environment} \in SUBSET Environments
          /\ (row.releases \cup {DATA[o].release}) \ {Missing} \in SUBSET Releases
      BY <1>0, <2>5
    <2>7. (row.regression \/ row.status = "resolved") \in BOOLEAN
      OBVIOUS
    <2>3. r \in Rows
      BY <2>1, <2>2, <2>6, <2>7 DEF Rows
    <2>4. /\ r.count = row.count + 1 /\ r.first = row.first
          /\ r.last = IF DATA[o].at > row.last THEN DATA[o].at ELSE row.last
          /\ r.environments = row.environments \cup {DATA[o].environment}
          /\ r.releases = (row.releases \cup {DATA[o].release}) \ {Missing}
          /\ r.status = IF row.status = "resolved" THEN "regressed" ELSE row.status
          /\ r.regression = (row.regression \/ row.status = "resolved")
      BY <2>1, <2>2 DEF Rows
    <2>. QED
      BY <1>2, <2>3, <2>4
  <1>. QED  BY <1>1, <1>2

\* What an upsert does: it takes an occurrence, and leaves it dead or in its issue's row.
LEMMA UpsertCases ==
  ASSUME TypeInv, NEW w \in Workers, Upsert(w)
  PROVE  \E o \in pending :
           /\ pending' = pending \ {o} /\ o \in OCCURRENCES /\ o \notin dead
           /\ \/ /\ Raises(issues[Fp(o)], DATA[o])
                 /\ dead' = dead \cup {o} /\ issues' = issues /\ wk' = wk
              \/ /\ ~Raises(issues[Fp(o)], DATA[o])
                 /\ dead' = dead
                 /\ issues' = [issues EXCEPT ![Fp(o)] = Upserted(issues[Fp(o)], DATA[o])]
                 /\ wk' = [wk EXCEPT ![w] =
                             [pc |-> "triage", occ |-> o, isNew |-> issues[Fp(o)] = NoIssue]]
  BY DEF Upsert, TypeInv

LEMMA FpType == \A o \in OCCURRENCES : Fp(o) \in Fingerprints
  BY DEF Fingerprints

LEMMA TypeInit == Init => TypeInv
  BY TriageAssumption DEF Init, TypeInv, Held, Idle

LEMMA TypeNext == TypeInv /\ [Next]_vars => TypeInv'
  <1>. SUFFICES ASSUME TypeInv, [Next]_vars  PROVE TypeInv'
    OBVIOUS
  <1>. USE DEF TypeInv
  <1>1. ASSUME NEW w \in Workers, Upsert(w)  PROVE TypeInv'
    <2>1. PICK o \in pending :
            /\ pending' = pending \ {o} /\ o \in OCCURRENCES
            /\ \/ /\ dead' = dead \cup {o} /\ issues' = issues /\ wk' = wk
               \/ /\ dead' = dead
                  /\ issues' = [issues EXCEPT ![Fp(o)] = Upserted(issues[Fp(o)], DATA[o])]
                  /\ wk' = [wk EXCEPT ![w] =
                              [pc |-> "triage", occ |-> o, isNew |-> issues[Fp(o)] = NoIssue]]
      BY <1>1, UpsertCases
    <2>2. Fp(o) \in Fingerprints
      BY <2>1, FpType
    <2>3. Upserted(issues[Fp(o)], DATA[o]) \in Rows
      BY <2>1, <2>2, UpsertedRow
    <2>4. [pc |-> "triage", occ |-> o, isNew |-> issues[Fp(o)] = NoIssue] \in Held
      BY <2>1 DEF Held
    <2>5. issues' \in [Fingerprints -> {NoIssue} \cup Rows]
      BY <2>1, <2>2, <2>3
    <2>6. wk' \in [Workers -> Held]
      BY <2>1, <2>4
    <2>7. pending' \subseteq OCCURRENCES /\ dead' \subseteq OCCURRENCES \ pending'
      BY <2>1
    <2>. QED  BY <1>1, <2>5, <2>6, <2>7 DEF Upsert
  <1>2. ASSUME NEW w \in Workers, Gate(w)  PROVE TypeInv'
    <2>1. wk[w] \in [pc : {"triage"}, occ : OCCURRENCES, isNew : BOOLEAN]
      BY <1>2 DEF Gate, Held, Idle
    <2>2. [pc |-> "insert", occ |-> wk[w].occ] \in Held /\ Idle \in Held
      BY <2>1 DEF Held
    <2>3. wk' \in [Workers -> Held]
      BY <1>2, <2>2 DEF Gate
    <2>. QED  BY <1>2, <2>3 DEF Gate
  <1>3. ASSUME NEW w \in Workers, Insert(w)  PROVE TypeInv'
    <2>1. wk[w] \in [pc : {"insert"}, occ : OCCURRENCES]
      BY <1>3 DEF Insert, Held, Idle
    <2>2. Fp(wk[w].occ) \in Fingerprints
      BY <2>1, FpType
    <2>3. wk' \in [Workers -> Held]
      BY <1>3 DEF Insert, Held
    <2>. QED  BY <1>3, <2>2, <2>3 DEF Insert
  <1>4. ASSUME NEW f \in Fingerprints, Finish(f)  PROVE TypeInv'
    BY <1>4 DEF Finish
  <1>5. ASSUME NEW f \in Fingerprints, Cool(f)  PROVE TypeInv'
    BY <1>5 DEF Cool
  <1>6. ASSUME NEW f \in Fingerprints, NEW s \in {"resolved", "muted"}, Decide(f, s)
        PROVE  TypeInv'
    <2>1. issues[f] \in Rows
      BY <1>6 DEF Decide
    <2>2. [issues[f] EXCEPT !.status = s] \in Rows
      BY <2>1 DEF Rows
    <2>3. issues' = [issues EXCEPT ![f] = [issues[f] EXCEPT !.status = s]]
      BY <1>6 DEF Decide
    <2>4. issues' \in [Fingerprints -> {NoIssue} \cup Rows]
      BY <2>2, <2>3
    <2>. QED  BY <1>6, <2>4 DEF Decide
  <1>7. CASE UNCHANGED vars
    BY <1>7 DEF vars
  <1>. QED  BY <1>1, <1>2, <1>3, <1>4, <1>5, <1>6, <1>7 DEF Next

-----------------------------------------------------------------------------
\* What the table says of an issue is what was taken of it and did not raise; an issue
\* of which nothing was taken has no row, and one that raised had none but what, like
\* the occurrence itself, names no release.
RowTrue(f) ==
    /\ issues[f] = NoIssue => Taken(f) = {}
    /\ issues[f] # NoIssue =>
         /\ issues[f].count = Cardinality(Counted(f))
         /\ issues[f].environments = {DATA[o].environment : o \in Counted(f)}
         /\ issues[f].releases \ {Missing} = {DATA[o].release : o \in Counted(f)} \ {Missing}
         /\ issues[f].last \in {DATA[o].at : o \in Counted(f)}
         /\ \A o \in Counted(f) : DATA[o].at <= issues[f].last
         /\ issues[f].first \in {DATA[o].at : o \in Counted(f)}
    /\ \A o \in Taken(f) \cap dead :
         /\ DATA[o].release = Missing
         /\ \E p \in Counted(f) : DATA[p].release = Missing

TableInv == \A f \in Fingerprints : RowTrue(f)

LEMMA TableInit == Init => TableInv
  BY DEF Init, TableInv, RowTrue, Taken, Counted, NoIssue

\* A step that takes no occurrence and changes no row but for its status.
LEMMA TableKept ==
  ASSUME TypeInv, TableInv, pending' = pending, dead' = dead,
         \A f \in Fingerprints :
            \/ issues'[f] = issues[f]
            \/ /\ issues[f] # NoIssue
               /\ \E s \in {"resolved", "muted"} :
                     issues'[f] = [issues[f] EXCEPT !.status = s]
  PROVE  TableInv'
  <1>. SUFFICES ASSUME NEW f \in Fingerprints  PROVE RowTrue(f)'
    BY DEF TableInv
  <1>1. Counted(f)' = Counted(f) /\ Taken(f)' = Taken(f)
    BY DEF Counted, Taken
  <1>2. CASE issues'[f] = issues[f]
    BY <1>1, <1>2 DEF TableInv, RowTrue
  <1>3. CASE issues'[f] # issues[f]
    <2>1. PICK s \in {"resolved", "muted"} : issues'[f] = [issues[f] EXCEPT !.status = s]
      BY <1>3
    <2>2. issues[f] \in Rows /\ issues[f] # NoIssue
      BY <1>3 DEF TypeInv
    <2>3. /\ issues'[f].count = issues[f].count /\ issues'[f].last = issues[f].last
          /\ issues'[f].environments = issues[f].environments
          /\ issues'[f].first = issues[f].first /\ issues'[f].releases = issues[f].releases
      BY <2>1, <2>2 DEF Rows
    <2>4. issues'[f] # NoIssue
      BY <2>2, <2>3 DEF Rows, NoIssue
    <2>. QED  BY <1>1, <2>2, <2>3, <2>4 DEF TableInv, RowTrue
  <1>. QED  BY <1>2, <1>3

LEMMA TableUpsert ==
  ASSUME TypeInv, TableInv, NEW w \in Workers, Upsert(w)
  PROVE  TableInv'
  <1>1. PICK o \in pending :
          /\ pending' = pending \ {o} /\ o \in OCCURRENCES /\ o \notin dead
          /\ \/ /\ Raises(issues[Fp(o)], DATA[o])
                /\ dead' = dead \cup {o} /\ issues' = issues
             \/ /\ dead' = dead
                /\ issues' = [issues EXCEPT ![Fp(o)] = Upserted(issues[Fp(o)], DATA[o])]
    BY UpsertCases
  <1>2. o \in OCCURRENCES /\ Fp(o) \in Fingerprints
    BY <1>1, FpType
  <1>. SUFFICES ASSUME NEW f \in Fingerprints  PROVE RowTrue(f)'
    BY DEF TableInv
  <1>3. CASE f # Fp(o)
    <2>1. Counted(f)' = Counted(f) /\ Taken(f)' = Taken(f)
          /\ (Taken(f) \cap dead)' = Taken(f) \cap dead
      BY <1>1, <1>3 DEF Counted, Taken
    <2>2. issues'[f] = issues[f]
      BY <1>1, <1>3 DEF TypeInv
    <2>. QED  BY <2>1, <2>2 DEF TableInv, RowTrue
  <1>5. CASE f = Fp(o) /\ Raises(issues[f], DATA[o]) /\ dead' = dead \cup {o} /\ issues' = issues
    <2>1. Counted(f)' = Counted(f) /\ (Taken(f) \cap dead)' = (Taken(f) \cap dead) \cup {o}
      BY <1>1, <1>5 DEF Counted, Taken, TypeInv
    <2>2. issues[f] # NoIssue /\ issues[f].releases \subseteq {Missing} /\ DATA[o].release = Missing
      BY <1>5 DEF Raises
    <2>3. PICK p \in Counted(f) : issues[f].first = DATA[p].at
      BY <2>2 DEF TableInv, RowTrue
    <2>4. DATA[p].release = Missing
      <3>1. {DATA[q].release : q \in Counted(f)} \ {Missing} = {}
        BY <2>2 DEF TableInv, RowTrue
      <3>. QED  BY <3>1
    <2>. QED  BY <1>5, <2>1, <2>2, <2>4 DEF TableInv, RowTrue
  <1>4. CASE f = Fp(o) /\ dead' = dead
             /\ issues' = [issues EXCEPT ![Fp(o)] = Upserted(issues[Fp(o)], DATA[o])]
    <2>. DEFINE old == issues[f]
                new == issues'[f]
                before == Counted(f)
                after == Counted(f)'
    <2>1. /\ after = before \cup {o} /\ o \notin before
          /\ (Taken(f) \cap dead)' = Taken(f) \cap dead
      BY <1>1, <1>2, <1>4 DEF Counted, Taken, TypeInv
    <2>2. new = Upserted(old, DATA[o]) /\ old \in {NoIssue} \cup Rows
      BY <1>1, <1>4 DEF TypeInv
    <2>10. \A q \in (Taken(f) \cap dead)' :
              DATA[q].release = Missing /\ \E p \in after : DATA[p].release = Missing
      BY <2>1 DEF TableInv, RowTrue
    <2>3. new \in Rows
      BY <1>2, <2>2, UpsertedRow
    <2>4. new # NoIssue
      BY <2>3 DEF Rows, NoIssue
    <2>5. IsFiniteSet(before) /\ before \subseteq OCCURRENCES
      BY TriageAssumption, FS_Subset DEF Counted, Taken, OCCURRENCES
    <2>6. Cardinality(after) = Cardinality(before) + 1 /\ Cardinality(before) \in Nat
      BY <2>1, <2>5, FS_AddElement, FS_CardinalityType
    <2>7. \A p \in OCCURRENCES : DATA[p].at \in Int
      BY TriageAssumption DEF OCCURRENCES
    <2>8. CASE old = NoIssue
      <3>1. before = {}
        BY <2>8 DEF TableInv, RowTrue, Counted
      <3>2. Cardinality(before) = 0
        BY <3>1, FS_EmptySet
      <3>7. LET r == Upserted(old, DATA[o]) IN
              /\ r.count = 1 /\ r.first = DATA[o].at /\ r.last = DATA[o].at
              /\ r.environments = {DATA[o].environment} /\ r.releases = {DATA[o].release}
        BY <1>2, <2>2, <2>8, UpsertedRow
      <3>3. /\ new.count = 1 /\ new.first = DATA[o].at /\ new.last = DATA[o].at
            /\ new.environments = {DATA[o].environment} /\ new.releases = {DATA[o].release}
        BY <2>2, <3>7
      <3>4. after = {o}
        BY <2>1, <3>1
      <3>5. /\ new.environments = {DATA[p].environment : p \in after}
            /\ new.releases = {DATA[p].release : p \in after}
            /\ new.last \in {DATA[p].at : p \in after}
            /\ new.first \in {DATA[p].at : p \in after}
        BY <3>3, <3>4
      <3>6. \A p \in after : DATA[p].at <= new.last
        BY <1>2, <2>7, <3>3, <3>4
      <3>. QED  BY <2>4, <2>6, <2>10, <3>2, <3>3, <3>5, <3>6 DEF RowTrue
    <2>9. CASE old # NoIssue
      <3>1. /\ old.count = Cardinality(before)
            /\ old.environments = {DATA[p].environment : p \in before}
            /\ old.releases \ {Missing} = {DATA[p].release : p \in before} \ {Missing}
            /\ old.last \in {DATA[p].at : p \in before}
            /\ \A p \in before : DATA[p].at <= old.last
            /\ old.first \in {DATA[p].at : p \in before}
        BY <2>9 DEF TableInv, RowTrue
      <3>10. LET r == Upserted(old, DATA[o]) IN
              /\ r.count = old.count + 1 /\ r.first = old.first
              /\ r.last = IF DATA[o].at > old.last THEN DATA[o].at ELSE old.last
              /\ r.environments = old.environments \cup {DATA[o].environment}
              /\ r.releases = (old.releases \cup {DATA[o].release}) \ {Missing}
        BY <1>2, <2>2, <2>9, UpsertedRow
      <3>2. /\ new.count = old.count + 1 /\ new.first = old.first
            /\ new.last = IF DATA[o].at > old.last THEN DATA[o].at ELSE old.last
            /\ new.environments = old.environments \cup {DATA[o].environment}
            /\ new.releases = (old.releases \cup {DATA[o].release}) \ {Missing}
        BY <2>2, <3>10
      <3>3. new.environments = {DATA[p].environment : p \in after}
        BY <2>1, <3>1, <3>2
      <3>9. new.releases \ {Missing} = {DATA[p].release : p \in after} \ {Missing}
        BY <2>1, <3>1, <3>2
      <3>4. new.last \in {DATA[p].at : p \in after}
        BY <2>1, <3>1, <3>2
      <3>5. new.first \in {DATA[p].at : p \in after}
        BY <2>1, <3>1, <3>2
      <3>6. old.last \in Int
        BY <2>5, <2>7, <3>1
      <3>7. \A p \in after : DATA[p].at <= new.last
        BY <1>2, <2>1, <2>5, <2>7, <3>1, <3>2, <3>6
      <3>8. new.count = Cardinality(after)
        BY <2>6, <3>1, <3>2
      <3>. QED  BY <2>4, <2>10, <3>3, <3>4, <3>5, <3>7, <3>8, <3>9 DEF RowTrue
    <2>. QED  BY <2>8, <2>9
  <1>. QED  BY <1>1, <1>3, <1>4, <1>5

LEMMA TableNext == TypeInv /\ TableInv /\ [Next]_vars => TableInv'
  <1>. SUFFICES ASSUME TypeInv, TableInv, [Next]_vars  PROVE TableInv'
    OBVIOUS
  <1>1. ASSUME NEW w \in Workers, Upsert(w)  PROVE TableInv'
    BY <1>1, TableUpsert
  <1>2. ASSUME NEW w \in Workers, Gate(w) \/ Insert(w)  PROVE TableInv'
    BY <1>2, TableKept DEF Gate, Insert
  <1>3. ASSUME NEW f \in Fingerprints, Finish(f) \/ Cool(f)  PROVE TableInv'
    BY <1>3, TableKept DEF Finish, Cool
  <1>4. ASSUME NEW f \in Fingerprints, NEW s \in {"resolved", "muted"}, Decide(f, s)
        PROVE  TableInv'
    <2>1. issues' = [issues EXCEPT ![f] = [issues[f] EXCEPT !.status = s]]
      BY <1>4 DEF Decide
    <2>2. \A g \in Fingerprints :
            \/ issues'[g] = issues[g]
            \/ /\ issues[g] # NoIssue
               /\ issues'[g] = [issues[g] EXCEPT !.status = s]
      BY <1>4, <2>1 DEF Decide, TypeInv
    <2>. QED  BY <1>4, <2>2, TableKept DEF Decide
  <1>5. CASE UNCHANGED vars
    BY <1>5, TableKept DEF vars
  <1>. QED  BY <1>1, <1>2, <1>3, <1>4, <1>5 DEF Next

\* In every storm of upserts, whatever their order and whoever makes them, a row
\* of the issue table says what was taken of its bug.
THEOREM TableTrue == Spec => []RowsTrue
  <1>1. TableInv => RowsTrue
    BY DEF TableInv, RowTrue, RowsTrue
  <1>. QED  BY <1>1, TypeInit, TypeNext, TableInit, TableNext, PTL DEF Spec

-----------------------------------------------------------------------------
\* The workers that passed the gate and have not inserted yet.
Inserting == {w \in Workers : wk[w].pc = "insert"}

\* While there is quota nothing is bounded but by the workers; once there is none,
\* nobody new passes the gate, and each of those who did may take one unit more.
QuotaInv ==
    /\ launched = QUOTA - quota
    /\ quota <= 0 => quota - Cardinality(Inserting) >= 1 - Cardinality(Workers)

LEMMA InsertingFinite ==
  /\ IsFiniteSet(Inserting) /\ Cardinality(Inserting) \in Nat
  /\ Cardinality(Inserting) <= Cardinality(Workers) /\ Cardinality(Workers) \in Nat
  /\ Cardinality(Workers) >= 1
  <1>1. Inserting \subseteq Workers /\ IsFiniteSet(Workers) /\ Workers # {}
    BY TriageAssumption DEF Inserting
  <1>2. IsFiniteSet(Inserting) /\ Cardinality(Inserting) <= Cardinality(Workers)
    BY <1>1, FS_Subset
  <1>3. Cardinality(Inserting) \in Nat /\ Cardinality(Workers) \in Nat
    BY <1>1, <1>2, FS_CardinalityType
  <1>4. Cardinality(Workers) # 0
    BY <1>1, FS_EmptySet
  <1>. QED  BY <1>2, <1>3, <1>4

LEMMA QuotaInit == Init => QuotaInv
  <1>. SUFFICES ASSUME Init  PROVE QuotaInv
    OBVIOUS
  <1>1. Inserting = {}
    BY DEF Init, Inserting, Idle
  <1>2. Cardinality(Inserting) = 0
    BY <1>1, FS_EmptySet
  <1>. QED  BY <1>2, InsertingFinite, TriageAssumption DEF Init, QuotaInv

LEMMA QuotaNext == TypeInv /\ QuotaInv /\ [Next]_vars => QuotaInv'
  <1>. SUFFICES ASSUME TypeInv, QuotaInv, [Next]_vars  PROVE QuotaInv'
    OBVIOUS
  <1>0. QUOTA \in Int /\ quota \in Int /\ launched \in Int
    BY TriageAssumption DEF TypeInv
  <1>1. ASSUME NEW w \in Workers, Upsert(w)  PROVE QuotaInv'
    <2>1. wk[w].pc # "insert" /\ wk'[w].pc # "insert"
      BY <1>1, UpsertCases DEF Upsert, TypeInv
    <2>2. \A v \in Workers \ {w} : wk'[v] = wk[v]
      BY <1>1, UpsertCases DEF TypeInv
    <2>3. Inserting' = Inserting
      BY <2>1, <2>2 DEF Inserting
    <2>. QED  BY <1>1, <2>3 DEF Upsert, QuotaInv
  <1>2. ASSUME NEW w \in Workers, Gate(w)  PROVE QuotaInv'
    <2>1. \A v \in Workers \ {w} : wk'[v] = wk[v]
      BY <1>2 DEF Gate, TypeInv
    <2>2. launched' = launched /\ quota' = quota
      BY <1>2 DEF Gate
    <2>3. CASE quota > 0
      BY <1>0, <2>2, <2>3 DEF QuotaInv
    <2>4. CASE quota <= 0
      <3>1. wk'[w] = Idle
        BY <1>0, <1>2, <2>4 DEF Gate, TriageOf, EvaluateGate, TypeInv
      <3>2. wk[w].pc # "insert" /\ wk'[w].pc # "insert"
        BY <1>2, <3>1 DEF Gate, Idle
      <3>3. Inserting' = Inserting
        BY <2>1, <3>2 DEF Inserting
      <3>. QED  BY <2>2, <3>3 DEF QuotaInv
    <2>. QED  BY <1>0, <2>3, <2>4
  <1>3. ASSUME NEW w \in Workers, Insert(w)  PROVE QuotaInv'
    <2>1. w \in Inserting
      BY <1>3 DEF Insert, Inserting
    <2>2. Inserting' = Inserting \ {w}
      BY <1>3 DEF Insert, TypeInv, Inserting, Idle
    <2>3. Cardinality(Inserting') = Cardinality(Inserting) - 1
      BY <2>1, <2>2, InsertingFinite, FS_RemoveElement
    <2>4. \/ launched' = launched /\ quota' = quota
          \/ launched' = launched + 1 /\ quota' = quota - 1
      BY <1>3 DEF Insert
    <2>. QED  BY <1>0, <2>3, <2>4, InsertingFinite DEF QuotaInv
  <1>4. ASSUME UNCHANGED <<wk, quota, launched>>  PROVE QuotaInv'
    BY <1>4 DEF QuotaInv, Inserting
  <1>5. ASSUME NEW f \in Fingerprints, Finish(f) \/ Cool(f)  PROVE QuotaInv'
    BY <1>4, <1>5 DEF Finish, Cool
  <1>6. ASSUME NEW f \in Fingerprints, NEW s \in {"resolved", "muted"}, Decide(f, s)
        PROVE  QuotaInv'
    BY <1>4, <1>6 DEF Decide
  <1>7. CASE UNCHANGED vars
    BY <1>4, <1>7 DEF vars
  <1>. QED  BY <1>1, <1>2, <1>3, <1>5, <1>6, <1>7 DEF Next

\* However many workers read the last unit of the quota together, the runs they
\* start beyond it are fewer than they are.
THEOREM OverrunBounded == Spec => []QuotaOverrun
  <1>1. TypeInv /\ QuotaInv => QuotaOverrun
    <2>. SUFFICES ASSUME TypeInv, QuotaInv  PROVE QuotaOverrun
      OBVIOUS
    <2>1. QUOTA \in Nat /\ quota \in Int /\ launched \in Int
      BY TriageAssumption DEF TypeInv
    <2>. QED  BY <2>1, InsertingFinite DEF QuotaInv, QuotaOverrun
  <1>. QED  BY <1>1, TypeInit, TypeNext, QuotaInit, QuotaNext, PTL DEF Spec

-----------------------------------------------------------------------------
\* The insert is what the gate's read is not: no issue ever has two live runs.
LiveOnce == \A f \in Fingerprints : active[f] <= 1

LEMMA LiveOnceNext == TypeInv /\ LiveOnce /\ [Next]_vars => LiveOnce'
  <1>. SUFFICES ASSUME TypeInv, LiveOnce, [Next]_vars  PROVE LiveOnce'
    OBVIOUS
  <1>1. ASSUME NEW w \in Workers, Insert(w)  PROVE LiveOnce'
    BY <1>1 DEF Insert, TypeInv, LiveOnce
  <1>2. ASSUME NEW f \in Fingerprints, Finish(f)  PROVE LiveOnce'
    BY <1>2 DEF Finish, TypeInv, LiveOnce
  <1>3. ASSUME active' = active  PROVE LiveOnce'
    BY <1>3 DEF LiveOnce
  <1>. QED  BY <1>1, <1>2, <1>3 DEF Next, Upsert, Gate, Cool, Decide, vars

\* No issue ever has two live runs, though every worker reads that it has none.
THEOREM NeverTwoRuns == Spec => []LiveOnce
  <1>1. Init => LiveOnce
    BY DEF Init, LiveOnce
  <1>. QED  BY <1>1, TypeInit, TypeNext, LiveOnceNext, PTL DEF Spec

-----------------------------------------------------------------------------
\* What is hashed of two occurrences of one bug is the same list, unless a number or a
\* rule tells them apart.
LEMMA SameInput ==
  ASSUME NEW o \in OCCURRENCES, NEW p \in OCCURRENCES, Alike[o][p]
  PROVE  FingerprintInput(DATA[o].event) = FingerprintInput(DATA[p].event)
  <1>. DEFINE d == DATA[o].event
              e == DATA[p].event
  <1>0. SameBug(d, e) /\ ~NumbersTell(d, e) /\ ~RulesTell(d, e)
    BY DEF Alike
  <1>2. DOMAIN d.message = 1 .. Len(d.message) /\ DOMAIN e.message = 1 .. Len(e.message)
    BY TriageAssumption DEF OCCURRENCES
  <1>. HIDE DEF d, e
  <1>1. /\ d.type = e.type /\ d.route = e.route /\ Calls(d.frames) = Calls(e.frames)
        /\ DOMAIN d.message = DOMAIN e.message
        /\ \A i \in DOMAIN d.message :
              /\ d.message[i].kind = e.message[i].kind
              /\ d.message[i].kind = "word" => d.message[i] = e.message[i]
    BY <1>0, <1>2 DEF SameBug
  <1>3. ReadsMessage(d) => NormalizeMessage(d.message) = NormalizeMessage(e.message)
    <2>. SUFFICES ASSUME ReadsMessage(d), NEW i \in DOMAIN d.message
                  PROVE  NormalizeToken(d.message[i]) = NormalizeToken(e.message[i])
      BY <1>1 DEF NormalizeMessage
    <2>. DEFINE s == d.message[i]
                t == e.message[i]
    <2>1. s.kind = t.kind /\ (s.kind = "word" => s = t)
      BY <1>1
    <2>2. Short(s) = Short(t) /\ Long(s) = Long(t) /\ (Short(s) => s = t)
      BY <1>0 DEF NumbersTell
    <2>. HIDE DEF s, t
    <2>3. NormalizeToken(s) = NormalizeToken(t)
      <3>1. CASE Long(s)
        BY <2>2, <3>1 DEF Long, NormalizeToken
      <3>2. CASE s.kind \notin {"int", "hex"}
        BY <2>1, <3>2 DEF NormalizeToken
      <3>3. CASE Short(s)
        BY <2>2, <3>3
      <3>4. CASE s.kind \in {"int", "hex"} /\ ~Long(s) /\ ~Short(s)
        <4>. DEFINE Tokens == [kind : STRING, size : Nat, text : STRING]
        <4>1. d.message \in Seq(Tokens) /\ e.message \in Seq(Tokens)
          BY TriageAssumption DEF d, e, OCCURRENCES
        <4>. HIDE DEF Tokens
        <4>2. d.message[i] \in Tokens /\ e.message[i] \in Tokens
          BY <1>1, <4>1
        <4>3. s.size \in Nat /\ t.size \in Nat
          BY <4>2 DEF s, t, Tokens
        <4>4. s.kind = "int" /\ s.size \in 3 .. 7 /\ t.kind = "int" /\ t.size \in 3 .. 7
          BY <2>1, <2>2, <3>4, <4>3 DEF Long, Short
        <4>. QED  BY <4>4 DEF NormalizeToken
      <3>. QED  BY <3>1, <3>2, <3>3, <3>4
    <2>. QED  BY <2>3 DEF s, t
  <1>4. TopInAppFrames(d.frames) = TopInAppFrames(e.frames)
    BY <1>1 DEF TopInAppFrames
  <1>5. Deciding(d) = Deciding(e)
    BY <1>0 DEF RulesTell
  <1>6. CASE Deciding(d) = 0
    <2>1. NormalizeMessage(d.message) = NormalizeMessage(e.message)
      BY <1>3, <1>6 DEF ReadsMessage
    <2>. QED  BY <1>1, <1>4, <1>5, <1>6, <2>1 DEF FingerprintInput, d, e
  <1>7. CASE Deciding(d) # 0
    <2>. DEFINE fields == RULES[Deciding(d)].groupBy
    <2>1. ASSUME NEW k \in DOMAIN fields
          PROVE  GroupValue(d, fields[k]) = GroupValue(e, fields[k])
      <3>1. CASE fields[k][1] # "message"
        BY <1>0, <1>7, <3>1 DEF RulesTell
      <3>2. CASE fields[k][1] = "message"
        <4>1. NormalizeMessage(d.message) = NormalizeMessage(e.message)
          BY <1>3, <3>2 DEF ReadsMessage
        <4>. QED  BY <3>2, <4>1 DEF GroupValue
      <3>. QED  BY <3>1, <3>2
    <2>. QED  BY <1>5, <1>7, <2>1 DEF FingerprintInput, d, e
  <1>. QED  BY <1>6, <1>7

-----------------------------------------------------------------------------
\* The row of issue f keeps the mark of a regression in this step.
MarkKept(f) ==
    issues[f] # NoIssue =>
        /\ issues[f].regression => issues'[f].regression
        /\ (issues[f].status = "resolved" /\ issues'[f].count > issues[f].count)
              => issues'[f].regression /\ issues'[f].status = "regressed"

LEMMA MarkStep == TypeInv /\ [Next]_vars => \A f \in Fingerprints : MarkKept(f)
  <1>. SUFFICES ASSUME TypeInv, [Next]_vars, NEW f \in Fingerprints, issues[f] # NoIssue
                PROVE  MarkKept(f)
    BY DEF MarkKept
  <1>0. issues[f] \in Rows
    BY DEF TypeInv
  <1>1. ASSUME issues'[f] = issues[f]  PROVE MarkKept(f)
    <2>1. issues[f].count \in Int
      BY <1>0 DEF Rows
    <2>. QED  BY <1>1, <2>1 DEF MarkKept
  <1>2. ASSUME NEW w \in Workers, Upsert(w)  PROVE MarkKept(f)
    <2>1. PICK o \in pending :
            /\ o \in OCCURRENCES
            /\ \/ issues' = issues
               \/ issues' = [issues EXCEPT ![Fp(o)] = Upserted(issues[Fp(o)], DATA[o])]
      BY <1>2, UpsertCases
    <2>2. o \in OCCURRENCES
      BY <2>1
    <2>3. CASE f # Fp(o) \/ issues' = issues
      BY <1>1, <2>1, <2>3 DEF TypeInv
    <2>4. CASE f = Fp(o) /\ issues' # issues
      <3>1. issues'[f] = Upserted(issues[f], DATA[o])
        BY <2>1, <2>4 DEF TypeInv
      <3>2. LET r == Upserted(issues[f], DATA[o]) IN
              /\ r.status = IF issues[f].status = "resolved" THEN "regressed" ELSE issues[f].status
              /\ r.regression = (issues[f].regression \/ issues[f].status = "resolved")
        BY <1>0, <2>2, UpsertedRow
      <3>. QED  BY <3>1, <3>2 DEF MarkKept
    <2>. QED  BY <2>3, <2>4
  <1>3. ASSUME NEW g \in Fingerprints, NEW s \in {"resolved", "muted"}, Decide(g, s)
        PROVE  MarkKept(f)
    <2>1. issues' = [issues EXCEPT ![g] = [issues[g] EXCEPT !.status = s]]
      BY <1>3 DEF Decide
    <2>2. CASE f # g
      BY <1>1, <2>1, <2>2 DEF TypeInv
    <2>3. CASE f = g
      <3>1. issues'[f] = [issues[f] EXCEPT !.status = s]
        BY <2>1, <2>3 DEF TypeInv
      <3>2. issues'[f].regression = issues[f].regression
            /\ issues'[f].count = issues[f].count /\ issues[f].count \in Int
        BY <1>0, <3>1 DEF Rows
      <3>. QED  BY <3>2 DEF MarkKept
    <2>. QED  BY <2>2, <2>3
  <1>4. CASE issues' = issues
    BY <1>1, <1>4
  <1>. QED  BY <1>2, <1>3, <1>4 DEF Next, Gate, Insert, Finish, Cool, vars

\* No step of a worker, the pipeline or a user forgets a regression.
THEOREM RegressionNeverForgotten == Spec => RegressionSticks
  <1>1. TypeInv /\ [Next]_vars =>
          [\A f \in Fingerprints :
             issues[f] # NoIssue =>
                /\ issues[f].regression => issues'[f].regression
                /\ (issues[f].status = "resolved" /\ issues'[f].count > issues[f].count)
                      => issues'[f].regression /\ issues'[f].status = "regressed"]_vars
    BY MarkStep DEF MarkKept
  <1>. QED  BY <1>1, TypeInit, TypeNext, PTL DEF Spec, RegressionSticks

-----------------------------------------------------------------------------
\* For any occurrences, rules and number of workers: two occurrences of one bug are one
\* issue, with one live run, unless S2 tells them apart by a number it does not replace
\* alike, or the project's rules do (fingerprint.py:65-67, 149).
THEOREM BugRunsOnce == Spec => []OneRunPerBug
  <1>1. \A o, p \in OCCURRENCES : Alike[o][p] => Fp(o) = Fp(p)
    BY SameInput DEF Fp, Grouped, Input
  <1>2. TypeInv /\ LiveOnce => OneRunPerBug
    BY <1>1 DEF TypeInv, LiveOnce, OneRunPerBug
  <1>3. Init => LiveOnce
    BY DEF Init, LiveOnce
  <1>. QED  BY <1>2, <1>3, TypeInit, TypeNext, LiveOnceNext, PTL DEF Spec
=============================================================================
