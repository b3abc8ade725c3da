------------------------------- MODULE Triage -------------------------------
(***************************************************************************)
(* S2 and S3 over one project: the fingerprint of an error event, the      *)
(* atomic issue upsert, the severity and the investigation gate, by        *)
(* several workers at once (api/ingest/fingerprint.py, issues.py,          *)
(* triage.py).  The caller that reads the gate's inputs and inserts the    *)
(* investigation is not written yet; it is modelled from the gate's        *)
(* docstring and from the unique index investigations_one_active_per_issue *)
(* (000500_investigations.sql:59), and marked external.                    *)
(*                                                                         *)
(* A message is a sequence of tokens [kind, size, text]: kind "int" or     *)
(* "hex" for digits that stand alone, size how many, "word" for what no    *)
(* pattern touches, else the pattern that takes it ("uuid", "str", ...).   *)
(* Any other string is a sequence of its parts, so that a prefix pattern   *)
(* is a prefix.  sha256 is injective: a digest is a name of the list that  *)
(* was hashed.  Scores are in units of 1/20000.                            *)
(***************************************************************************)
EXTENDS Integers, FiniteSets, SequencesExt

CONSTANTS Workers,      \* the worker processes
          DATA,         \* the occurrences that arrive: name -> record
          RULES,        \* the project's grouping rules, in order
          CRITICALITY,  \* its endpoint criticality: <<[route, glob, value]>>
          MINIMUM,      \* min_investigation_severity
          INVESTIGATED, \* investigated_environments
          TOPFRAMES,    \* TOP_FRAMES
          QUOTA         \* the runs its plan leaves

ASSUME TriageAssumption ==
    /\ IsFiniteSet(Workers) /\ Workers # {}
    /\ IsFiniteSet(DOMAIN DATA)
    /\ \A o \in DOMAIN DATA :
         /\ DATA[o].at \in Int
         /\ DATA[o].event.message \in Seq([kind : STRING, size : Nat, text : STRING])
    /\ QUOTA \in Nat

VARIABLES pending,   \* the occurrences not taken yet
          wk,        \* what each worker holds
          issues,    \* the table: fingerprint -> row
          active,    \* the investigations of each issue in an active status
          cooling,   \* the issues investigated within the cooldown
          quota,     \* the runs left
          launched,  \* the runs started so far
          dead       \* the occurrences whose upsert raised, dead-lettered

vars == <<pending, wk, issues, active, cooling, quota, launched, dead>>

---------------------------------------------------------------------------
\* S2: the fingerprint.

Missing == <<"?">>

Token(kind) == [kind |-> kind, size |-> 0, text |-> ""]

\* Mutant: integers stay as they are.
NormalizeToken_Keeps(t) ==
    CASE t.kind \in {"int", "hex"} /\ t.size >= 8 -> Token("hex")
      [] t.kind \notin {"word", "int", "hex"} -> Token(t.kind)
      [] OTHER -> t

\* _NORMALISERS: <hex> goes before <num>, and takes long integers too.
NormalizeToken(t) ==
    CASE t.kind \in {"int", "hex"} /\ t.size >= 8 -> Token("hex")
      [] t.kind = "int" /\ t.size \in 3 .. 7 -> Token("int")
      [] t.kind \notin {"word", "int", "hex"} -> Token(t.kind)
      [] OTHER -> t

NormalizeMessage(message) == [i \in DOMAIN message |-> NormalizeToken(message[i])]

\* The application's own calls; a line number is no part of one.
Calls(frames) ==
    LET own == SelectSeq(frames, LAMBDA f: f.inApp) IN
    [i \in DOMAIN own |-> <<own[i].file, own[i].function>>]

TopInAppFrames(frames) ==
    LET own == Calls(frames) IN
    SubSeq(own, 1, IF Len(own) < TOPFRAMES THEN Len(own) ELSE TOPFRAMES)

\* _matches(): a missing field reads as "None", and as "" under a prefix.
Matches(event, match) ==
    \A field \in DOMAIN match :
        LET actual == event[field] IN
        IF match[field].star
        THEN IsPrefix(match[field].text, IF actual = Missing THEN <<>> ELSE actual)
        ELSE match[field].text = IF actual = Missing THEN <<"None">> ELSE actual

\* A frame index counts every frame, in the application or not.
GroupValue(event, field) ==
    CASE field[1] = "frames" ->
            IF field[2] < Len(event.frames) THEN <<event.frames[field[2] + 1].function>> ELSE <<>>
      [] field[1] = "message" -> NormalizeMessage(event.message)
      [] OTHER -> IF event[field[1]] = Missing THEN <<>> ELSE event[field[1]]

\* The first rule that matches decides, 0 if none does.
Deciding(event) == SelectInSeq(RULES, LAMBDA r: Matches(event, r.match))

FingerprintInput(event) ==
    LET first == Deciding(event) IN
    IF first # 0
    THEN [i \in DOMAIN RULES[first].groupBy |-> GroupValue(event, RULES[first].groupBy[i])]
    ELSE <<event.type, NormalizeMessage(event.message), TopInAppFrames(event.frames),
           IF event.route = Missing THEN <<>> ELSE event.route>>

OCCURRENCES == DOMAIN DATA
Input == [o \in OCCURRENCES |-> FingerprintInput(DATA[o].event)]

\* compute_fingerprint(): one value for each list that is hashed.
Digest(input) == CHOOSE o \in OCCURRENCES : Input[o] = input
Grouped == [o \in OCCURRENCES |-> Digest(Input[o])]
Fp(o) == Grouped[o]
Fingerprints == {Fp(o) : o \in OCCURRENCES}

---------------------------------------------------------------------------
\* S2: the row an upsert leaves.

NoIssue == [count |-> 0]

\* Mutant: last_seen is the last one to arrive.
Upserted_Rewinds(row, o) ==
    IF row = NoIssue
    THEN [count |-> 1, first |-> o.at, last |-> o.at, status |-> "open",
          regression |-> FALSE, environments |-> {o.environment}, releases |-> {o.release}]
    ELSE [row EXCEPT !.count = @ + 1, !.last = o.at,
            !.status = IF @ = "resolved" THEN "regressed" ELSE @,
            !.regression = @ \/ row.status = "resolved",
            !.environments = @ \cup {o.environment},
            !.releases = (@ \cup {o.release}) \ {Missing}]

\* Mutant: a resolved issue is opened again.
Upserted_Reopens(row, o) ==
    IF row = NoIssue
    THEN [count |-> 1, first |-> o.at, last |-> o.at, status |-> "open",
          regression |-> FALSE, environments |-> {o.environment}, releases |-> {o.release}]
    ELSE [row EXCEPT !.count = @ + 1, !.last = IF o.at > @ THEN o.at ELSE @,
            !.status = IF @ = "resolved" THEN "open" ELSE @,
            !.environments = @ \cup {o.environment},
            !.releases = (@ \cup {o.release}) \ {Missing}]

Upserted(row, o) ==
    IF row = NoIssue
    THEN [count |-> 1, first |-> o.at, last |-> o.at, status |-> "open",
          regression |-> FALSE, environments |-> {o.environment}, releases |-> {o.release}]
    ELSE [row EXCEPT
            !.count = @ + 1,
            !.last = IF o.at > @ THEN o.at ELSE @,
            !.status = IF @ = "resolved" THEN "regressed" ELSE @,
            !.regression = @ \/ row.status = "resolved",
            !.environments = @ \cup {o.environment},
            !.releases = (@ \cup {o.release}) \ {Missing}]

\* array_agg of no release is NULL, and affected_releases is "not null": an update
\* that knows of no release raises.  (An insert stores the array of one NULL.)
Raises(row, o) == row # NoIssue /\ row.releases \cup {o.release} \subseteq {Missing}

---------------------------------------------------------------------------
\* S3: severity and gate.

Clamped(value, ceiling) == IF value < ceiling THEN value ELSE ceiling

\* An exact route, else the longest matching glob, else one half.
EndpointCriticality(route) ==
    LET hits == {i \in DOMAIN CRITICALITY :
                    CRITICALITY[i].glob /\ IsPrefix(CRITICALITY[i].route, route)}
        exact == {i \in DOMAIN CRITICALITY : ~CRITICALITY[i].glob /\ CRITICALITY[i].route = route}
        longest == {i \in hits : \A j \in hits :
                       Len(CRITICALITY[j].route) <= Len(CRITICALITY[i].route)} IN
    IF route = Missing \/ exact \cup hits = {} THEN 50
    ELSE CRITICALITY[CHOOSE i \in (IF exact # {} THEN exact ELSE longest) : TRUE].value

EnvironmentWeight(e) == CASE e = "production" -> 100 [] e = "staging" -> 40 [] OTHER -> 10

SeverityFactors(o, isNew) ==
    [rate |-> 12 * Clamped(o.rate, 500), users |-> 5 * Clamped(o.users, 1000),
     criticality |-> 40 * EndpointCriticality(o.event.route),
     environment |-> 30 * EnvironmentWeight(o.environment),
     novelty |-> IF isNew THEN 2000 ELSE 400]

Total(f) == f.rate + f.users + f.criticality + f.environment + f.novelty

\* 3, 2, 1, 0 for P0, P1, P2, P3: the position in SEVERITY_ORDER.
SeverityBand(score) ==
    CASE score >= 16000 -> 3 [] score >= 12000 -> 2 [] score >= 7000 -> 1 [] OTHER -> 0

MeetsMinimum(severity) == severity >= MINIMUM

\* Mutant: the last unit is spent twice.
EvaluateGate_Below(severity, o, seen) ==
    CASE seen.active -> "already_investigating"
      [] seen.muted -> "muted"
      [] o.environment \notin INVESTIGATED -> "environment_excluded"
      [] ~MeetsMinimum(severity) -> "below_min_severity"
      [] seen.cooling -> "cooldown_active"
      [] seen.quota < 0 -> "quota_exhausted"
      [] OTHER -> "none"

EvaluateGate(severity, o, seen) ==
    CASE seen.active -> "already_investigating"
      [] seen.muted -> "muted"
      [] o.environment \notin INVESTIGATED -> "environment_excluded"
      [] ~MeetsMinimum(severity) -> "below_min_severity"
      [] seen.cooling -> "cooldown_active"
      [] seen.quota <= 0 -> "quota_exhausted"
      [] OTHER -> "none"

Severity == [o \in OCCURRENCES, isNew \in BOOLEAN |->
                SeverityBand(Total(SeverityFactors(DATA[o], isNew)))]

TriageOf(o, isNew, seen) == EvaluateGate(Severity[o, isNew], DATA[o], seen)

---------------------------------------------------------------------------
Idle == [pc |-> "idle"]

Init ==
    /\ pending = OCCURRENCES
    /\ wk = [w \in Workers |-> Idle]
    /\ issues = [f \in Fingerprints |-> NoIssue]
    /\ active = [f \in Fingerprints |-> 0]
    /\ cooling = {}
    /\ quota = QUOTA
    /\ launched = 0
    /\ dead = {}

\* upsert_issue(): one statement; is_new_issue is (xmax = 0).  One that raises changes
\* no row: the job is retried, as it was, and after the last retry dead-lettered (03, S2).
Upsert(w) ==
    /\ wk[w].pc = "idle"
    /\ \E o \in pending :
         /\ pending' = pending \ {o}
         /\ IF Raises(issues[Fp(o)], DATA[o])
            THEN dead' = dead \cup {o} /\ UNCHANGED <<issues, wk>>
            ELSE /\ issues' = [issues EXCEPT ![Fp(o)] = Upserted(@, DATA[o])]
                 /\ wk' = [wk EXCEPT ![w] =
                             [pc |-> "triage", occ |-> o, isNew |-> issues[Fp(o)] = NoIssue]]
                 /\ UNCHANGED dead
    /\ UNCHANGED <<active, cooling, quota, launched>>

\* The gate's inputs are reads: nothing holds them until the insert.
Gate(w) ==
    /\ wk[w].pc = "triage"
    /\ LET o == wk[w].occ
           seen == [active |-> active[Fp(o)] > 0, muted |-> issues[Fp(o)].status = "muted",
                    cooling |-> Fp(o) \in cooling, quota |-> quota]
           reason == TriageOf(o, wk[w].isNew, seen) IN
       wk' = [wk EXCEPT ![w] = IF reason = "none" THEN [pc |-> "insert", occ |-> o] ELSE Idle]
    /\ UNCHANGED <<pending, issues, active, cooling, quota, launched, dead>>

\* S3 always attempts the insert; the loser of the race attaches.
Insert(w) ==
    /\ wk[w].pc = "insert"
    /\ LET o == wk[w].occ IN
       IF active[Fp(o)] > 0
       THEN UNCHANGED <<active, quota, launched>>
       ELSE /\ active' = [active EXCEPT ![Fp(o)] = @ + 1]
            /\ quota' = quota - 1
            /\ launched' = launched + 1
    /\ wk' = [wk EXCEPT ![w] = Idle]
    /\ UNCHANGED <<pending, issues, cooling, dead>>

\* What the pipeline, the clock and the users do to an issue meanwhile.
Finish(f) ==
    /\ active[f] > 0
    /\ active' = [active EXCEPT ![f] = @ - 1]
    /\ cooling' = cooling \cup {f}
    /\ UNCHANGED <<pending, wk, issues, quota, launched, dead>>

Cool(f) ==
    /\ f \in cooling
    /\ cooling' = cooling \ {f}
    /\ UNCHANGED <<pending, wk, issues, active, quota, launched, dead>>

Decide(f, status) ==
    /\ issues[f] # NoIssue
    /\ issues[f].status \notin {status, "muted"}
    /\ issues' = [issues EXCEPT ![f].status = status]
    /\ UNCHANGED <<pending, wk, active, cooling, quota, launched, dead>>

Next ==
    \/ \E w \in Workers : Upsert(w) \/ Gate(w) \/ Insert(w)
    \/ \E f \in Fingerprints :
          Finish(f) \/ Cool(f) \/ (\E s \in {"resolved", "muted"} : Decide(f, s))

Spec == Init /\ [][Next]_vars

---------------------------------------------------------------------------
Taken(f) == {o \in OCCURRENCES \ pending : Fp(o) = f}
Counted(f) == Taken(f) \ dead

\* The upsert loses nothing in a storm but for one case: count, times, environments
\* and releases are those of the occurrences taken so far, whatever their order, and a
\* late one cannot rewind last_seen (issues.py:38-58).  What is lost is an occurrence
\* without a release, of an issue that began with one.
RowsTrue ==
    \A f \in Fingerprints :
        /\ issues[f] # NoIssue =>
              /\ issues[f].count = Cardinality(Counted(f))
              /\ issues[f].environments = {DATA[o].environment : o \in Counted(f)}
              /\ issues[f].releases \ {Missing} = {DATA[o].release : o \in Counted(f)} \ {Missing}
              /\ issues[f].last \in {DATA[o].at : o \in Counted(f)}
              /\ \A o \in Counted(f) : DATA[o].at <= issues[f].last
              /\ issues[f].first \in {DATA[o].at : o \in Counted(f)}
        /\ \A o \in Taken(f) \cap dead :
              /\ DATA[o].release = Missing
              /\ \E p \in Counted(f) : DATA[p].release = Missing

\* One bug: the same type, own call path and route, and the same words around data
\* of the same kinds, whatever its line numbers and the library frames.
SameBug(d, e) ==
    /\ d.type = e.type /\ d.route = e.route
    /\ Len(d.message) = Len(e.message)
    /\ \A i \in DOMAIN d.message :
          /\ d.message[i].kind = e.message[i].kind
          /\ d.message[i].kind = "word" => d.message[i] = e.message[i]
    /\ Calls(d.frames) = Calls(e.frames)

\* What S2 makes of a number: it stays as it is when it is short (an integer of one or
\* two digits, less than eight of another), is <num>, or is <hex> from eight digits.
Short(t) == (t.kind = "int" /\ t.size < 3) \/ (t.kind = "hex" /\ t.size < 8)
Long(t) == t.kind \in {"int", "hex"} /\ t.size >= 8

\* Whether the message is part of what is hashed.
ReadsMessage(d) ==
    \/ Deciding(d) = 0
    \/ \E k \in DOMAIN RULES[Deciding(d)].groupBy : RULES[Deciding(d)].groupBy[k][1] = "message"

\* Two events of one bug that are told apart by the size or the text of a number ...
NumbersTell(d, e) ==
    /\ ReadsMessage(d)
    /\ \E i \in DOMAIN d.message :
          LET s == d.message[i]
              t == e.message[i] IN
          Short(s) # Short(t) \/ Long(s) # Long(t) \/ (Short(s) /\ s # t)

\* ... or by the project's rules: they decide by different ones, or by one that groups
\* by a field, not the message, in which they differ.
RulesTell(d, e) ==
    \/ Deciding(d) # Deciding(e)
    \/ /\ Deciding(d) # 0
       /\ \E k \in DOMAIN RULES[Deciding(d)].groupBy :
             LET field == RULES[Deciding(d)].groupBy[k] IN
             field[1] # "message" /\ GroupValue(d, field) # GroupValue(e, field)

\* Whether S2 should take two occurrences for one issue.
Alike == [o \in OCCURRENCES |-> [p \in OCCURRENCES |->
    LET d == DATA[o].event
        e == DATA[p].event IN
    SameBug(d, e) /\ ~NumbersTell(d, e) /\ ~RulesTell(d, e)]]

\* Two occurrences of one bug never make two live pipelines, and make two issues in two
\* cases only: a number of one is of another size, or short and another, and so stays or
\* is replaced by something else (fingerprint.py:65-67); or the project's own rules tell
\* them apart (fingerprint.py:149, triage.py:6-15).
OneRunPerBug ==
    /\ \A f \in Fingerprints : active[f] <= 1
    /\ \A o, p \in OCCURRENCES \ pending : Alike[o][p] => Fp(o) = Fp(p)

\* The gate reads the quota without holding it: workers that read the last
\* unit together overrun it, but never by more than the other workers
\* (triage.py:193).
QuotaOverrun == launched <= QUOTA + Cardinality(Workers) - 1

\* A regression is never forgotten: once an issue recurred after it was
\* resolved, no later occurrence or decision clears the mark.
RegressionSticks ==
    [][\A f \in Fingerprints :
         issues[f] # NoIssue =>
            /\ issues[f].regression => issues'[f].regression
            /\ (issues[f].status = "resolved" /\ issues'[f].count > issues[f].count)
                  => issues'[f].regression /\ issues'[f].status = "regressed"]_vars
=============================================================================
