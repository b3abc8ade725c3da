---------------------------- MODULE Understanding ----------------------------
(***************************************************************************)
(* S4, understand (worker/pipeline/understand): the deterministic pre-parse *)
(* of an error event into frames and a retrieval plan, and the merge of a  *)
(* model's reply onto it.                                                  *)
(*                                                                         *)
(* A path is the sequence of its segments: "/" first when it is absolute,  *)
(* a drive first on Windows, the file last, without its suffix.            *)
(* Names have one case.  Confidences and priors are in hundredths.  A      *)
(* message is the symbols it names and whether it names a null or reads    *)
(* like an instruction; a type is its name and the needles found in it; a  *)
(* breadcrumb is its rank and its distance to the error in milliseconds (a *)
(* large one when it has no time).  The list of dropped claims, the notes  *)
(* and the language are left out.                                          *)
(***************************************************************************)
EXTENDS Integers, FiniteSets, SequencesExt

CONSTANTS MAPPINGS,        \* configured path mappings: a set of <<source, target>>
          PREFIXES,        \* _HEURISTIC_PREFIXES
          BYTYPE,          \* _BY_TYPE
          BYSUBSTRING,     \* _BY_TYPE_SUBSTRING: the families, in order
          MAXPLANITEMS,    \* MAX_PLAN_ITEMS
          MAXHYPOTHESES,   \* MAX_HYPOTHESES
          None

Configured == 95
Heuristic == 80
Unresolved == 30
Floor == 50

IsList(s) == s \in Seq(Range(s))

ASSUME BoundsAssumption == MAXPLANITEMS \in Nat /\ MAXHYPOTHESES \in Nat \ {0}

\* Paths are lists of segments.
ASSUME MappingAssumption ==
    /\ \A m \in MAPPINGS : IsList(m[1]) /\ IsList(m[2])
    /\ \A q \in PREFIXES : IsList(q)

\* The k-th of a set of positions, and what a list has at them, in its order.
Nth(W, k) == CHOOSE i \in W : Cardinality({j \in W : j < i}) = k - 1
Picked(s, W) == [k \in 1 .. Cardinality(W) |-> s[Nth(W, k)]]

\* What is there, and each thing once, in order of first mention.
Present(s) == Picked(s, {i \in DOMAIN s : s[i] # None})
Distinct(s) == Picked(s, {i \in DOMAIN s : \A j \in 1 .. i - 1 : s[j] # s[i]})

\* The sums of what a list of numbers begins with; of all of it.
Sums(s) ==
    LET sum[n \in 0 .. Len(s)] == IF n = 0 THEN 0 ELSE sum[n - 1] + s[n]
    IN  sum
Total(s) == Sums(s)[Len(s)]

Vendored == {"site-packages", "dist-packages", "node_modules", "vendor", ".venv", "venv", ".tox"}
Absolute(p) == p[1] = "/"
Drive(p) == p[1] = "C:"
Pseudo(p) == p = <<>> \/ p = <<"<string>">>

---------------------------------------------------------------------------
\* frames.py

\* Of the stdlib, "/usr/lib/", "/usr/local/lib/", or "/lib/python" with any version.
Interpreters == {"python", "python3.12"}
Stdlib(p) ==
    \E i \in 2 .. Len(p) - 1 :
        \/ p[i] = "lib" /\ p[i + 1] \in Interpreters
        \/ \E d \in {<<"usr", "lib">>, <<"usr", "local", "lib">>} :
              i + Len(d) <= Len(p) /\ SubSeq(p, i, i + Len(d) - 1) = d

\* A marker is "/vendor/": a directory with something before it.
IsInApp(p) ==
    /\ ~Pseudo(p) /\ ~Stdlib(p)
    /\ \A i \in 2 .. Len(p) - 1 : p[i] \notin Vendored

Resolved(path, confidence) == [path |-> path, confidence |-> confidence]

Rest(p, prefix) == SubSeq(p, Len(prefix) + 1, Len(p))
Longest(S) == CHOOSE s \in S : \A t \in S : Len(t) <= Len(s)

\* Steps 1 and 2 of the cascade: no access to the repository.
ResolvePath(p) ==
    LET sources == {m[1] : m \in {n \in MAPPINGS : IsPrefix(n[1], p)}}
        prefixes == {q \in PREFIXES : IsPrefix(q, p)}
        apps == {i \in 2 .. Len(p) - 1 : p[i] = "app"} IN
    CASE Pseudo(p) -> Resolved(None, Unresolved)
      [] ~Pseudo(p) /\ sources # {} ->
            LET m == CHOOSE n \in MAPPINGS : n[1] = Longest(sources) IN
            Resolved(m[2] \o Rest(p, m[1]), Configured)
      [] ~Pseudo(p) /\ sources = {} /\ prefixes # {} ->
            Resolved(Rest(p, Longest(prefixes)), Heuristic)
      [] OTHER ->
            CASE Absolute(p) /\ Len(p) > 3 /\ p[2] = "home" -> Resolved(SubSeq(p, 4, Len(p)), Heuristic)
              [] Drive(p) /\ apps # {} ->
                    Resolved(SubSeq(p, 1 + CHOOSE i \in apps : \A j \in apps : i <= j, Len(p)), Heuristic)
              [] ~Absolute(p) /\ ~Drive(p) -> Resolved(p, Heuristic)
              [] OTHER -> Resolved(None, Unresolved)

\* in_app is computed, and the payload may only demote.
InApp(raw) == IsInApp(raw.path) /\ raw.claimed

\* The reported frames, or those of the traceback, which is outermost first.
RawFrames(error) == IF error.frames # <<>> THEN error.frames ELSE Reverse(error.trace)

ExtractFrames(error) ==
    LET raw == RawFrames(error) IN
    [i \in DOMAIN raw |->
        LET r == IF InApp(raw[i]) THEN ResolvePath(raw[i].path) ELSE Resolved(None, 0) IN
        [raw |-> raw[i].path, path |-> r.path, confidence |-> r.confidence,
         line |-> raw[i].line, function |-> raw[i].function, inApp |-> InApp(raw[i]),
         locals |-> raw[i].locals, nulls |-> raw[i].nulls]]

---------------------------------------------------------------------------
\* plan.py and taxonomy.py

Own(frames) == Picked(frames, {i \in DOMAIN frames : frames[i].inApp})

FailurePoint(frames) ==
    IF Own(frames) = <<>> THEN None
    ELSE LET f == Own(frames)[1] IN [path |-> f.path, function |-> f.function, line |-> f.line]

\* The handler of the outermost frame of the application, when it is known.
Handler(frames) ==
    LET f == Last(Own(frames)) IN
    IF Own(frames) = <<>> \/ f.path = None \/ f.function = None THEN None
    ELSE <<f.path, f.function>>

EntryPoint(frames, route) ==
    IF route = None /\ Handler(frames) = None THEN None
    ELSE [type |-> IF route = None THEN "unknown" ELSE "http_route", handler |-> Handler(frames)]

\* The failure point's function first, the entry point's last.
ImplicatedSymbols(frames, named) ==
    LET own == Own(frames) IN
    Distinct(Present(
        IF own = <<>> THEN named
        ELSE <<own[1].function>> \o own[1].locals \o named
             \o [i \in 1 .. Len(own) - 1 |-> own[i + 1].function]))

\* The highest level, then the smallest gap, then the latest; never one
\* recorded after the error.
SelectBreadcrumb(crumbs) ==
    LET before == {i \in DOMAIN crumbs : crumbs[i].gap >= 0}
        Better(i, j) == \/ crumbs[i].rank > crumbs[j].rank
                        \/ crumbs[i].rank = crumbs[j].rank /\ crumbs[i].gap < crumbs[j].gap
                        \/ crumbs[i].rank = crumbs[j].rank /\ crumbs[i].gap = crumbs[j].gap /\ i > j IN
    IF before = {} THEN None
    ELSE CHOOSE i \in before : \A j \in before \ {i} : Better(i, j)

Families == {"null_undefined", "type_mismatch", "key_index", "integration", "data_db",
             "concurrency", "resource", "auth", "serialization", "unclassified"}

\* A null in the message overrides the type; then the name, then a needle.
Classify(error) ==
    CASE error.namesNull -> "null_undefined"
      [] ~error.namesNull /\ error.type \in DOMAIN BYTYPE -> BYTYPE[error.type]
      [] ~error.namesNull /\ error.type \notin DOMAIN BYTYPE /\ error.needles # {} ->
            BYSUBSTRING[CHOOSE i \in error.needles : \A j \in error.needles : i <= j]
      [] OTHER -> "unclassified"

SemanticQueries(family, failure, nulls) ==
    Distinct([i \in 1 .. (IF Len(nulls) < 2 THEN Len(nulls) ELSE 2) |-> <<"produced", nulls[i]>>]
             \o (IF failure = None \/ failure.function = None THEN <<>>
                 ELSE << <<"callers", failure.function>> >>)
             \o << <<"cause", family>> >>)

BuildPlan(frames, family, symbols, crumbs) ==
    LET own == Own(frames)  failure == FailurePoint(frames) IN
    [mustFetch |-> Distinct(Present([i \in DOMAIN own |-> own[i].path])),
     symbols |-> symbols,
     queries |-> SemanticQueries(family, failure, IF own = <<>> THEN <<>> ELSE own[1].nulls),
     history |-> IF failure = None \/ failure.path = None THEN <<>> ELSE <<failure.path>>,
     tests |-> IF failure = None \/ failure.function = None THEN <<>> ELSE <<failure.function>>,
     signal |-> SelectBreadcrumb(crumbs)]

---------------------------------------------------------------------------
\* stage.py: step 1, everything knowable without a model.

Flags(event, frames) ==
    {"deterministic_only"}
    \cup (IF frames = <<>> /\ ~event.error.text THEN {"no_stack_trace"} ELSE {})
    \cup (IF Own(frames) = <<>> THEN {"no_in_app_frames"} ELSE {})
    \cup (IF \A i \in DOMAIN frames : frames[i].inApp => frames[i].confidence < Floor
          THEN {"low_frame_confidence"} ELSE {})
    \cup (IF event.suspicious THEN {"suspicious_content_detected"} ELSE {})

Preparse(event) ==
    LET frames == ExtractFrames(event.error)
        family == Classify(event.error)
        symbols == ImplicatedSymbols(frames, event.error.named) IN
    [family |-> family, frames |-> frames,
     failure |-> FailurePoint(frames), entry |-> EntryPoint(frames, event.route),
     symbols |-> symbols, hypotheses |-> <<>>,
     plan |-> BuildPlan(frames, family, symbols, event.crumbs),
     confidence |-> 50, flags |-> Flags(event, frames)]

---------------------------------------------------------------------------
\* validate.py: step 3, the merge of a reply.

\* Shape only: no anchor, no traversal, no drive, nothing vendored.
PlausiblePath(p) ==
    /\ p # <<>> /\ ~Absolute(p) /\ ~Drive(p)
    /\ \A i \in DOMAIN p : p[i] \notin Vendored \cup {".."}

Cut(s) == SubSeq(s, 1, IF Len(s) < MAXPLANITEMS THEN Len(s) ELSE MAXPLANITEMS)

\* What the model adds goes behind, without what is there; the list is then cut.
Merge(base, extra) == LET more == Distinct(extra) IN
    Cut(base \o Picked(more, {i \in DOMAIN more : ~Contains(base, more[i])}))

\* Only what is plausible is added.  A name that is no identifier and a query that is too
\* long are None here.
Plausible(s) == Picked(s, {i \in DOMAIN s : PlausiblePath(s[i])})

MergePlan(base, proposed) ==
    IF proposed = None THEN base
    ELSE [mustFetch |-> Merge(base.mustFetch, Plausible(proposed.mustFetch)),
          symbols |-> Merge(base.symbols, Present(proposed.symbols)),
          queries |-> Merge(base.queries, Present(proposed.queries)),
          history |-> Merge(base.history, Plausible(proposed.history)),
          tests |-> Merge(base.tests, Present(proposed.tests)),
          signal |-> IF base.signal # None THEN base.signal ELSE proposed.signal]

Clamp(c) == IF c < 0 THEN 0 ELSE IF c > 100 THEN 100 ELSE c

RealFrames(claim, count) == \A i \in claim.frames : i < count

\* A hypothesis is kept while there is room for it: priors add up to at most one; the
\* tail is dropped, never rescaled.
Keep(acc, h, count) ==
    IF /\ RealFrames(h, count) /\ h.prior \in 0 .. 100
       /\ acc.total + h.prior <= 100
       /\ Len(acc.kept) < MAXHYPOTHESES
    THEN [kept |-> Append(acc.kept, h), total |-> acc.total + h.prior]
    ELSE acc

KeptUpTo(proposed, count) ==
    LET acc[n \in 0 .. Len(proposed)] ==
            IF n = 0 THEN [kept |-> <<>>, total |-> 0] ELSE Keep(acc[n - 1], proposed[n], count)
    IN  acc

Hypotheses(proposed, count) == KeptUpTo(proposed, count)[Len(proposed)].kept

\* Mutant: the model's confidence is taken.
Lowered_Taken(frame, index, proposed) ==
    IF proposed = None \/ proposed.index # index THEN frame
    ELSE [frame EXCEPT !.confidence = proposed.confidence]

\* Downwards only, in range, and for a frame that exists.
Lowered(frame, index, proposed) ==
    IF proposed = None \/ proposed.index # index THEN frame
    ELSE [frame EXCEPT !.confidence =
            IF proposed.confidence \in 0 .. 100 /\ proposed.confidence < @ THEN proposed.confidence ELSE @]

ApplyExtraction(base, reply) ==
    [base EXCEPT
        !.frames = [i \in DOMAIN @ |-> Lowered(@[i], i - 1, reply.frame)],
        !.plan = MergePlan(@, reply.plan),
        !.hypotheses = Hypotheses(reply.hypotheses, Len(base.frames)),
        !.family = IF reply.family \in Families THEN reply.family ELSE @,
        !.symbols = Merge(@, Present(reply.symbols)),
        !.confidence = IF reply.confidence = None THEN @ ELSE Clamp(reply.confidence),
        !.flags = @ \ {"deterministic_only"}]

Understood(event, reply) ==
    IF reply = None THEN Preparse(event) ELSE ApplyExtraction(Preparse(event), reply)
=============================================================================
