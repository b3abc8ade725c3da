------------------------------- MODULE Ranking -------------------------------
(***************************************************************************)
(* The end of S5 (worker/pipeline/retrieve/ranking.py, quality.py): every  *)
(* candidate gets a priority and a relevance, one entry for a file stays,  *)
(* and files, history and tests are admitted until the budget is spent.    *)
(* Relevance is the product of integers (weight and proximity in           *)
(* hundredths and tenths, recency in days left of 90); the score is in     *)
(* units of 1/30000.                                                       *)
(***************************************************************************)
EXTENDS Sources

CONSTANTS BUDGET,     \* TOKEN_BUDGET
          MINFILES,   \* MIN_ADMITTED_FILES
          MINTOKENS   \* MIN_ADMITTED_IN_APP_TOKENS

ASSUME BudgetAssumption == BUDGET \in Nat

Weight(strategy) == IF strategy = "frame_direct" THEN 100 ELSE 85

\* The failure point's id is built from the path S4 guessed.
FailureId(u) ==
    IF u.failure = None \/ u.failure.path = None \/ u.failure.function = None THEN None
    ELSE <<u.failure.path, u.failure.function>>
EntryId(u) == IF u.entry = None THEN None ELSE u.entry.handler

\* The priorities a path can claim; the lowest wins.
Claims(edges, u, path) ==
    (IF FailureId(u) # None /\ FailureId(u)[1] = path THEN {1} ELSE {})
    \cup (IF EntryId(u) # None /\ EntryId(u)[1] = path THEN {2} ELSE {})
    \cup {CASE e.kind = "calls" /\ e.source = FailureId(u) -> 3
            [] e.kind = "references" /\ e.source = FailureId(u) -> 4
            [] OTHER -> 5 :
            e \in {d \in edges : \/ d.source = FailureId(u) /\ d.target[1] = path
                                 \/ d.kind = "calls" /\ d.source # FailureId(u)
                                       /\ d.target = FailureId(u) /\ d.source[1] = path}}

Lowest(S, default) == IF S = {} THEN default ELSE CHOOSE n \in S : \A k \in S : n <= k

Proximity(priority) == IF priority = 1 THEN 10 ELSE 8

Recency(age) == IF age = None THEN 90 ELSE IF age > 90 THEN 0 ELSE 90 - age

SymbolOverlap(item, symbols) ==
    Cardinality({i \in DOMAIN symbols : \E q \in item.symbols : q.name = symbols[i]})

\* The age is that of the blame commit, filed under the path S4 guessed.
RankFile(item, edges, u, history) ==
    LET priority == Lowest(Claims(edges, u, item.path), 3)
        age == IF history.blame # None /\ u.failure # None /\ u.failure.path = item.path
               THEN history.blame.age ELSE None IN
    [item |-> item, priority |-> priority,
     relevance |-> Weight(item.strategy) * Recency(age) * Proximity(priority)
                   * (100 + 15 * SymbolOverlap(item, u.symbols)),
     tokens |-> EstimateTokens(AT[item.path], item.window)]

\* Mutant: priorities are forgotten.
Better_Relevance(a, b) == a.relevance > b.relevance

Better(a, b) == \/ a.priority < b.priority
                \/ a.priority = b.priority /\ a.relevance > b.relevance

\* One entry for a path: the best, the first of equals.
Dedup(ranked) ==
    {ranked[i] : i \in {k \in DOMAIN ranked :
        \A j \in DOMAIN ranked : ranked[j].item.path = ranked[k].item.path =>
            ~Better(ranked[j], ranked[k]) /\ (j < k => Better(ranked[k], ranked[j]))}}

\* Best first; paths decide between equals.
Before(a, b) == \/ Better(a, b)
                \/ ~Better(b, a) /\ Position(a.item.path) < Position(b.item.path)

InOrder(S) ==
    [k \in 1 .. Cardinality(S) |-> CHOOSE r \in S : Cardinality({q \in S : Before(q, r)}) = k - 1]

Tokens(s) == Total([i \in DOMAIN s |-> s[i].tokens])

\* Mutant: the item that reaches the limit is the last one.
Fits_Past(used, x) == used <= BUDGET

Fits(used, x) == used + x.tokens <= BUDGET

\* The forms an item may be taken in are tried in turn; what does not fit is passed over,
\* and something smaller may still fit.
Take(acc, forms) ==
    LET fitting == {i \in DOMAIN forms : Fits(acc.used, forms[i])}
        x == forms[Nth(fitting, 1)] IN
    IF fitting = {} THEN acc ELSE [used |-> acc.used + x.tokens, found |-> Append(acc.found, x)]

TakenUpTo(items, used) ==
    LET acc[n \in 0 .. Len(items)] ==
            IF n = 0 THEN [used |-> used, found |-> <<>>] ELSE Take(acc[n - 1], items[n])
    IN  acc

Taken(items, used) == TakenUpTo(items, used)[Len(items)]

\* A file is taken whole.
Admit(ranked) == Taken([i \in DOMAIN ranked |-> <<ranked[i]>>], 0).found

---------------------------------------------------------------------------
\* History whole or not at all; a test in full, else its signatures.

NoHistory == [blame |-> None, recent |-> <<>>, diff |-> None]

HistoryTokens(history) ==
    Tokens(history.recent) + (IF history.diff = None THEN 0 ELSE Cardinality(history.diff) + 20)

AdmitTests(tests, used) ==
    Taken([i \in DOMAIN tests |-> <<tests[i], [tests[i] EXCEPT !.tokens = tests[i].signatures]>>], used)

---------------------------------------------------------------------------
\* quality.py

Saturating(count) == IF count > 3 THEN 3 ELSE count

ComputeScore(s) ==
    LET score == (IF s.failureResolved THEN 9000 ELSE 0) + (IF s.entryResolved THEN 4500 ELSE 0)
                 + 2000 * Saturating(s.callees) + 1000 * Saturating(s.callers)
                 + (IF s.hasTests THEN 4500 ELSE 0) + (IF s.hasDiff THEN 3000 ELSE 0)
        penalty == 1500 * (IF s.unresolved > 4 THEN 4 ELSE s.unresolved) IN
    IF score < penalty THEN 0 ELSE score - penalty

---------------------------------------------------------------------------
BuildContextBundle(files, graph, history, tests, u) ==
    LET ranked == [i \in DOMAIN files |-> RankFile(files[i], graph.edges, u, history)]
        admitted == Admit(InOrder(Dedup(ranked)))
        paths == {admitted[i].item.path : i \in DOMAIN admitted}
        inApp == Picked(admitted, {i \in DOMAIN admitted : admitted[i].priority <= 4})
        keepHistory == Tokens(admitted) + HistoryTokens(history) <= BUDGET
        withTests == AdmitTests(tests, Tokens(admitted)
                                       + (IF keepHistory THEN HistoryTokens(history) ELSE 0))
        claimed == UNION {{e.source[1], e.target[1]} : e \in graph.edges}
        ResolvedAs(priority) ==
            Cardinality({p \in claimed \cap paths : Lowest(Claims(graph.edges, u, p), 3) = priority
                            /\ Claims(graph.edges, u, p) # {}})
        unresolved == {i \in DOMAIN u.plan.symbols :
            \A k \in DOMAIN admitted : \A q \in admitted[k].item.symbols : q.name # u.plan.symbols[i]}
        signals == [failureResolved |-> FailureId(u) # None /\ FailureId(u)[1] \in paths,
                    entryResolved |-> EntryId(u) # None /\ EntryId(u)[1] \in paths,
                    callees |-> ResolvedAs(3), callers |-> ResolvedAs(5),
                    hasTests |-> withTests.found # <<>>, hasDiff |-> history.diff # None,
                    unresolved |-> Cardinality(unresolved)] IN
    IF Len(inApp) < MINFILES \/ Tokens(inApp) < MINTOKENS
    THEN [kind |-> "insufficient", files |-> Len(inApp), tokens |-> Tokens(inApp)]
    ELSE [kind |-> "bundle", files |-> admitted, tokens |-> withTests.used,
          nodes |-> {n \in graph.nodes : n[1] \in paths},
          edges |-> {e \in graph.edges : e.source[1] \in paths /\ e.target[1] \in paths},
          history |-> IF keepHistory THEN history ELSE NoHistory,
          tests |-> withTests.found, gaps |-> unresolved,
          score |-> ComputeScore(signals), signals |-> signals]
=============================================================================
