------------------------------ MODULE Retrieval ------------------------------
(***************************************************************************)
(* S4 and S5 of one investigation (understand/stage.py,                    *)
(* retrieve/strategies.py): the event is understood, with a model's reply  *)
(* or without; frames are fetched first, then the call graph, the history  *)
(* and the tests by three concurrent tasks; what they found is ranked.     *)
(* Any call of the GitHub gateway may raise: asyncio.gather() then raises  *)
(* and the stage ends without a bundle.                                    *)
(***************************************************************************)
EXTENDS Ranking

CONSTANTS EVENTS,       \* the error events
          REPLIES,      \* what the model may answer
          COMMITS,      \* the history of the default branch, latest first
          BLAME,        \* path -> the commit of its failing line
          DIFF,         \* the paths of the release's diff, or None
          MAXCALLERS,   \* MAX_CALLER_CANDIDATES
          MAXCOMMITS    \* MAX_RECENT_COMMITS

Reported(f) == IsList(f.path) /\ IsList(f.locals) /\ IsList(f.nulls) /\ f.line \in Nat \cup {None}

ASSUME EventAssumption ==
    \A e \in EVENTS :
        /\ IsList(e.error.frames) /\ IsList(e.error.trace) /\ IsList(e.error.named)
        /\ \A f \in ToSet(e.error.frames) \cup ToSet(e.error.trace) : Reported(f)

ASSUME ReplyAssumption ==
    \A r \in REPLIES :
        /\ IsList(r.symbols)
        /\ IsList(r.hypotheses) /\ \A h \in ToSet(r.hypotheses) : h.frames \subseteq Nat
        /\ r.plan # None =>
              \A k \in {"mustFetch", "symbols", "queries", "history", "tests"} : IsList(r.plan[k])

ASSUME HistoryAssumption ==
    /\ IsList(COMMITS) /\ \A c \in ToSet(COMMITS) : c.tokens \in Nat
    /\ \A p \in DOMAIN BLAME : BLAME[p].age \in Nat
    /\ DIFF = None \/ IsFiniteSet(DIFF)
    /\ MAXCOMMITS \in Nat /\ MAXCALLERS \in Nat

VARIABLES event, u, files, graph, history, tests, outcome
vars == <<event, u, files, graph, history, tests, outcome>>

Item(path, strategy, window, symbols) ==
    [path |-> path, strategy |-> strategy, window |-> window, symbols |-> symbols]

DefinedWithin(file, window) ==
    IF ~file.parses THEN {}
    ELSE {[class |-> f.class, name |-> f.name] :
            f \in {g \in ToSet(file.functions) : window.lo <= g.start /\ g.start <= window.hi}}
         \cup {[class |-> None, name |-> c.name] :
            c \in {d \in ToSet(file.classes) : window.lo <= d.start /\ d.start <= window.hi}}

---------------------------------------------------------------------------
\* Strategy A: one window for a file, around all of its frames.

VerifiedPath(f) == ResolveAgainstTree(f.raw, f.path, <<>>)

FrameWindow(path, frames) ==
    LET lined == {f \in ToSet(frames) : f.inApp /\ f.line # None /\ VerifiedPath(f) = path}
        Around(f) == LET g == EnclosingFunction(AT[path], f.line) IN
                     IF ~AT[path].parses \/ g = None THEN [lo |-> f.line, hi |-> f.line]
                     ELSE [lo |-> g.start, hi |-> g.end]
        los == {Around(f).lo : f \in lined}  his == {Around(f).hi : f \in lined} IN
    ExtractWindow(AT[path],
        IF lined = {} THEN None
        ELSE [lo |-> Lowest(los, 0), hi |-> CHOOSE n \in his : \A k \in his : k <= n])

FrameFiles(frames) ==
    LET own == Own(frames)
        paths == Distinct(Present([i \in DOMAIN own |-> VerifiedPath(own[i])])) IN
    [i \in DOMAIN paths |->
        LET w == FrameWindow(paths[i], frames) IN
        Item(paths[i], "frame_direct", w, DefinedWithin(AT[paths[i]], w))]

---------------------------------------------------------------------------
\* Strategy B: what the failing function calls and names, and who calls it.

\* failure.repo_path, verified again: the path the innermost frame is at.
FailurePath(un) ==
    IF un.failure = None THEN None
    ELSE ResolveAgainstTree(Own(un.frames)[1].raw, un.failure.path, <<>>)

\* The same file, then an import, then a search: production code before
\* test stubs, then the shallowest, then the first.
ResolveDefinition(path, name, kind) ==
    LET here == IF kind = "function" THEN FindFunction(AT[path], name, None) ELSE FindClass(AT[path], name)
        all == AT[path].imports
        imports == Picked(all, {i \in DOMAIN all : /\ all[i].local = name
                                                  /\ ResolveImport(path, all[i]) # None})
        hits == SearchSymbol(name)[kind]
        production == {p \in hits : p[1] # "tests"}
        wanted == IF production # {} THEN production ELSE hits
        shallow == {p \in wanted : \A q \in wanted : Len(p) <= Len(q)} IN
    CASE here # None -> <<path, name>>
      [] here = None /\ imports # <<>> ->
            <<ResolveImport(path, imports[1]),
              IF imports[1].original # None THEN imports[1].original ELSE name>>
      [] here = None /\ imports = <<>> /\ hits # {} -> <<Sorted(shallow)[1], name>>
      [] OTHER -> None

DefinitionWindow(path, name) ==
    LET f == FindFunction(AT[path], name, None)  c == FindClass(AT[path], name) IN
    ExtractWindow(AT[path],
        CASE ~AT[path].parses -> None
          [] AT[path].parses /\ f # None -> [lo |-> f.start, hi |-> f.end]
          [] AT[path].parses /\ f = None /\ c # None -> [lo |-> c.start, hi |-> c.end]
          [] OTHER -> None)

\* What the failing function calls, then the types it names.
References(function) ==
    LET callees == Callees(function)  types == TypeNames(function) IN
    [i \in DOMAIN callees |-> [name |-> callees[i], kind |-> "function"]]
    \o [i \in DOMAIN types |-> [name |-> types[i], kind |-> "class"]]

Target(path, reference) ==
    LET target == ResolveDefinition(path, reference.name, reference.kind) IN
    IF target = None \/ FetchFile(target[1]) = None THEN None ELSE target

DefinitionItem(target) ==
    LET w == DefinitionWindow(target[1], target[2]) IN
    Item(target[1], "call_graph", w, DefinedWithin(AT[target[1]], w))

\* A file is fetched once: the window is that of the first name it defines.
Expanded(references, targets, origin) ==
    LET hits == {i \in DOMAIN references : targets[i] # None}
        first == {i \in hits : \A j \in hits : j < i => targets[j][1] # targets[i][1]} IN
    [files |-> Picked([i \in DOMAIN references |-> IF i \in first THEN DefinitionItem(targets[i]) ELSE None],
                      first),
     nodes |-> {origin} \cup {targets[i] : i \in hits},
     edges |-> {[source |-> origin, target |-> targets[i],
                 kind |-> IF references[i].kind = "class" THEN "references" ELSE "calls"] : i \in hits}]

ExpandReferences(path, references, origin) ==
    Expanded(references, [i \in DOMAIN references |-> Target(path, references[i])], origin)

\* Mutant: a file that mentions the name calls it.
ConfirmedCaller_Textual(file, name) ==
    IF file.functions = <<>> THEN None ELSE file.functions[1]

\* A mention is a caller only when a function of the file really calls it.
ConfirmedCaller(file, name) ==
    LET callers == Picked(file.functions, {i \in DOMAIN file.functions :
                                              Contains(Callees(file.functions[i]), name)}) IN
    IF ~file.parses \/ callers = <<>> THEN None ELSE callers[1]

CallerItem(p, f) ==
    Item(p, "call_graph", ExtractWindow(AT[p], [lo |-> f.start, hi |-> f.end]),
         {[class |-> f.class, name |-> f.name]})

ExpandCallers(known, failurePath, name) ==
    LET others == Sorted(SearchSymbol(name)["reference"] \ {failurePath})
        candidates == SubSeq(others, 1, IF Len(others) < MAXCALLERS THEN Len(others) ELSE MAXCALLERS)
        Caller(p) == ConfirmedCaller(AT[p], name)
        called == Picked(candidates, {i \in DOMAIN candidates :
                             FetchFile(candidates[i]) # None /\ Caller(candidates[i]) # None}) IN
    [files |-> known.files \o [i \in DOMAIN called |-> CallerItem(called[i], Caller(called[i]))],
     nodes |-> known.nodes \cup {<<called[i], Caller(called[i]).qualname>> : i \in DOMAIN called},
     edges |-> known.edges \cup {[source |-> <<called[i], Caller(called[i]).qualname>>,
                                  target |-> <<failurePath, name>>, kind |-> "calls"] : i \in DOMAIN called}]

NoGraph == [files |-> <<>>, nodes |-> {}, edges |-> {}]

CallGraphOf(un) ==
    LET path == FailurePath(un)
        origin == <<path, un.failure.function>>
        f == FindFunction(AT[path], un.failure.function, un.failure.line) IN
    CASE un.failure = None \/ un.failure.path = None \/ un.failure.function = None -> NoGraph
      [] ~(un.failure = None \/ un.failure.path = None \/ un.failure.function = None) ->
            CASE path = None -> NoGraph
              [] path # None /\ (~AT[path].parses \/ f = None) -> [NoGraph EXCEPT !.nodes = {origin}]
              [] OTHER -> ExpandCallers(ExpandReferences(path, References(f), origin),
                                        path, un.failure.function)

---------------------------------------------------------------------------
\* Strategies D and E.

MustFetch(un, frameFiles) ==
    Distinct(un.plan.mustFetch \o [i \in DOMAIN frameFiles |-> frameFiles[i].path])

\* Blame is asked of the verified path, else of the one S4 guessed.
BlameOf(un) ==
    LET path == IF FailurePath(un) # None THEN FailurePath(un) ELSE un.failure.path IN
    IF un.failure = None \/ un.failure.line = None \/ path \notin DOMAIN BLAME THEN None
    ELSE BLAME[path]

HistoryOf(un, must) ==
    LET recent == Picked(COMMITS, {k \in DOMAIN COMMITS :
                                    \E i \in DOMAIN must : must[i] \in COMMITS[k].files}) IN
    [blame |-> BlameOf(un),
     recent |-> SubSeq(recent, 1, IF Len(recent) < MAXCOMMITS THEN Len(recent) ELSE MAXCOMMITS),
     diff |-> DIFF]

\* The lines that define a function, else the first line.
Signatures(file) ==
    IF file.functions # <<>> THEN Len(file.functions) ELSE IF file.lines = 0 THEN 0 ELSE 1

\* By the convention of the name, and by the name of a symbol.
TestsOf(un, must) ==
    LET byName == {p \in TREE : Last(p) \in DOMAIN TESTNAMES
                      /\ \E i \in DOMAIN must : TESTNAMES[Last(p)] = Last(must[i])}
        bySymbol == {p \in UNION {UNION {SearchSymbol(s)[k] : k \in {"function", "class", "reference"}} :
                                   s \in ToSet(un.symbols)} : LooksLikeATestPath(p)}
        found == Sorted({p \in byName \cup bySymbol : FetchFile(p) # None}) IN
    [i \in DOMAIN found |-> [path |-> found[i], tokens |-> EstimateTokens(AT[found[i]], Whole(AT[found[i]])),
                             signatures |-> Signatures(AT[found[i]])]]

---------------------------------------------------------------------------
Init ==
    /\ event \in EVENTS
    /\ u = None /\ files = None /\ graph = None /\ history = None /\ tests = None
    /\ outcome = None

\* understand(): an extractor that is missing, fails or answers no mapping
\* leaves the pre-parse.
Understand ==
    /\ u = None
    /\ \E reply \in REPLIES \cup {None} : u' = Understood(event, reply)
    /\ UNCHANGED <<event, files, graph, history, tests, outcome>>

FrameDirect ==
    /\ u # None /\ files = None /\ outcome = None
    /\ files' = FrameFiles(u.frames)
    /\ UNCHANGED <<event, u, graph, history, tests, outcome>>

\* The three tasks of gather().
CallGraph ==
    /\ files # None /\ graph = None /\ outcome = None
    /\ graph' = CallGraphOf(u)
    /\ UNCHANGED <<event, u, files, history, tests, outcome>>

GitHistory ==
    /\ files # None /\ history = None /\ outcome = None
    /\ history' = HistoryOf(u, MustFetch(u, files))
    /\ UNCHANGED <<event, u, files, graph, tests, outcome>>

TestDiscovery ==
    /\ files # None /\ tests = None /\ outcome = None
    /\ tests' = TestsOf(u, MustFetch(u, files))
    /\ UNCHANGED <<event, u, files, graph, history, outcome>>

\* An error of the gateway that is not FileNotFound.
GatewayRaises ==
    /\ u # None /\ outcome = None
    /\ files = None \/ graph = None \/ history = None \/ tests = None
    /\ outcome' = [kind |-> "raised"]
    /\ UNCHANGED <<event, u, files, graph, history, tests>>

Rank ==
    /\ files # None /\ graph # None /\ history # None /\ tests # None /\ outcome = None
    /\ outcome' = BuildContextBundle(files \o graph.files, graph, history, tests, u)
    /\ UNCHANGED <<event, u, files, graph, history, tests>>

Next == Understand \/ FrameDirect \/ CallGraph \/ GitHistory \/ TestDiscovery \/ GatewayRaises \/ Rank
Spec == Init /\ [][Next]_vars

---------------------------------------------------------------------------
Bundled == outcome # None /\ outcome.kind = "bundle"

\* A bundle spends what it says it spends and no more than the budget, with
\* files, history and tests taken together and a test counted at the size it
\* was cut to (ranking.py build_context_bundle).
BudgetKept ==
    Bundled =>
        /\ outcome.tokens <= BUDGET
        /\ outcome.tokens = Tokens(outcome.files) + HistoryTokens(outcome.history) + Tokens(outcome.tests)

\* Whatever the model replies, what the frames proved stays: the paths, the
\* part of the plan that fits the cap and the chosen signal are kept, no
\* confidence is raised, and what is added is about frames that exist with
\* priors of at most one (validate.py apply_extraction).
ReplyNeverPoorer ==
    u # None =>
        LET base == Preparse(event) IN
        /\ Len(u.frames) = Len(base.frames)
        /\ \A i \in DOMAIN u.frames : /\ u.frames[i].path = base.frames[i].path
                                      /\ u.frames[i].confidence <= base.frames[i].confidence
        /\ \A k \in {"mustFetch", "symbols", "queries", "history", "tests"} :
              IsPrefix(Cut(base.plan[k]), u.plan[k])
        /\ base.plan.signal # None => u.plan.signal = base.plan.signal
        /\ \A i \in DOMAIN u.hypotheses : \A f \in u.hypotheses[i].frames : f \in 0 .. Len(u.frames) - 1
        /\ Total([i \in DOMAIN u.hypotheses |-> u.hypotheses[i].prior]) <= 100

\* The bundle holds nothing made up: each file is in the tree of the release,
\* once; each edge joins two of them; a caller's edge starts at a function
\* that really calls the failing one in that tree, though it was found by a
\* textual search of another revision (strategies.py _expand_callers).
RealEvidence ==
    Bundled =>
        LET paths == {outcome.files[i].item.path : i \in DOMAIN outcome.files} IN
        /\ paths \subseteq TREE /\ Cardinality(paths) = Len(outcome.files)
        /\ \A e \in outcome.edges :
              /\ {e.source[1], e.target[1]} \subseteq paths
              /\ e.source[1] # FailurePath(u) =>
                    \E f \in ToSet(AT[e.source[1]].functions) :
                        f.qualname = e.source[2] /\ Contains(Callees(f), u.failure.function)

\* What the frames and the call graph found of the failing file, when S4 named it rightly.
Candidates == files \o graph.files
FailingItems == {i \in DOMAIN Candidates : Candidates[i].path = u.failure.path}
FailingFits ==
    \A i \in FailingItems : EstimateTokens(AT[u.failure.path], Candidates[i].window) <= BUDGET

\* When S4 named the failing file rightly and none of its windows is over the budget, that
\* file is the first of the bundle, whatever is left out (03 section S5, priority 1).  But it
\* is shown by the frame's window only as long as no window the call graph found in the same
\* file defines more of the implicated symbols (ranking.py _dedup).
FailurePointKept ==
    Bundled /\ FailureId(u) # None /\ u.failure.path \in TREE /\ FailingFits =>
        LET first == outcome.files[1].item IN
        /\ first.path = u.failure.path
        /\ \/ first.strategy = "frame_direct"
           \/ \A i \in FailingItems : Candidates[i].strategy = "frame_direct" =>
                 SymbolOverlap(first, u.symbols) > SymbolOverlap(Candidates[i], u.symbols)
=============================================================================
