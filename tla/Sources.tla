------------------------------- MODULE Sources -------------------------------
(***************************************************************************)
(* What S5 reads of a repository (worker/pipeline/retrieve: ast_index,     *)
(* import_resolution, path_resolution, windowing, tokens), over the trees  *)
(* of two revisions: AT, the one the error's release names and every fetch *)
(* is pinned to, and HEAD, the default branch that search_symbol and       *)
(* recent_commits read, since neither takes a ref (github/gateway.py).     *)
(*                                                                         *)
(* A file is its length in lines, whether it parses, its functions and     *)
(* classes with their lines, its imports, and the names its text mentions. *)
(* One line is one token.                                                  *)
(***************************************************************************)
EXTENDS Understanding

CONSTANTS AT, HEAD,   \* path -> file
          PATHS,      \* every path, sorted
          TESTNAMES,  \* stem of a test file -> the stem it tests
          NOISE,      \* _CALL_NOISE
          MARGIN,     \* CONTEXT_MARGIN
          WHOLE       \* WHOLE_FILE_LINE_THRESHOLD

TREE == DOMAIN AT

Readable(file) ==
    /\ file.lines \in Nat
    /\ IsList(file.functions) /\ IsList(file.classes) /\ IsList(file.imports)
    /\ \A f \in ToSet(file.functions) :
          f.start \in Nat /\ f.end \in Nat /\ IsList(f.calls) /\ IsList(f.types)
    /\ \A c \in ToSet(file.classes) : c.start \in Nat /\ c.end \in Nat

ASSUME TreeAssumption ==
    /\ IsList(PATHS) /\ TREE \subseteq ToSet(PATHS) /\ \A p \in TREE : IsList(p) /\ Readable(AT[p])
    /\ MARGIN \in Nat /\ WHOLE \in Nat
Position(p) == CHOOSE i \in DOMAIN PATHS : PATHS[i] = p
Sorted(S) == Picked(PATHS, {i \in DOMAIN PATHS : PATHS[i] \in S})
Dir(p) == SubSeq(p, 1, Len(p) - 1)

---------------------------------------------------------------------------
\* path_resolution.py: steps 3 and 4, with the tree at hand.

Pool(scope) == {p \in TREE : IsPrefix(scope, p)}

\* A candidate that exists; else the longest tail some file has, the
\* shallowest file of it; else the only file of that name; else none.
ResolveAgainstTree(raw, candidate, scope) ==
    LET basis == IF candidate # None THEN candidate
                 ELSE Picked(raw, {i \in DOMAIN raw : raw[i] \notin {"/", "C:"}})
        WithTail(n) == {p \in Pool(scope) : IsSuffix(SubSeq(basis, Len(basis) - n + 1, Len(basis)), p)}
        lengths == {n \in 2 .. Len(basis) : WithTail(n) # {}}
        tail == WithTail(CHOOSE n \in lengths : \A k \in lengths : k <= n)
        named == WithTail(1) IN
    CASE candidate # None /\ candidate \in Pool(scope) -> candidate
      [] ~(candidate # None /\ candidate \in Pool(scope)) /\ lengths # {} ->
            Sorted({p \in tail : \A q \in tail : Len(p) <= Len(q)})[1]
      [] ~(candidate # None /\ candidate \in Pool(scope)) /\ lengths = {} ->
            IF basis # <<>> /\ Cardinality(named) = 1 THEN CHOOSE p \in named : TRUE ELSE None

---------------------------------------------------------------------------
\* ast_index.py

Has(function, line) == function.start <= line /\ line <= function.end
Named(list, name) == Picked(list, {i \in DOMAIN list : list[i].name = name})

\* The function of that name whose lines hold this one, else the first.
FindFunction(file, name, line) ==
    LET named == Named(file.functions, name)
        around == Picked(named, {i \in DOMAIN named : line # None /\ Has(named[i], line)}) IN
    CASE around # <<>> -> around[1]
      [] around = <<>> /\ named # <<>> -> named[1]
      [] OTHER -> None

FindClass(file, name) ==
    LET named == Named(file.classes, name) IN
    IF named = <<>> THEN None ELSE named[1]

\* The function with the fewest lines among those that hold this one.
EnclosingFunction(file, line) ==
    LET around == {i \in DOMAIN file.functions : Has(file.functions[i], line)}
        Size(i) == file.functions[i].end - file.functions[i].start
        tight == Picked(file.functions, {i \in around : \A j \in around : Size(i) <= Size(j)}) IN
    IF tight = <<>> THEN None ELSE tight[1]

\* Every call but the noise; the types are those of the signature and the
\* calls that are written like one.
Calls(function) ==
    Picked(function.calls, {i \in DOMAIN function.calls : function.calls[i].name \notin NOISE})

Callees(function) ==
    LET calls == Calls(function) IN Distinct([i \in DOMAIN calls |-> calls[i].name])

TypeNames(function) ==
    LET calls == Calls(function)
        upper == Picked(calls, {i \in DOMAIN calls : calls[i].upper}) IN
    Distinct(function.types \o [i \in DOMAIN upper |-> upper[i].name])

---------------------------------------------------------------------------
\* import_resolution.py: an import names a file only if the tree has it; the
\* root package itself ("from . import x" there) is never found.

BasePackage(importing, level) ==
    LET parts == Dir(importing) IN
    CASE level <= 0 -> <<>>
      [] level > 0 /\ level - 1 > Len(parts) -> None
      [] OTHER -> SubSeq(parts, 1, Len(parts) - (level - 1))

ResolveImport(importing, imp) ==
    LET base == BasePackage(importing, imp.level)
        dir == base \o imp.module
        candidates == (IF imp.original = None THEN <<>> ELSE <<dir \o <<imp.original>> >>)
                      \o <<dir, dir \o <<"__init__">> >>
        found == Picked(candidates, {i \in DOMAIN candidates : candidates[i] \in TREE}) IN
    IF base = None \/ dir = <<>> \/ found = <<>> THEN None ELSE found[1]

---------------------------------------------------------------------------
\* windowing.py and tokens.py

Whole(file) == [lo |-> 1, hi |-> IF file.lines = 0 THEN 1 ELSE file.lines, truncated |-> FALSE]

ExtractWindow(file, center) ==
    LET lo == IF center.lo - MARGIN > 1 THEN center.lo - MARGIN ELSE 1
        hi == IF center.hi + MARGIN < file.lines THEN center.hi + MARGIN ELSE file.lines IN
    IF file.lines <= WHOLE \/ center = None \/ (lo <= 1 /\ hi >= file.lines) THEN Whole(file)
    ELSE [lo |-> lo, hi |-> hi, truncated |-> TRUE]

EstimateTokens(file, window) == IF file.lines = 0 THEN 0 ELSE window.hi - window.lo + 1

---------------------------------------------------------------------------
\* github/gateway.py: the calls that read, as the fixture answers them.

FetchFile(p) == IF p \in TREE THEN AT[p] ELSE None

\* Every file of the default branch that mentions the name, with what the
\* mention is.  Textual: a comment or a docstring is a reference too.
SearchSymbol(name) ==
    [kind \in {"function", "class", "reference"} |->
        {p \in DOMAIN HEAD :
            CASE kind = "function" -> \E i \in DOMAIN HEAD[p].functions : HEAD[p].functions[i].name = name
              [] kind = "class" -> \E i \in DOMAIN HEAD[p].classes : HEAD[p].classes[i].name = name
              [] OTHER -> name \in HEAD[p].mentions}]

LooksLikeATestPath(p) ==
    Last(p) \in DOMAIN TESTNAMES \/ \E i \in 1 .. Len(p) - 1 : p[i] = "tests"
=============================================================================
