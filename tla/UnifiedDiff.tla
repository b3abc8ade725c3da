---------------------------- MODULE UnifiedDiff -----------------------------
(***************************************************************************)
(* A diff that was parsed, and its two applications: against the window of *)
(* a file that was retrieved (patch/diffing.py, before the patch is        *)
(* accepted) and to whole files (gate G0).  A line is a value; a file a    *)
(* sequence of lines; the lengths in the header of a hunk are those of its *)
(* lines, as the parser sees to.                                           *)
(***************************************************************************)
EXTENDS Integers, Sequences, SequencesExt, TLC

IsList(s) == s \in Seq(Range(s))

\* What the parser makes of a text that is a diff.
IsDiff(diff) ==
    /\ IsList(diff)
    /\ \A i \in DOMAIN diff :
          /\ IsList(diff[i].hunks)
          /\ \A h \in Range(diff[i].hunks) :
                /\ h.from \in Nat /\ IsList(h.lines)
                /\ \A l \in Range(h.lines) : l.op \in {"+", "-", " "}

Added(h) == {h.lines[i].text : i \in {j \in DOMAIN h.lines : h.lines[j].op = "+"}}
Removed(h) == {h.lines[i].text : i \in {j \in DOMAIN h.lines : h.lines[j].op = "-"}}

\* The texts of the lines with one of the ops among the first n, for every n ...
TextsUpTo(h, ops) ==
    LET texts[n \in 0 .. Len(h.lines)] ==
            IF n = 0 THEN <<>>
            ELSE IF h.lines[n].op \in ops THEN Append(texts[n - 1], h.lines[n].text)
            ELSE texts[n - 1]
    IN  texts

\* ... and among all.
Texts(h, ops) == TextsUpTo(h, ops)[Len(h.lines)]

Old(h) == Texts(h, {"-", " "})
New(h) == Texts(h, {"+", " "})

Changed(f) ==
    LET count(h) == Len(SelectSeq(h.lines, LAMBDA l : l.op # " "))
    IN  FoldLeft(LAMBDA n, h : n + count(h), 0, f.hunks)

\* unidiff: a file is new when its old name is /dev/null, or when its only hunk takes
\* nothing from line 0; it is removed likewise.
IsAdded(f) == f.old = "null" \/ (Len(f.hunks) = 1 /\ f.hunks[1].from = 0 /\ Old(f.hunks[1]) = <<>>)
IsRemoved(f) == f.new = "null" \/ (Len(f.hunks) = 1 /\ f.hunks[1].to = 0 /\ New(f.hunks[1]) = <<>>)

At(lines, index, part) ==
    index >= 0 /\ index + Len(part) <= Len(lines) /\ SubSeq(lines, index + 1, index + Len(part)) = part

\* _apply_new_file()
FitsNothing(f) == \A i \in DOMAIN f.hunks : Old(f.hunks[i]) = <<>>

\* Mutant: a hunk that inserts is enough.
FitsWindow_Any(f, window, first) ==
    \E i \in DOMAIN f.hunks :
        Old(f.hunks[i]) = <<>> \/ At(window, f.hunks[i].from - first, Old(f.hunks[i]))

\* _apply_against_window(): an insertion is not looked at, and neither is the order.
FitsWindow(f, window, first) ==
    \A i \in DOMAIN f.hunks :
        Old(f.hunks[i]) = <<>> \/ At(window, f.hunks[i].from - first, Old(f.hunks[i]))

\* _apply_full_file(): one hunk on what was copied so far, NoFile once one does not match.
Step(acc, h, lines) ==
    LET index == IF Old(h) = <<>> THEN h.from ELSE h.from - 1
    IN  IF ~acc.ok \/ index < acc.cursor \/ ~At(lines, index, Old(h))
        THEN [acc EXCEPT !.ok = FALSE]
        ELSE [ok |-> TRUE, cursor |-> index + Len(Old(h)),
              out |-> acc.out \o SubSeq(lines, acc.cursor + 1, index) \o New(h)]

\* What was copied after each hunk.
Copied(f, lines) ==
    LET acc[n \in 0 .. Len(f.hunks)] ==
            IF n = 0 THEN [ok |-> TRUE, cursor |-> 0, out |-> <<>>]
            ELSE Step(acc[n - 1], f.hunks[n], lines)
    IN  acc

Whole(f, lines) ==
    LET acc == Copied(f, lines)[Len(f.hunks)]
    IN  IF acc.ok THEN [ok |-> TRUE, lines |-> acc.out \o SubSeq(lines, acc.cursor + 1, Len(lines))]
        ELSE [ok |-> FALSE, lines |-> <<>>]

\* Every section of the diff starts from the original.
Source(f, files) == IF IsAdded(f) THEN <<>> ELSE files[f.path]

Applicable(f, files) == (IsAdded(f) \/ f.path \in DOMAIN files) /\ Whole(f, Source(f, files)).ok

With(tree, path, lines) ==
    [p \in DOMAIN tree \cup {path} |-> IF p = path THEN lines ELSE tree[p]]

\* apply_diff_to_files(): one section, on what became of the files so far.
Apply(acc, f, files) ==
    IF ~acc.ok THEN acc
    ELSE IF IsRemoved(f) THEN [acc EXCEPT !.tree = Restrict(acc.tree, DOMAIN acc.tree \ {f.path})]
    ELSE IF Applicable(f, files)
    THEN [acc EXCEPT !.tree = With(acc.tree, f.path, Whole(f, Source(f, files)).lines)]
    ELSE [acc EXCEPT !.ok = FALSE]

\* ... after each section ...
PatchedUpTo(diff, files) ==
    LET acc[n \in 0 .. Len(diff)] ==
            IF n = 0 THEN [ok |-> TRUE, tree |-> files] ELSE Apply(acc[n - 1], diff[n], files)
    IN  acc

\* ... and after the last.
Patched(diff, files) == PatchedUpTo(diff, files)[Len(diff)]

=============================================================================
