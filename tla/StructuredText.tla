--------------------------- MODULE StructuredText ---------------------------
(***************************************************************************)
(* How a document of indented lines becomes a forest: every line has a     *)
(* next line at its own level and a first line below it.  A line is a      *)
(* record [ind, tok]: the leading spaces and the tokens after them.        *)
(***************************************************************************)
EXTENDS Integers, Sequences, SequencesExt

CONSTANTS MaxIndent \* db_stack has 256 slots

ASSUME IndentAssumption == MaxIndent \in Nat

Nil     == 0  \* NULL
Garbage == -1 \* never written

\* Lines without tokens and comments are dropped.
Kept(lines, l) == IF l.tok = <<>> \/ l.tok[1] = "#" THEN lines ELSE Append(lines, l)
RemoveBlanks(text) == FoldLeft(Kept, <<>>, text)

\* Mutant: the slots that are left stay where they were.
NothingUnwound(s, ind) == s.slot

\* A slot of db_stack is garbage until it is written, and NULL once unwound.
\* A line goes after the line in the slot of its level, or below the line
\* directly before it when it is deeper than that.
Unwound(s, ind) ==
    [l \in DOMAIN s.slot |-> IF ind < l /\ l <= s.level THEN Nil ELSE s.slot[l]]

Peer(s, ind) == Unwound(s, ind)[ind]

Place(s, line) ==
    LET n == s.last + 1
        ind == line.ind
    IN  IF s.fate # "tree" THEN s
        ELSE IF ind > s.level
        THEN [s EXCEPT !.child[s.last] = n, !.slot[ind] = n, !.level = ind, !.last = n]
        ELSE IF Peer(s, ind) = Nil     THEN [s EXCEPT !.fate = "rejected"]
        ELSE IF Peer(s, ind) = Garbage THEN [s EXCEPT !.fate = "undefined"]
        ELSE [s EXCEPT !.next[Peer(s, ind)] = n, !.level = ind, !.last = n,
                       !.slot = [Unwound(s, ind) EXCEPT ![ind] = n]]

\* The second line is read before anything asks whether there is one.
Stratify(lines) ==
    LET nodes == 1 .. Len(lines)
        start == [level |-> lines[1].ind, last |-> 1, fate |-> "tree",
                  next |-> [n \in nodes |-> Nil], child |-> [n \in nodes |-> Nil],
                  slot |-> [l \in 0 .. MaxIndent |-> IF l = lines[1].ind THEN 1 ELSE Garbage]]
    IN  IF Len(lines) = 1 THEN [start EXCEPT !.fate = "crashed"]
        ELSE FoldLeft(Place, start, Tail(lines))

-----------------------------------------------------------------------------
(* What the indentation means to the author of a document.                  *)

\* The lines that a line is below of.
Enclosing(lines, n) ==
    {m \in 1 .. n - 1 : \A k \in m + 1 .. n : lines[k].ind > lines[m].ind}

SiblingOf(lines, m, n) ==
    /\ m < n /\ lines[m].ind = lines[n].ind
    /\ Enclosing(lines, m) = Enclosing(lines, n)
    /\ \A k \in m + 1 .. n - 1 : lines[k].ind > lines[n].ind

\* Every line is below the line before it or continues a level that is open.
WellIndented(lines) ==
    \A n \in 2 .. Len(lines) :
        \/ lines[n].ind > lines[n - 1].ind
        \/ \E m \in 1 .. n - 1 : SiblingOf(lines, m, n)

IsTreeOf(s, lines) ==
    \A n \in 1 .. Len(lines) :
        /\ {s.next[n]} \ {Nil} = {m \in 1 .. Len(lines) : SiblingOf(lines, n, m)}
        /\ s.child[n] = IF n < Len(lines) /\ lines[n + 1].ind > lines[n].ind THEN n + 1 ELSE Nil

=============================================================================
