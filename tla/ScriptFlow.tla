----------------------------- MODULE ScriptFlow -----------------------------
(***************************************************************************)
(* What a tactyk-PL document means to its author: commands run in document *)
(* order, a branch to a label continues at the first command after the     *)
(* label, and an `if` with a subordinate block either enters the block or  *)
(* continues at the first command outside of it.  Nothing here knows of    *)
(* code blocks, symbols or the layout of the executable.                   *)
(***************************************************************************)
EXTENDS Naturals, Sequences

CONSTANTS None

VARIABLES
    doc,    \* the lines of the document
    line    \* line of the command being executed, 0 between two calls

LeastOr(S, otherwise) ==
    IF S = {} THEN otherwise ELSE CHOOSE m \in S : \A k \in S : m <= k

\* The first line after l that is not subordinate to l.
BlockEnd(l) ==
    LeastOr({m \in l + 1 .. Len(doc) : doc[m].depth <= doc[l].depth}, Len(doc) + 1)

InDirective(l) ==
    \E d \in 1 .. l - 1 : doc[d].op = "directive" /\ l < BlockEnd(d)

IsCommand(l) == doc[l].op \in {"plain", "goto", "if", "exit"} /\ ~InDirective(l)

\* The first command at or after line l; 0 when the document has none.
FirstFrom(l) == LeastOr({m \in l .. Len(doc) : IsCommand(m)}, 0)

LabelLines(x) ==
    {l \in 1 .. Len(doc) : x # None /\ doc[l].label = x /\ ~InDirective(l)}

\* A label may stand on the line of the command it marks.  An `if` that names no
\* label of the document takes its block.
Target(x) == {FirstFrom(l) : l \in LabelLines(x)}

Successors(l) ==
    CASE doc[l].op = "plain" -> {FirstFrom(l + 1)}
      [] doc[l].op = "goto"  -> Target(doc[l].target)
      [] doc[l].op = "if"    -> {FirstFrom(l + 1)} \cup
                                (IF Target(doc[l].target) = {}
                                 THEN {FirstFrom(BlockEnd(l))}
                                 ELSE Target(doc[l].target))
      [] OTHER               -> {}

-----------------------------------------------------------------------------

Init == line = 0

\* The host or another program calls a function, that is a label.
Call ==
    /\ line = 0
    /\ \E l \in 1 .. Len(doc) :
          doc[l].label # None /\ line' \in Target(doc[l].label) \ {0}
    /\ UNCHANGED doc

Step ==
    /\ line # 0
    /\ line' \in Successors(line) \ {0}
    /\ UNCHANGED doc

Stop ==
    /\ line # 0
    /\ doc[line].op = "exit"
    /\ line' = 0
    /\ UNCHANGED doc

Next == Call \/ Step \/ Stop

Spec == Init /\ [][Next]_<<doc, line>>

=============================================================================
