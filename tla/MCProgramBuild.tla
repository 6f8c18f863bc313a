--------------------------- MODULE MCProgramBuild ---------------------------
(* Documents for ProgramBuild: every well-formed one of up to MaxLines lines, *)
(* and some longer ones.                                                      *)
EXTENDS ProgramBuild

CONSTANTS A, B, MaxLines, LabelBlockAfterIf

MCLabel == {A, B}

Line(d, x, o, t) == [depth |-> d, label |-> x, op |-> o, target |-> t]

Lines ==
    {Line(d, x, "none", None) : d \in 0 .. 2, x \in {A, B}}
    \cup {Line(d, x, o, None) : d \in 0 .. 2, x \in {A, None}, o \in {"plain", "if"}}
    \cup {Line(d, None, o, None) : d \in 0 .. 2, o \in {"skip", "directive", "exit"}}
    \cup {Line(d, None, o, A) : d \in 0 .. 1, o \in {"goto", "if"}}
    \cup {Line(0, None, "goto", B), Line(0, None, "unknown", None)}

\* stratify accepts a line that is one level deeper or returns to an open level.
Indented(d) ==
    /\ d[1].depth = 0
    /\ \A l \in 2 .. Len(d) : d[l].depth <= d[l - 1].depth + 1

\* A label with a block of its own where the last command before it is an `if`
\* that may take a block: on the first line of its block, or in place of one.
LabelBlock(d) ==
    \E i, l \in 1 .. Len(d) - 1 :
        /\ i < l
        /\ d[l].op = "none" /\ d[l + 1].depth > d[l].depth
        /\ d[i].op = "if" /\ \A k \in i + 1 .. l - 1 : d[k].op \in {"none", "directive"}

\* The last line is a command that control does not run out of, and not the
\* content of a directive.
Closed(d) ==
    /\ d[Len(d)].op \in {"exit", "goto", "unknown"}
    /\ \A l \in 1 .. Len(d) : d[l].op = "directive" =>
          \E m \in l + 1 .. Len(d) : d[m].depth <= d[l].depth

Short == UNION {{d \in [1 .. n -> Lines] : Indented(d) /\ Closed(d)} : n \in 1 .. MaxLines}

\* if / label / plain, exit below it / plain / exit: the label has a block.
Nested ==
    <<Line(0, A, "if", None), Line(1, B, "none", None), Line(2, None, "plain", None),
      Line(1, None, "plain", None), Line(0, None, "exit", None)>>

\* Two blocks that close on the same command, with skips in between.
TwoLevels ==
    <<Line(0, A, "none", None), Line(0, None, "if", None), Line(1, None, "skip", None),
      Line(1, None, "if", None), Line(2, None, "plain", None), Line(0, B, "skip", None),
      Line(0, None, "exit", None)>>

\* One level more than MaxCodeblockNestLevel.
TooDeep ==
    <<Line(0, A, "plain", None), Line(1, None, "plain", None), Line(2, None, "plain", None),
      Line(3, None, "exit", None), Line(0, None, "exit", None)>>

Documents ==
    {d \in Short \cup {Nested, TwoLevels, TooDeep} : LabelBlock(d) => LabelBlockAfterIf}

\* A document without a command, which the shuffle does not survive.
NoCommand == [doc |-> <<Line(0, A, "none", None)>>, randomize |-> TRUE]

MCInputs == [doc : Documents, randomize : BOOLEAN] \cup {NoCommand}
=============================================================================
