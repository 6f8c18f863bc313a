--------------------------- MODULE MCTestLanguage ---------------------------
(* Test scripts for TestLanguage: one per item and per pair of items, one per *)
(* sequence of commands, and every indentation of up to MaxIndented lines.    *)
EXTENDS TestExpectations

CONSTANT MaxIndented   \* lines of the documents that are only indentation

MCIntOf    == "0" :> 0 @@ "1" :> 1 @@ "2" :> 2 @@ "3" :> 3 @@ "5" :> 5 @@ "9" :> 9 @@
              "101" :> 101 @@ "-1" :> -1
MCDoubleOf == "0" :> 0 @@ "1" :> 1 @@ "1.0" :> 1
MCStringOf == "'x" :> 7
MCFunctionIndex == "MAIN" :> 0 @@ "F" :> 1
MCAddr     == "addr1" :> 1
MCProgram  == {"DEFAULT", "Q"}
MCRegister == {"rA", "rB", "rMCSI"}
MCXmm      == {"xA"}

Line(ind, tok) == [ind |-> ind, tok |-> tok]

\* Several locations at once: a full stack, tvmpush of F in DEFAULT.
Together(locations, v) ==
    [l \in locations |-> IF l[1] # "entry" THEN v
                        ELSE CASE l[3] \in {"dest-program", "src-program"} -> "DEFAULT"
                               [] l[3] = "returntarget" -> 2
                               [] OTHER -> 1]
Pushed(i) == {<<"entry", i, f>> : f \in {"dest-program", "src-program", "jumptarget", "returntarget", "src-lwcspos"}}

MCChanges ==
    {<<"reg", r>> :> 1 : r \in MCRegister}
    \cup {<<"xmm", "xA", i>> :> v : i \in {0, 2}, v \in {1, 2, 3}}
    \cup {<<"xmm", "xA", 3>> :> 1}
    \cup {<<s>> :> 1 : s \in {"lwcs-floor", "mctx-floor", "stack-lock"}}
    \cup {<<"stack-pos">> :> 0}
    \cup {<<"mem", "DEFAULT", j>> :> v : j \in {0, 5}, v \in {1, 3}}
    \cup {<<"mem", "Q", 0>> :> 1}
    \cup {<<"lwcs", i>> :> 1 : i \in {0, 2}}
    \cup {<<"stash", 0, "l">> :> v : v \in {1, 2}} \cup {<<"stash", 1, "h">> :> 1}
    \cup {<<"entry", 0, "dest-program">> :> "Q" @@ <<"entry", 0, "jumptarget">> :> 1,
          <<"entry", 0, "src-program">> :> "Q" @@ <<"entry", 0, "returntarget">> :> 2,
          <<"entry", 1, "src-lwcspos">> :> 1}
    \cup {Together({<<"lwcs", i>> : i \in 0 .. 2}, 1), Together(Pushed(0), 1), Together(Pushed(0) \cup Pushed(1), 1),
          <<"xmm", "xA", 0>> :> 7, <<"stash", 1, "l">> :> 7, <<"stash", 0, "h">> :> 1}
    \cup {<<"addr", "addr1", "base">> :> "DEFAULT" @@ <<"addr", "addr1", "bounds">> :> b @@
          <<"addr", "addr1", "pointer">> :> <<"DEFAULT", o>> : b \in {"block", "narrowed"}, o \in {0, 1}}

\* Items whose meaning the script's author can state.
Plain ==
    {<<r, "1">> : r \in MCRegister}
    \cup {<<s, "1">> : s \in {"lwcs-floor", "mctx-floor", "stack-lock"}}
    \cup {<<"stack-pos", "0">>, <<"status", "3">>, <<"status", "101">>, <<"rA", "0">>,
          <<"program", "DEFAULT">>, <<"callback", "1">>,
          <<"xA", "1.0">>, <<"xA", "f64", "0", "1.0">>, <<"xA", "f32+", "1.0", "0">>,
          <<"xA", "f32", "1.0", "0", "0", "0">>, <<"xA", "i32", "1", "0", "0", "0">>,
          <<"xA", "i64", "1", "0">>, <<"xA", "i64", "'x">>, <<"xA", "i32", "0", "0", "0", "1">>,
          <<"addr1", "m", "0">>, <<"addr1", "DEFAULT", "m", "1">>, <<"addr1", "NULL">>,
          <<"mem", "m", "0", "byte", "1">>, <<"mem", "m", "0", "float32", "1.0">>,
          <<"mem", "DEFAULT", "m", "0", "float64", "1.0">>, <<"mem", "m", "*">>,
          <<"mem", "m", "5", "word", "1">>,
          <<"lwcstack", "0", "1">>, <<"lwcstack", "0", "1", "5">>,
          <<"stash", "0", "a", "1">>, <<"stash", "0", "al", "float64", "1.0">>,
          <<"stash", "0", "a", "float80", "1.0">>, <<"stash", "ah", "1">>, <<"stash", "1", "a", "'x">>,
          <<"stash", "0", "a", "float64", "1.0">>}

\* Items that the interpreter refuses, or does not survive.
Malformed ==
    {<<"rA">>, <<"rA", "zz">>, <<"stack-lock", "-1">>, <<"program", "zz">>, <<"callback", "9">>,
     <<"callback", "zz">>, <<"arg0", "zz">>, <<"zz", "1">>, <<"xA", "i64", "1">>, <<"xA", "f64", "zz">>,
     <<"xA", "f32">>, <<"addr1", "m">>, <<"addr1", "m", "zz">>, <<"addr1", "zz", "0">>,
     <<"addr1", "m", "0", "zz", "zz">>, <<"mem", "zz">>, <<"mem", "m">>, <<"mem", "m", "zz">>,
     <<"mem", "m", "0">>, <<"mem", "m", "0", "1">>, <<"mem", "m", "0", "byte", "zz">>,
     <<"mem", "m", "0", "float32", "zz">>, <<"lwcstack", "0">>, <<"lwcstack", "zz", "1">>,
     <<"stash", "9", "a", "1">>, <<"stash", "0", "q", "1">>, <<"stash", "0", "a">>,
     <<"stash", "0", "a", "float64", "zz">>, <<"stack-entry", "zz">>}

One(tok) == <<Line(1, tok)>>

Entry(repeat) ==
    <<Line(1, <<"stack-entry", "0">> \o repeat),
      Line(2, <<"dest-program", "DEFAULT">>), Line(2, <<"src-program", "DEFAULT">>),
      Line(2, <<"jumptarget", "F">>), Line(2, <<"returntarget", "F", "1">>),
      Line(2, <<"src-lwcspos", "1">>)>>

EntryPart(lines) == <<Line(1, <<"stack-entry", "1">>)>> \o lines

Entries ==
    {Entry(<<>>), Entry(<<"2">>), EntryPart(<<Line(2, <<"src-lwcspos", "1">>)>>)}
BadEntries ==
    {EntryPart(<<Line(2, tok)>>) : tok \in
        {<<"jumptarget", "F">>, <<"returntarget">>, <<"returntarget", "zz">>, <<"src-lwcspos", "zz">>,
         <<"dest-program", "zz">>, <<"other", "1">>}}

Start == <<Line(0, <<"PROGRAM">>), Line(1, <<"text">>)>>
Run   == <<Line(0, <<"EXEC", "F">>)>>
TestOf(items) == <<Line(0, <<"TEST">>)>> \o items

Singles == {TestOf(One(tok)) : tok \in Plain \cup Malformed}
           \cup {TestOf(e) : e \in Entries \cup BadEntries} \cup {TestOf(<<>>)}

Pairs == {TestOf(One(a) \o One(b)) : a \in {<<"rA", "1">>, <<"xA", "f64", "1.0">>},
             b \in {<<"mem", "m", "0", "byte", "1">>, <<"lwcstack", "0", "1">>, <<"addr1", "m", "0">>,
                    <<"stash", "a", "1">>, <<"stack-lock", "1">>}}

ItemTexts == {Start \o Run \o t : t \in Singles \cup Pairs}
             \cup {Start \o Run \o t \o Run \o u : t \in {TestOf(<<>>), TestOf(One(<<"rA", "1">>))},
                   u \in {TestOf(<<>>), TestOf(One(<<"rB", "1">>))}}

\* Commands below an EXEC, and what may follow it.
Cmd(word) == <<Line(0, word)>>
Sub(word) == <<Line(1, word)>>
SubTest(k) == Sub(<<"TEST">>) \o <<Line(2, <<"callback", k>>)>>

Callbacks ==
    {SubTest("1"), SubTest("1") \o Sub(<<"CONTINUE">>) \o SubTest("5"),
     Sub(<<"RETURN", "1">>) \o SubTest("1") \o <<Line(2, <<"arg0", "0">>)>> \o Sub(<<"CONTINUE">>),
     Sub(<<"DATA">>) \o Sub(<<"ERROR">>), Sub(<<"EXIT">>), Sub(<<"CONTINUE">>) \o Sub(<<"RETURN", "zz">>)}

Expecting == {Run \o below : below \in Callbacks}

Controls ==
    {Run, TestOf(<<>>), TestOf(One(<<"callback", "1">>)), TestOf(One(<<"status", "3">>)),
     Cmd(<<"RESUME">>), Cmd(<<"RESUME", "zz">>), Cmd(<<"EXIT">>), Cmd(<<"RETURN", "1">>),
     Cmd(<<"ERROR">>), Cmd(<<"CONTINUE">>), Cmd(<<"XMM-DISPLAYMODE", "int32">>),
     Cmd(<<"XMM-DISPLAYMODE", "zz">>), Cmd(<<"DATA">>), Cmd(<<"zz">>),
     Cmd(<<"EXEC", "zz">>), Cmd(<<"EXEC", "zz", "F">>), Cmd(<<"EXEC", "DEFAULT", "zz">>),
     Cmd(<<"EXEC">>), Cmd(<<"PROGRAM", "Q">>) \o Sub(<<"bad">>)}

Storage ==
    {Cmd(<<"ALLOC", "m">>) \o d : d \in
        {Sub(<<"byte", "1", "2">>) \o Sub(<<"word", "3">>), Sub(<<"1">>), Sub(<<"dword", "1", "zz">>)}}
    \cup {Cmd(<<"ALLOC", "zz">>) \o Sub(<<"byte", "1">>)}

\* A second program, reached by name or by a tvm call.
Second == Cmd(<<"PROGRAM", "Q">>) \o Sub(<<"text">>)
RunQ   == Cmd(<<"EXEC", "Q", "F">>)

ControlTexts ==
    {Start \o e \o c \o d : e \in Expecting, c \in Controls, d \in Controls}
    \cup {Start \o Run \o c \o d : c \in Controls, d \in Controls}
    \cup {Start \o Run \o a \o t : a \in Storage,
             t \in {Run \o TestOf(One(<<"mem", "m", "0", "byte", "1">>)), TestOf(<<>>)}}
    \cup {c \o Start \o Run : c \in Controls \cup Storage}
    \cup {Start \o Second \o e \o t : e \in {Run, RunQ, Cmd(<<"EXEC", "DEFAULT", "F">>)},
             t \in {TestOf(One(<<"program", p>>)) : p \in MCProgram} \cup {TestOf(<<>>)}
                   \cup {Cmd(<<"RESUME", "Q">>) \o TestOf(<<>>)}}
    \cup {Start \o e : e \in Expecting}

Indentations ==
    UNION {{[i \in 1 .. n |-> Line(f[i], <<"DATA">>)] : f \in [1 .. n -> 0 .. MaxIndent]} : n \in 1 .. MaxIndented}

Commented ==
    {<<Line(1, <<"#", "zz">>)>> \o Start \o <<Line(0, <<>>)>> \o Run \o <<Line(2, <<"#">>)>> \o TestOf(<<>>)}

MCScripts ==
    {[text |-> t, changes |-> MCChanges] : t \in ItemTexts \cup Commented}
    \cup {[text |-> t, changes |-> {<<"reg", "rA">> :> 1}] : t \in ControlTexts}
    \cup {[text |-> t, changes |-> {}] : t \in Indentations}
=============================================================================
