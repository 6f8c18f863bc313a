-------------------------- MODULE TestExpectations --------------------------
(***************************************************************************)
(* What a test script means to its author, and what its verdict may        *)
(* therefore say.  The meaning of an item is written down here without the *)
(* shadow copy: a set of locations, each with a value and a tolerance.     *)
(***************************************************************************)
EXTENDS TestLanguage

Exactly(v)     == [value |-> v, within |-> PrecisionF80]
About(v, t)    == [value |-> v, within |-> t]
Accepts(e, v)  == IF e.within = PrecisionF80 THEN v = e.value
                  ELSE ApproximatelyEq(e.value, v, e.within)

XmmMeaning(item) ==
    LET x == item[1]
        values == XmmValues(item)
        wide == Form(item) \in {"f64", "i64"}
        nth(i) == IF wide THEN i \div 2 + 1 ELSE i + 1
        number(i) == IF wide /\ i % 2 = 1 THEN 0
                     ELSE IF Form(item) \in {"f32", "f64"} THEN DoubleAt(values, nth(i))
                     ELSE LaneValues(values, IF wide THEN 2 ELSE 4)[nth(i)]
        exact(i) == Form(item) \in {"i32", "i64"} \/ (wide /\ i % 2 = 1)
    IN  [l \in {<<"xmm", x, i>> : i \in Lane} |->
            IF exact(l[3]) THEN Exactly(number(l[3])) ELSE About(number(l[3]), Tolerance(item))]

\* mem <program> <block> <index> <type> <value>; a name alone says nothing
MemMeaning(item) ==
    LET q == Qualified(State, item)
        p == Source(State, item)
        args == Unqualified(State, item)
        first == IntOf[args[2]]
        value == IF IsDouble(args[4]) THEN DoubleOf[args[4]] ELSE IntOf[args[4]]
        tolerance == CASE args[3] = "float32" -> PrecisionF32
                       [] args[3] \in {"float", "float64"} -> PrecisionF64
                       [] OTHER -> PrecisionF80
    IN  IF Len(args) = 1 THEN <<>>
        ELSE IF args[2] = "*" THEN [l \in MemLocation(p) |-> Exactly(real[l])]
        ELSE [l \in {<<"mem", p, j>> : j \in first .. first + Width[args[3]] - 1} |->
                 IF l[3] = first THEN About(value, tolerance) ELSE Exactly(0)]

\* addrN <program> <block> <offset>
AddrMeaning(item) ==
    LET p == Source(State, item)
        args == Unqualified(State, item)
    IN  [l \in {At(item[1], part) : part \in AddrPart} |->
            Exactly(IF item[2] = NULL
                    THEN [base |-> NULL, bounds |-> "none", pointer |-> NullPointer][l[3]]
                    ELSE CASE l[3] = "base" -> p
                           [] l[3] = "bounds" -> "block"
                           [] OTHER -> <<p, IntOf[args[2]]>>)]

\* stash <index> <field> <value>
StashMeaning(item) ==
    LET indexed == IsUInt(item[2])
        i == IF indexed THEN IntOf[item[2]] ELSE real[<<"reg", "rMCSI">>]
        args == SubSeq(item, IF indexed THEN 3 ELSE 2, Len(item))
        t == args[Len(args)]
        value == IF IsDouble(t) THEN DoubleOf[t] ELSE IF t \in DOMAIN StringOf THEN StringOf[t] ELSE IntOf[t]
    IN  [l \in {<<"stash", i, h>> : h \in StashHalves[args[1]]} |->
            IF args[1] = "a" /\ l[3] = "h" THEN Exactly(0)
            ELSE IF args[2] = "float64" THEN About(value, PrecisionF64) ELSE Exactly(value)]

\* stack-entry <index> <repetitions>, and its properties
EntryMeaning(item, lines) ==
    LET first == IntOf[item[2]]
        last  == IF Len(item) > 2 THEN first + IntOf[item[3]] - 1 ELSE first
        named == {lines[i][1] : i \in DOMAIN lines}
        value(f) == LET t == (CHOOSE i \in DOMAIN lines : lines[i][1] = f) IN
                    IF f \in {"dest-program", "src-program"} THEN lines[t][2]
                    ELSE IF lines[t][2] \in DOMAIN FunctionIndex
                    THEN FunctionIndex[lines[t][2]] +
                         (IF Len(lines[t]) > 2 THEN IntOf[lines[t][3]] ELSE 0)
                    ELSE IntOf[lines[t][2]]
    IN  [l \in {<<"entry", i, f>> : i \in first .. last, f \in named} |-> Exactly(value(l[3]))]

Meaning(line) ==
    LET item == line.tok IN
    CASE item[1] \in ScalarNames \cup StackNames -> (<<item[1]>> :> Exactly(IntOf[item[2]]))
      [] item[1] \in Register -> (<<"reg", item[1]>> :> Exactly(IntOf[item[2]]))
      [] item[1] = "program"  -> (<<"program">> :> Exactly(item[2]) @@ <<"memblocks">> :> Exactly(item[2]))
      [] item[1] \in Xmm      -> XmmMeaning(item)
      [] item[1] = "mem"      -> MemMeaning(item)
      [] item[1] \in DOMAIN Addr -> AddrMeaning(item)
      [] item[1] = "lwcstack" -> [l \in {<<"lwcs", i>> : i \in IntOf[item[2]] .. IntOf[item[2]]
                                             + (IF Len(item) > 3 THEN IntOf[item[4]] ELSE 1) - 1}
                                          \cap Location |-> Exactly(IntOf[item[3]])]
      [] item[1] = "stash"    -> StashMeaning(item)
      [] item[1] = "stack-entry" -> EntryMeaning(item, line.below)
      [] OTHER -> <<>>

\* What TEST n expects of a location: what an item says of it, or no change.
Expected(n, l) ==
    LET says == {i \in DOMAIN Items(n) : l \in DOMAIN Meaning(Items(n)[i])} IN
    IF says = {} THEN Exactly(seen[l])
    ELSE LET i == CHOOSE i \in says : \A k \in says : k <= i IN Meaning(Items(n)[i])[l]

\* The callback received last is the one an item names, and so are its arguments.
CallbackMet(n) ==
    LET names == {IntOf[Items(n)[i].tok[2]] : i \in {k \in DOMAIN Items(n) : Items(n)[k].tok[1] = "callback"}}
    IN  names = IF callback_id = 0 THEN {} ELSE {callback_id}

ArgumentsMet(n) ==
    \A i \in DOMAIN Items(n) :
        LET item == Items(n)[i].tok IN
        item[1] \in DOMAIN ArgNames => IntOf[item[2]] = ccall_args[ArgNames[item[1]]]

Declared(n, l) == \E i \in DOMAIN Items(n) : l \in DOMAIN Meaning(Items(n)[i])

Met(n) ==
    /\ CallbackMet(n) /\ ArgumentsMet(n)
    /\ \A l \in Location : Declared(n, l) \/ ~Unobserved(l) => Accepts(Expected(n, l), real[l])

-----------------------------------------------------------------------------

Frames == [at : 0 .. Len(script), running : BOOLEAN, by : 0 .. 8, spec : 0 .. Len(script)]
Results == {"none", "RUNNING", "PASS", "FAIL", "TEST_ERROR", "CONTINUE", "CRASHED"}

\* Types.  Every list but the innermost waits at a command that runs a program, the
\* copies have the same locations, the commands completed were begun, and while a
\* program runs the active command is the one that runs it.
TypeOK ==
    /\ frames \in Seq(Frames)
    /\ \A i \in 1 .. Len(frames) - 1 : frames[i].running /\ frames[i + 1].spec = frames[i].at
    /\ verdict \in Results /\ fate \in {"tree", "rejected", "undefined", "crashed"}
    /\ DOMAIN real = Location /\ DOMAIN shadow = Location /\ DOMAIN seen = Location
    /\ {active, continuation, raised} \cup Range(next) \cup Range(child) \subseteq 0 .. Len(script)
    /\ callback_id \in 0 .. 8
    /\ programs \subseteq Program /\ {tprg, shadow_memblocks} \subseteq programs \cup {NULL}
    /\ Range(done) \subseteq Range(begun)
    /\ InProgram => active = Top.at

\* The links that stratify sets are those of the indentation, and it refuses exactly
\* the documents whose indentation has no meaning.
TreeFollowsIndentation ==
    /\ fate = "tree" <=> Len(script) > 1 /\ WellIndented(script)
    /\ begun = <<>> /\ fate = "tree" => IsTreeOf([next |-> next, child |-> child], script)

TestStep == begun' # begun /\ Word(Top.at) = "TEST"

\* A TEST command that passes has seen the machine agree with the script: every
\* location holds what an item declares of it, or what it held when the machine was
\* last compared or copied, and the last callback is the one declared.
PassMeansMet == [][TestStep /\ done' # done => Met(Top.at)]_vars

\* A TEST command that fails has seen a deviation: the shadow copy never differs
\* from the machine where the script is right.
FailMeansUnmet == [][TestStep /\ verdict' = "FAIL" /\ raised' = raised => ~Met(Top.at)]_vars

Answered(n) == \E m \in Node : SiblingOf(script, n, m) /\ Word(m) = "ERROR"

\* A script passes because of an error only if the command that was running comes
\* directly before an ERROR line, and a command before an ERROR line never completes
\* in a script that passes.
ErrorsAnswered ==
    verdict = "PASS" =>
        /\ raised # Nil => Answered(raised)
        /\ \A i \in DOMAIN done : ~Answered(done[i])

\* Commands begin in document order and at most once, those below an EXEC while it
\* runs, whatever the callbacks do with the list.
CommandsInOrder ==
    \A i \in 2 .. Len(begun) :
        /\ begun[i - 1] < begun[i]
        /\ \A m \in Enclosing(script, begun[i]) : m \in Range(begun)

\* The lines directly below a line.
Subordinate(n) ==
    {m \in Node : n \in Enclosing(script, m) /\ \A k \in Enclosing(script, m) : k <= n}

\* A script that passes has run every line below its EXEC commands, except below the
\* last command it began, or inside of a callback it ended in.
MissedOnlyAtEnd ==
    verdict = "PASS" =>
        \A e \in Range(begun) :
            Word(e) = "EXEC" =>
                \/ Subordinate(e) \subseteq Range(begun)
                \/ \A n \in Range(begun) : n <= e \/ e \in Enclosing(script, n)

=============================================================================
