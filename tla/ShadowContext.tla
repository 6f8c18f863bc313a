---------------------------- MODULE ShadowContext ----------------------------
(***************************************************************************)
(* The items of a TEST command and the comparison that follows them.  The  *)
(* test process keeps a second copy of everything the virtual machine can  *)
(* change; an item updates the copy (or, for floating point, compares with *)
(* a tolerance and copies what was observed), and the comparison then asks *)
(* that the copy and the machine agree everywhere.                         *)
(*                                                                         *)
(* Both copies are functions from locations to values.  A location is a    *)
(* tuple: <<"status">>, <<"reg", r>>, <<"xmm", x, lane>>, <<"addr", k,     *)
(* part>>, <<"mem", program, byte>>, <<"lwcs", i>>, <<"stash", i, half>>,   *)
(* <<"entry", i, field>>.  Each program has one memblock, called "m".       *)
(* Operators take a state with the fields real, shadow, tprg, programs,    *)
(* shadow_memblocks, callback_id and ccall_args.                           *)
(***************************************************************************)
EXTENDS Integers, Sequences, FiniteSets, SequencesExt

CONSTANTS
    IntOf, DoubleOf, StringOf, \* what tokens parse as; the domain is what parses
    FunctionIndex,             \* the functions of every program, by name
    Program, Register, Xmm, Addr, \* names; Addr maps addrN to its entry offset
    MemSize, LwcallSize, StashSize, StackSize

ASSUME SizesAssumption ==
    /\ MemSize \in Nat /\ LwcallSize \in Nat /\ StashSize \in Nat /\ StackSize \in Nat
    /\ Register \cap Xmm = {}
    /\ "MAIN" \in DOMAIN FunctionIndex

NULL == "NULL"

Lane     == 0 .. 3
Half     == {"l", "h"}
Numeric  == {"jumptarget", "returntarget", "src-lwcsfloor", "src-mctxfloor",
             "src-lwcspos", "src-mctxpos"}
Scalar   == {"vm", "program", "memblocks", "status", "lwcs-floor", "mctx-floor"}
AddrPart == {"base", "bounds", "pointer"}

\* The fields of the context structure itself, which EXEC copies as a whole.
ContextLocation ==
    {<<s>> : s \in Scalar}
    \cup {<<"reg", r>> : r \in Register}
    \cup {<<"xmm", x, i>> : x \in Xmm, i \in Lane}
    \cup {<<"addr", k, p>> : k \in DOMAIN Addr, p \in AddrPart}

StackLocation ==
    {<<"stack-lock">>, <<"stack-pos">>}
    \cup {<<"entry", i, f>> : i \in 0 .. StackSize - 1,
                              f \in Numeric \cup {"dest-program", "src-program"}}

MemLocation(p) == {<<"mem", p, j>> : j \in 0 .. MemSize - 1}

Location ==
    ContextLocation \cup StackLocation
    \cup UNION {MemLocation(p) \cup {<<"length", p>>} : p \in Program}
    \cup {<<"lwcs", i>> : i \in 0 .. LwcallSize - 1}
    \cup {<<"stash", i, h>> : i \in 0 .. StashSize - 1, h \in Half}

-----------------------------------------------------------------------------
(* Results of an item.  "CRASH" is a NULL pointer followed; "ERROR" is a    *)
(* call of the error handler.                                               *)

Pass(st, shadow) == [result |-> "PASS", shadow |-> shadow, callback_id |-> st.callback_id]
Stop(st, how)    == [result |-> how, shadow |-> st.shadow, callback_id |-> st.callback_id]
Judge(st, shadow, holds) ==
    [Pass(st, shadow) EXCEPT !.result = IF holds THEN "PASS" ELSE "FAIL"]

Overwrite(f, g) == [l \in DOMAIN f |-> IF l \in DOMAIN g THEN g[l] ELSE f[l]]

IsInt(t)    == t \in DOMAIN IntOf
IsUInt(t)   == IsInt(t) /\ IntOf[t] >= 0
IsDouble(t) == t \in DOMAIN DoubleOf

\* Values of floating-point fields stand for numbers: 0 is zero, 1 is one, 2 and 3
\* are one plus an error inside the 64-bit and only inside the 32-bit tolerance.
\* NotANumber also stands for any bit pattern that no script writes down.
NotANumber == 99
PrecisionF80 == 0
PrecisionF64 == 1
PrecisionF32 == 2

ApproximatelyEq(a, b, precision) ==
    \/ a = b
    \/ /\ {a, b} \cap {0, NotANumber} = {}
       /\ a - b <= precision /\ b - a <= precision

-----------------------------------------------------------------------------
(* Items that set one value.                                                *)

SetInt(st, location, t) ==
    IF IsInt(t) THEN Pass(st, [st.shadow EXCEPT ![location] = IntOf[t]])
                ELSE Stop(st, "TEST_ERROR")

ScalarItem(st, item) == SetInt(st, <<item[1]>>, item[2])

StackScalarItem(st, item) ==
    IF item[1] = "stack-lock" /\ ~IsUInt(item[2])
    THEN Stop(st, "TEST_ERROR")
    ELSE SetInt(st, <<item[1]>>, item[2])

RegisterItem(st, item) == SetInt(st, <<"reg", item[1]>>, item[2])

ProgramItem(st, item) ==
    IF item[2] \notin st.programs
    THEN Stop(st, "TEST_ERROR")
    ELSE Pass(st, [st.shadow EXCEPT ![<<"program">>] = item[2], ![<<"memblocks">>] = item[2]])

CallbackItem(st, item) ==
    IF ~IsUInt(item[2]) THEN Stop(st, "TEST_ERROR")
    ELSE IF IntOf[item[2]] > 8 THEN Stop(st, "TEST_ERROR")
    ELSE IF IntOf[item[2]] = st.callback_id
         THEN [Pass(st, st.shadow) EXCEPT !.callback_id = 0]
         ELSE Stop(st, "FAIL")

ArgumentItem(st, item, k) ==
    IF ~IsInt(item[2]) THEN Stop(st, "TEST_ERROR")
    ELSE Judge(st, st.shadow, IntOf[item[2]] = st.ccall_args[k])

-----------------------------------------------------------------------------
(* Vector registers.                                                        *)

Forms == [f32 |-> "f32", float32 |-> "f32", f64 |-> "f64", float64 |-> "f64",
          i32 |-> "i32", int32 |-> "i32", i64 |-> "i64", int64 |-> "i64"]
Widened == {"f32+", "float32+"} \* a 32-bit number promoted to 64 bits

Form(item) == IF item[2] \in DOMAIN Forms THEN Forms[item[2]] ELSE "f64"
Tolerance(item) == IF Form(item) = "f32" \/ item[2] \in Widened
                   THEN PrecisionF32 ELSE PrecisionF64

\* The tokens after the optional form: at most four.
XmmValues(item) ==
    SubSeq(item, IF item[2] \in DOMAIN Forms \cup Widened THEN 3 ELSE 2, Len(item))

DoubleAt(values, i) ==
    IF i <= Len(values) /\ IsDouble(values[i]) THEN DoubleOf[values[i]] ELSE 0

\* A number in two adjacent lanes; the abstraction keeps it in the low one.
Wide(f, x, i) == IF f[<<"xmm", x, i + 1>>] = 0 THEN f[<<"xmm", x, i>>] ELSE NotANumber

\* Mutant: only the low half is copied into the shadow register.
ObservedLowHalf(st, x) == [l \in {<<"xmm", x, i>> : i \in {0, 1}} |-> st.real[l]]

Observed(st, x) == [l \in {<<"xmm", x, i>> : i \in Lane} |-> st.real[l]]

Float32Item(st, item, values) ==
    Judge(st, Overwrite(st.shadow, Observed(st, item[1])),
          \A i \in Lane : ApproximatelyEq(st.real[<<"xmm", item[1], i>>],
                                          DoubleAt(values, i + 1), Tolerance(item)))

Float64Item(st, item, values) ==
    Judge(st, Overwrite(st.shadow, Observed(st, item[1])),
          \A i \in {0, 2} : ApproximatelyEq(Wide(st.real, item[1], i),
                                            DoubleAt(values, i \div 2 + 1), Tolerance(item)))

\* A quoted string fills the register from its bytes; a token that is neither
\* stands for zeros.
LaneValues(values, n) ==
    [i \in 1 .. n |-> IF IsInt(values[1])
                      THEN IF IsInt(values[i]) THEN IntOf[values[i]] ELSE 0
                      ELSE IF values[1] \in DOMAIN StringOf /\ i = 1
                           THEN StringOf[values[1]] ELSE 0]

\* The other values are parsed only after a first one that is an integer, and
\* parsed without asking whether they are there.
Missing(values, n) == IsInt(values[1]) /\ Len(values) < n

Int32Item(st, item, values) ==
    IF Missing(values, 4) THEN Stop(st, "CRASH")
    ELSE Pass(st, Overwrite(st.shadow,
             [l \in {<<"xmm", item[1], i>> : i \in Lane} |-> LaneValues(values, 4)[l[3] + 1]]))

Int64Item(st, item, values) ==
    IF Missing(values, 2) THEN Stop(st, "CRASH")
    ELSE Pass(st, Overwrite(st.shadow,
             [l \in {<<"xmm", item[1], i>> : i \in Lane} |->
                 IF l[3] % 2 = 0 THEN LaneValues(values, 2)[l[3] \div 2 + 1] ELSE 0]))

XmmItem(st, item) ==
    LET values == XmmValues(item) IN
    IF values = <<>> THEN Stop(st, "CRASH")
    ELSE CASE Form(item) = "i32" -> Int32Item(st, item, values)
           [] Form(item) = "i64" -> Int64Item(st, item, values)
           [] ~IsDouble(values[1]) -> Stop(st, "ERROR")
           [] Form(item) = "f32" -> Float32Item(st, item, values)
           [] OTHER -> Float64Item(st, item, values)

-----------------------------------------------------------------------------
(* Memory and address registers.                                            *)

\* A name that is a program's selects that program's blocks; otherwise the blocks
\* are those of the program built, executed or resumed last.
Qualified(st, item) == item[2] \in st.programs
Source(st, item)    == IF Qualified(st, item) THEN item[2] ELSE st.tprg
ShadowSet(st, item) == IF Qualified(st, item) THEN item[2] ELSE st.shadow_memblocks
Unqualified(st, item) == SubSeq(item, IF Qualified(st, item) THEN 3 ELSE 2, Len(item))

Width == [byte |-> 1, word |-> 2, dword |-> 4, qword |-> 8, float32 |-> 4, float |-> 8, float64 |-> 8]

\* Little-endian bytes of a small number.
Bytes(p, first, width, value) ==
    [l \in {<<"mem", p, j>> : j \in first .. first + width - 1} |->
        IF l[3] = first THEN value ELSE 0]

NumberAt(f, p, first, width) ==
    IF \A j \in first + 1 .. first + width - 1 : f[<<"mem", p, j>>] = 0
    THEN f[<<"mem", p, first>>] ELSE NotANumber

MemFloat(st, shadowset, source, first, type, value) ==
    LET observed == NumberAt(st.real, source, first, Width[type])
        close == ApproximatelyEq(DoubleOf[value], observed,
                     IF type = "float32" THEN PrecisionF32 ELSE PrecisionF64)
        copied == [l \in {<<"mem", shadowset, j>> : j \in first .. first + Width[type] - 1} |->
                      st.real[<<"mem", source, l[3]>>]]
    IN  Judge(st, Overwrite(st.shadow, IF close THEN copied
                                       ELSE Bytes(shadowset, first, Width[type], DoubleOf[value])),
              close)

MemValue(st, shadowset, source, first, type, value) ==
    IF type \in {"float", "float32", "float64"}
    THEN IF IsDouble(value) THEN MemFloat(st, shadowset, source, first, type, value)
                            ELSE Stop(st, "TEST_ERROR")
    ELSE IF type \in DOMAIN Width /\ IsInt(value)
         THEN Pass(st, Overwrite(st.shadow,
                                 Bytes(shadowset, first, Width[type], IntOf[value])))
         ELSE Stop(st, "TEST_ERROR")

MemItem(st, item) ==
    LET args == Unqualified(st, item)
        source == Source(st, item)
        shadowset == ShadowSet(st, item)
        WholeBlock == [l \in {<<"mem", shadowset, j>> : j \in 0 .. st.real[<<"length", source>>] - 1} |->
                           st.real[<<"mem", source, l[3]>>]]
    IN  CASE args = <<>> \/ args[1] # "m" -> Stop(st, "CRASH")
          [] st.real[<<"length", source>>] # st.shadow[<<"length", shadowset>>] -> Pass(st, st.shadow)
          [] Len(args) = 1 -> Pass(st, st.shadow)
          [] args[2] = "*" -> Pass(st, Overwrite(st.shadow, WholeBlock))
          [] ~IsUInt(args[2]) -> Stop(st, "TEST_ERROR")
          [] Len(args) < 4 -> Stop(st, "CRASH")  \* no value, or one without a type
          [] OTHER -> MemValue(st, shadowset, source, IntOf[args[2]], args[3], args[4])

NullPointer == <<NULL, 0>>
At(k, part) == <<"addr", k, part>>

\* The offset is relative to the block that the register is bound to, and so is
\* the pointer that the shadow gets.  Declared bounds are parsed and dropped.
Rebound(st, k, source, offset) ==
    [st.shadow EXCEPT ![At(k, "base")]    = source,
                      ![At(k, "bounds")]  = "block",
                      ![At(k, "pointer")] = <<st.real[At(k, "base")], offset>>]

Unbound(st, k) ==
    [st.shadow EXCEPT ![At(k, "base")] = NULL, ![At(k, "bounds")] = "none",
                      ![At(k, "pointer")] = NullPointer]

\* A malformed item returns `false`, which is the code of EXIT.  The block is named,
\* or selected by its index, which is 0.
AddrItem(st, item) ==
    LET k == item[1]
        args == Unqualified(st, item)
        bounds == Len(item) - 1 >= 4
    IN  CASE item[2] = NULL -> Pass(st, Unbound(st, k))
          [] Len(item) - 1 < 2 -> Stop(st, "EXIT")
          [] args[1] \notin {"m", "0"} \/ Len(args) < 2 -> Stop(st, "CRASH")
          [] ~IsInt(args[2]) -> Stop(st, "TEST_ERROR")
          [] bounds /\ Len(args) < 4 -> Stop(st, "CRASH")
          [] bounds /\ ~(IsUInt(args[3]) /\ IsUInt(args[4])) -> Stop(st, "TEST_ERROR")
          [] OTHER -> Judge(st, Rebound(st, k, Source(st, item), IntOf[args[2]]),
                            st.real[At(k, "pointer")][2] = IntOf[args[2]])

-----------------------------------------------------------------------------
(* Stacks.                                                                  *)

\* lwcstack <index> <value> <repetitions>
LwcallStackItem(st, item) ==
    LET times == IF Len(item) = 4 THEN IntOf[item[4]] ELSE 1
        first == IntOf[item[2]]
        limit == IF first + times > LwcallSize THEN LwcallSize ELSE first + times
    IN  CASE Len(item) < 3 -> Stop(st, "CRASH")
          [] \E i \in 2 .. Len(item) : ~IsUInt(item[i]) -> Stop(st, "TEST_ERROR")
          [] OTHER -> Pass(st, Overwrite(st.shadow,
                          [l \in {<<"lwcs", i>> : i \in first .. limit - 1} |-> IntOf[item[3]]]))

\* stash <index> <field> <form> <value>: without an index, the current stash.
StashHalves == [a |-> Half, al |-> {"l"}, ah |-> {"h"}]

StashFloat64(st, i, field, expected) ==
    LET h == IF field = "ah" THEN "h" ELSE "l"
        copied == [l \in {<<"stash", i, h>>} |-> st.real[l]]
        cleared == [l \in {<<"stash", i, "h">>} |-> 0]
        close == ApproximatelyEq(expected, st.real[<<"stash", i, h>>], PrecisionF64)
    IN  IF ~close THEN Stop(st, "FAIL")
        ELSE Pass(st, Overwrite(Overwrite(st.shadow, copied),
                                IF field = "a" THEN cleared ELSE copied))

\* An extended number: the significand in the low half, the exponent in the high.
StashFloat80(st, i, expected) ==
    LET observed == IF st.real[<<"stash", i, "h">>] = 0
                    THEN st.real[<<"stash", i, "l">>] ELSE NotANumber
    IN  IF ~ApproximatelyEq(expected, observed, PrecisionF80) THEN Stop(st, "FAIL")
        ELSE Pass(st, Overwrite(st.shadow,
                 [l \in {<<"stash", i, h>> : h \in Half} |-> st.real[l]]))

\* A value that is neither a number nor quoted stands for zero.
StashInteger(st, i, field, t) ==
    LET value == IF t \in DOMAIN StringOf THEN StringOf[t] ELSE IF IsInt(t) THEN IntOf[t] ELSE 0
    IN  Pass(st, Overwrite(st.shadow,
            [l \in {<<"stash", i, h>> : h \in StashHalves[field]} |->
                IF field = "a" /\ l[3] = "h" THEN 0 ELSE value]))

StashItem(st, item) ==
    LET indexed == IsUInt(item[2])
        i    == IF indexed THEN IntOf[item[2]] ELSE st.real[<<"reg", "rMCSI">>]
        args == SubSeq(item, IF indexed THEN 3 ELSE 2, Len(item))
        known == args[1] \in DOMAIN StashHalves
        float == args[2] \in {"float64", "float80"}
    IN  CASE indexed /\ i >= StashSize -> Stop(st, "TEST_ERROR")
          [] Len(args) < 2 \/ (float /\ Len(args) < 3) -> Stop(st, "CRASH")
          [] float /\ ~IsDouble(args[3]) -> Stop(st, "TEST_ERROR")
          [] ~known -> Stop(st, "TEST_ERROR")
          [] args[2] = "float80" /\ args[1] # "a" -> Stop(st, "TEST_ERROR")
          [] args[2] = "float64" -> StashFloat64(st, i, args[1], DoubleOf[args[3]])
          [] args[2] = "float80" -> StashFloat80(st, i, DoubleOf[args[3]])
          [] OTHER -> StashInteger(st, i, args[1], args[2])

\* A stack entry under construction: the shadow entry's values by field, and the
\* programs that this item has named.
EntryTarget(e, t) ==
    IF Len(t) < 2 \/ e.dest = NULL THEN [e EXCEPT !.result = "TEST_ERROR"]
    ELSE IF t[2] \in DOMAIN FunctionIndex
         THEN [e EXCEPT !.value["jumptarget"] = FunctionIndex[t[2]]]
    ELSE IF IsUInt(t[2]) THEN [e EXCEPT !.value["jumptarget"] = IntOf[t[2]]]
    ELSE [e EXCEPT !.result = "TEST_ERROR"]

\* A label of the source program, a number, or a label and a distance from it.
EntryReturn(e, t) ==
    LET labelled == Len(t) > 1 /\ e.source # NULL /\ t[2] \in DOMAIN FunctionIndex
        label    == IF labelled THEN FunctionIndex[t[2]] ELSE 0
        rest     == SubSeq(t, IF labelled THEN 3 ELSE 2, Len(t))
    IN  IF Len(t) < 2 \/ (rest # <<>> /\ ~IsUInt(rest[1]))
        THEN [e EXCEPT !.result = "TEST_ERROR"]
        ELSE [e EXCEPT !.value["returntarget"] =
                 label + (IF rest = <<>> THEN 0 ELSE IntOf[rest[1]])]

\* Lines with other names are skipped.
EntryLine(programs, e, t) ==
    IF e.result # "PASS" THEN e
    ELSE CASE t[1] \in {"dest-program", "src-program"} /\ (Len(t) < 2 \/ t[2] \notin programs)
                -> [e EXCEPT !.result = "CRASH"]
           [] t[1] = "dest-program" -> [e EXCEPT !.dest = t[2], !.value["dest-program"] = t[2]]
           [] t[1] = "src-program"  -> [e EXCEPT !.source = t[2], !.value["src-program"] = t[2]]
           [] t[1] = "jumptarget"   -> EntryTarget(e, t)
           [] t[1] = "returntarget" -> EntryReturn(e, t)
           [] t[1] \in Numeric /\ Len(t) > 1 /\ IsUInt(t[2]) -> [e EXCEPT !.value[t[1]] = IntOf[t[2]]]
           [] t[1] \in Numeric      -> [e EXCEPT !.result = IF Len(t) < 2 THEN "CRASH" ELSE "TEST_ERROR"]
           [] OTHER -> e

EntryLines(programs, start, lines) == FoldLeft(LAMBDA e, t : EntryLine(programs, e, t), start, lines)

\* The repetition copies the entry over entries 1 .. limit - 1, wherever it stands.
Repeated(first, times) ==
    1 .. (IF first + times > StackSize THEN StackSize ELSE first + times) - 1

\* stack-entry <index> <repetitions>, with lines below it
StackEntryItem(st, item, lines) ==
    LET first  == IntOf[item[2]]
        fields == Numeric \cup {"dest-program", "src-program"}
        start  == [result |-> "PASS", dest |-> NULL, source |-> NULL,
                   value |-> [f \in fields |-> st.shadow[<<"entry", first, f>>]]]
        entry  == EntryLines(st.programs, start, lines)
        copies == IF Len(item) > 2 /\ IsUInt(item[3])
                  THEN Repeated(first, IntOf[item[3]]) ELSE {}
        written == [l \in {<<"entry", i, f>> : i \in {first} \cup copies, f \in fields} |->
                       entry.value[l[3]]]
    IN  IF ~IsUInt(item[2]) THEN Stop(st, "TEST_ERROR")
        ELSE IF entry.result # "PASS" THEN Stop(st, entry.result)
        ELSE Pass(st, Overwrite(st.shadow, written))

-----------------------------------------------------------------------------
(* One TEST command.                                                        *)

ScalarNames == {"status", "mctx-floor", "lwcs-floor"}
StackNames  == {"stack-lock", "stack-pos"}
ArgNames    == [arg0 |-> 0, arg1 |-> 1]

\* The table base_tests.  An item is a line with the lines below it.
Item(st, line) ==
    LET item == line.tok IN
    CASE Len(item) < 2 -> Stop(st, "TEST_ERROR")
      [] item[1] \in ScalarNames  -> ScalarItem(st, item)
      [] item[1] \in StackNames   -> StackScalarItem(st, item)
      [] item[1] \in Register     -> RegisterItem(st, item)
      [] item[1] \in Xmm          -> XmmItem(st, item)
      [] item[1] \in DOMAIN Addr  -> AddrItem(st, item)
      [] item[1] = "program"      -> ProgramItem(st, item)
      [] item[1] = "callback"     -> CallbackItem(st, item)
      [] item[1] \in DOMAIN ArgNames -> ArgumentItem(st, item, ArgNames[item[1]])
      [] item[1] = "mem"          -> MemItem(st, item)
      [] item[1] = "lwcstack"     -> LwcallStackItem(st, item)
      [] item[1] = "stash"        -> StashItem(st, item)
      [] item[1] = "stack-entry"  -> StackEntryItem(st, item, line.below)
      [] OTHER                    -> Stop(st, "TEST_ERROR")

Agree(st, locations) == \A l \in locations : st.shadow[l] = st.real[l]

ScalarsAgree(st) == Agree(st, {<<s>> : s \in Scalar} \cup {<<"reg", r>> : r \in Register})
XmmAgree(st)     == Agree(st, {<<"xmm", x, i>> : x \in Xmm, i \in Lane})
BindingsAgree(st) == Agree(st, {At(k, p) : k \in DOMAIN Addr, p \in AddrPart})

\* The blocks in the context's table, against the shadow set selected last.
MemoryAgrees(st) ==
    LET p == st.real[<<"memblocks">>] IN
    p # NULL => \A j \in 0 .. st.real[<<"length", p>>] - 1 :
                   st.real[<<"mem", p, j>>] = st.shadow[<<"mem", st.shadow_memblocks, j>>]

\* Mutant: the lightweight call stack is left out.
NothingToAgree(st) == TRUE

LwcallStackAgrees(st) == Agree(st, {<<"lwcs", i>> : i \in 0 .. LwcallSize - 1})
StashAgrees(st) == Agree(st, {<<"stash", i, h>> : i \in 0 .. StashSize - 1, h \in Half})
StackAgrees(st) == Agree(st, StackLocation)

\* The comparison after the items; a callback that no item has named is a failure.
Compare(st) ==
    Judge(st, st.shadow,
          /\ st.callback_id = 0
          /\ ScalarsAgree(st) /\ XmmAgree(st) /\ BindingsAgree(st) /\ MemoryAgrees(st)
          /\ LwcallStackAgrees(st) /\ StashAgrees(st) /\ StackAgrees(st))

\* The result of the first item that does not pass; the shadow keeps what the
\* items before it have done.
Apply(st, line) ==
    IF st.result # "PASS" THEN st
    ELSE LET r == Item(st, line) IN
         [st EXCEPT !.result = r.result, !.shadow = r.shadow, !.callback_id = r.callback_id]

RunTest(st, items) ==
    LET after == FoldLeft(Apply, st, items)
    IN  IF after.result = "PASS"
        THEN LET c == Compare(after) IN
             [after EXCEPT !.result = c.result]
        ELSE after
=============================================================================
