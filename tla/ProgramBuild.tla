---------------------------- MODULE ProgramBuild ----------------------------
(***************************************************************************)
(* From a tactyk-PL document to running code.  The loader walks the lines  *)
(* with a stack of its own (tactyk_pl__load_dblock), collecting commands,  *)
(* labels and code blocks in the emit context; tactyk_emit__compile turns  *)
(* each command into a piece of assembly, shuffles the pieces, and has     *)
(* them assembled; tactyk_asmvm__add_program links the result.  Execution  *)
(* then follows symbols and tables only.  Operands, registers and the      *)
(* text of the generated code are abstracted to the places control may go  *)
(* to.  Indices of commands count from 1.                                  *)
(***************************************************************************)
EXTENDS Naturals, Sequences, FiniteSets

CONSTANTS
    Label,                  \* names a line may mark or refer to
    None,                   \* no label
    Inputs,                 \* pairs of a document and a layout setting
    MaxCodeblockNestLevel   \* TACTYK_EMIT__MAX_CODEBLOCK_NESTLEVEL (16)

\* plain, goto, if, exit and skip stand for the instructions that only compute,
\* always branch, branch or not, end the program, and generate nothing; none is a
\* line that is only a label, unknown one that no instruction is defined for.
Op == {"plain", "goto", "if", "exit", "skip", "none", "unknown", "directive"}

DocumentLine == [depth : Nat, label : Label \cup {None}, op : Op, target : Label \cup {None}]

ASSUME InputsAssumption ==
    /\ None \notin Label
    /\ MaxCodeblockNestLevel \in Nat
    /\ \A in \in Inputs : /\ in.doc \in Seq(DocumentLine) /\ in.doc # <<>>
                          /\ in.doc[1].depth = 0
                          /\ \A l \in 2 .. Len(in.doc) :
                                in.doc[l].depth <= in.doc[l - 1].depth + 1
                          /\ in.randomize \in BOOLEAN

VARIABLES
    doc,                \* lines: [depth, label, op, target], indented as stratified
    randomize,          \* use_executable_layout_randomization
    phase,
    dbcode, dbstack,    \* the loader's line and its stack of open lines
    script_commands,    \* [line, labels, child], in order of arrival
    active_labels,      \* labels waiting for the next command
    active_command,     \* index of the last command, 0 for NULL
    codeblocks,         \* ids of the open code blocks
    next_codeblock_id,
    functions,          \* the store of program->functions: [label, value]
    label,              \* compile: labels carried over skipped commands
    target_iptr, iptr,  \* compile: current command, first one without a symbol
    asm_code,           \* per command: [symbols, exits, falls]
    program_map,        \* order of the pieces in the executable
    shuffled,           \* next position the shuffle decides
    command_map,        \* position a command index is dispatched to
    pc                  \* position being executed, 0 between two calls

input    == <<doc, randomize>>
loader   == <<dbcode, dbstack>>
commands == <<script_commands, active_labels, active_command, functions>>
blocks   == <<codeblocks, next_codeblock_id>>
compiler == <<label, target_iptr, iptr, asm_code>>
layout   == <<program_map, shuffled>>
linked   == <<command_map, pc>>
vars     == <<input, phase, loader, commands, blocks, compiler, layout, linked>>

CommandCount == Len(script_commands)

-----------------------------------------------------------------------------
(* Symbols of the generated code, and the tree the loader walks.            *)

Lbl(x)   == <<"lbl#", x>>
First(b) == <<"codeblock_first#", b>>
Close(b) == <<"codeblock_close#", b>>
Cmd(i)   == <<"cmd#", i>>

HasChild(l) == l < Len(doc) /\ doc[l + 1].depth > doc[l].depth

\* The next line on the level of l under the same parent.
IsPeer(l, m) ==
    /\ l < m /\ doc[m].depth = doc[l].depth
    /\ \A k \in l + 1 .. m - 1 : doc[k].depth > doc[l].depth

HasPeer(l) == \E m \in 1 .. Len(doc) : IsPeer(l, m)

Peer(l) == CHOOSE m \in 1 .. Len(doc) : IsPeer(l, m)

-----------------------------------------------------------------------------
(* Initial state: tactyk_emit__init_program, and a loaded document.         *)

Init ==
    /\ \E in \in Inputs : doc = in.doc /\ randomize = in.randomize
    /\ phase = "handle"
    /\ dbcode = 1 /\ dbstack = <<>>
    /\ script_commands = <<>> /\ active_labels = <<>> /\ active_command = 0
    /\ functions = <<>>
    /\ codeblocks = <<>> /\ next_codeblock_id = 0
    /\ label = <<>> /\ target_iptr = 1 /\ iptr = 1 /\ asm_code = <<>>
    /\ program_map = <<>> /\ shuffled = 1
    /\ command_map = <<>> /\ pc = 0

-----------------------------------------------------------------------------
(* Loading.                                                                 *)

\* Mutant: the index is taken after the command has been added.
ValueAfterCommand == CommandCount + 2

\* A function begins at the command that is added next.
FunctionValue == CommandCount + 1

\* tactyk_emit__add_script_label: the labels waiting afterwards, and the store.
LabelsWith(x) == IF x = None THEN active_labels ELSE Append(active_labels, Lbl(x))

FunctionsWith(x) ==
    IF x = None THEN functions
    ELSE Append(functions, [label |-> x, value |-> FunctionValue])

\* One line: a directive that describes data is left to its handler (get, set and
\* bus, which concern commands, are not modelled), anything else is an optional
\* label and an optional command (tactyk_emit__add_script_command).
HandleLine ==
    LET l == doc[dbcode] IN
    /\ phase = "handle"
    /\ IF l.op = "directive"
       THEN phase' = "move" /\ UNCHANGED commands
       ELSE /\ functions' = FunctionsWith(l.label)
            /\ IF l.op \in {"none", "unknown"}
               THEN /\ active_labels' = LabelsWith(l.label)
                    /\ phase' = IF l.op = "none" THEN "move" ELSE "rejected"
                    /\ UNCHANGED <<script_commands, active_command>>
               ELSE /\ script_commands' = Append(script_commands,
                          [line |-> dbcode, labels |-> LabelsWith(l.label), child |-> None])
                    /\ active_labels' = <<>>
                    /\ active_command' = CommandCount + 1
                    /\ phase' = "move"
    /\ UNCHANGED <<input, loader, blocks, compiler, layout, linked>>

\* Mutant: the limit is compared one too late.
NestFullTooLate == Len(codeblocks) > MaxCodeblockNestLevel

NestFull == Len(codeblocks) >= MaxCodeblockNestLevel

\* tactyk_emit__push_codeblock: the block belongs to the last command added,
\* whatever line the loader descends from.
PushCodeblock ==
    IF active_command = 0
    THEN phase' = "handle" /\ UNCHANGED <<commands, blocks>>
    ELSE IF NestFull
    THEN phase' = "rejected" /\ UNCHANGED <<commands, blocks>>
    ELSE /\ codeblocks' = Append(codeblocks, next_codeblock_id)
         /\ next_codeblock_id' = next_codeblock_id + 1
         /\ script_commands' = [script_commands EXCEPT
                                  ![active_command].child = next_codeblock_id]
         /\ active_labels' = Append(active_labels, First(next_codeblock_id))
         /\ phase' = "handle"
         /\ UNCHANGED <<active_command, functions>>

\* Into the subordinate lines, or on to the next line of this level.
Move ==
    /\ phase = "move"
    /\ IF doc[dbcode].op # "directive" /\ HasChild(dbcode)
       THEN /\ dbstack' = Append(dbstack, dbcode)
            /\ dbcode' = dbcode + 1
            /\ PushCodeblock
       ELSE /\ IF HasPeer(dbcode)
               THEN dbcode' = Peer(dbcode) /\ phase' = "handle"
               ELSE phase' = "unwind" /\ UNCHANGED dbcode
            /\ UNCHANGED <<dbstack, commands, blocks>>
    /\ UNCHANGED <<input, compiler, layout, linked>>

\* tactyk_emit__pop_codeblock.
PopCodeblock ==
    IF codeblocks = <<>>
    THEN UNCHANGED <<commands, blocks>>
    ELSE /\ active_labels' = Append(active_labels, Close(codeblocks[Len(codeblocks)]))
         /\ codeblocks' = SubSeq(codeblocks, 1, Len(codeblocks) - 1)
         /\ UNCHANGED <<script_commands, active_command, functions, next_codeblock_id>>

\* Out of the last line of a level, one level at a time.
Unwind ==
    /\ phase = "unwind"
    /\ IF dbstack = <<>>
       THEN phase' = "compile" /\ UNCHANGED <<loader, commands, blocks>>
       ELSE LET top == dbstack[Len(dbstack)] IN
            /\ PopCodeblock
            /\ dbstack' = SubSeq(dbstack, 1, Len(dbstack) - 1)
            /\ IF HasPeer(top)
               THEN dbcode' = Peer(top) /\ phase' = "handle"
               ELSE UNCHANGED <<dbcode, phase>>
    /\ UNCHANGED <<input, compiler, layout, linked>>

-----------------------------------------------------------------------------
(* Compiling.                                                               *)

\* The label table: every label the loader met, also one without a command.
Known(x) == \E f \in 1 .. Len(functions) : functions[f].label = x

\* The branch operand of `if` is a known label or else the code block.
Branch(cmd) ==
    LET l == doc[cmd.line] IN
    IF l.target # None /\ Known(l.target) THEN "label"
    ELSE IF l.op = "if" /\ cmd.child # None THEN "codeblock"
    ELSE "none"

Accepted(cmd) == doc[cmd.line].op \in {"goto", "if"} => Branch(cmd) # "none"

\* Mutant: the subroutine next-instruction is not defined, which is only warned of.
NoJumpInserted == FALSE

\* Pieces that may end up anywhere are chained by a jump to the next instruction.
JumpInserted == randomize

\* What tactyk_emit__ExecInstruction generates for command i, as places control
\* may leave to; a command that is not terminal gets the next-instruction jump
\* when the layout is shuffled and runs on into the next piece otherwise.
Code(i) ==
    LET cmd == script_commands[i]
        op  == doc[cmd.line].op
        terminal == op \in {"goto", "if", "exit"}
        exits == CASE op = "goto" -> {Lbl(doc[cmd.line].target)}
                   [] op = "if" /\ Branch(cmd) = "label" ->
                          {Cmd(i + 1), Lbl(doc[cmd.line].target)}
                   [] op = "if" /\ Branch(cmd) # "label" ->
                          {First(cmd.child), Close(cmd.child)}
                   [] op = "plain" /\ JumpInserted -> {Cmd(i + 1)}
                   [] OTHER -> {}
    IN  [exits |-> exits, falls |-> ~terminal /\ ~JumpInserted]

\* Mutant: only the command's own.
OwnIndexSymbol == <<Cmd(target_iptr)>>

\* The index symbols a piece takes: its own and those of skipped commands.
IndexSymbols == [k \in 1 .. target_iptr - iptr + 1 |-> Cmd(iptr + k - 1)]

CarriedLabels(cmd) == label \o cmd.labels

\* One turn of the loop of tactyk_emit__compile.  skip generates nothing.
CompileCommand ==
    LET cmd == script_commands[target_iptr] IN
    /\ phase = "compile"
    /\ target_iptr <= CommandCount
    /\ IF doc[cmd.line].op = "skip"
       THEN /\ label' = CarriedLabels(cmd)
            /\ asm_code' = Append(asm_code, [symbols |-> <<>>, exits |-> {}, falls |-> TRUE])
            /\ target_iptr' = target_iptr + 1
            /\ UNCHANGED <<phase, iptr>>
       ELSE IF ~Accepted(cmd)
       THEN phase' = "rejected" /\ UNCHANGED compiler
       ELSE /\ label' = <<>>
            /\ asm_code' = Append(asm_code,
                  [symbols |-> CarriedLabels(cmd) \o IndexSymbols,
                   exits |-> Code(target_iptr).exits, falls |-> Code(target_iptr).falls])
            /\ target_iptr' = target_iptr + 1
            /\ iptr' = target_iptr + 1
            /\ UNCHANGED phase
    /\ UNCHANGED <<input, loader, commands, blocks, layout, linked>>

\* The shuffle of an empty program divides by zero (program_size - 1 wraps).
BeginLayout ==
    /\ phase = "compile"
    /\ target_iptr > CommandCount
    /\ phase' = IF randomize /\ CommandCount = 0 THEN "crashed" ELSE "layout"
    /\ program_map' = [k \in 1 .. CommandCount |-> k]
    /\ shuffled' = 1
    /\ UNCHANGED <<input, loader, commands, blocks, compiler, linked>>

\* Mutant: the second store reads what the first one wrote.
SwappedInPlace(map, i, j) == [map EXCEPT ![i] = map[j]]

Swapped(map, i, j) == [map EXCEPT ![i] = map[j], ![j] = map[i]]

\* One turn of the shuffle, with any value tactyk_util__rand_range may return.
Shuffle ==
    /\ phase = "layout" /\ randomize
    /\ shuffled < CommandCount
    /\ \E j \in shuffled .. CommandCount : program_map' = Swapped(program_map, shuffled, j)
    /\ shuffled' = shuffled + 1
    /\ UNCHANGED <<input, phase, loader, commands, blocks, compiler, linked>>

-----------------------------------------------------------------------------
(* Assembling and linking.                                                  *)

Piece(p) == asm_code[program_map[p]]

Holds(p, sym) == \E s \in 1 .. Len(Piece(p).symbols) : Piece(p).symbols[s] = sym

Defined(sym) == \E p \in 1 .. CommandCount : Holds(p, sym)

Address(sym) == CHOOSE p \in 1 .. CommandCount : Holds(p, sym)

\* The assembler accepts a program whose symbols are defined if they are referred
\* to, and stand for one address: nasm (since 2.15) takes a name again in front of
\* the same piece.
Assembles ==
    /\ \A p \in 1 .. CommandCount : \A sym \in Piece(p).exits : Defined(sym)
    /\ \A p, q \in 1 .. CommandCount :
          \A s \in 1 .. Len(Piece(p).symbols) : Holds(q, Piece(p).symbols[s]) => p = q

\* command_map gets an entry for each index symbol; the others stay NULL.
Link ==
    /\ phase = "layout"
    /\ randomize => shuffled >= CommandCount
    /\ IF Assembles
       THEN /\ phase' = "linked"
            /\ command_map' = [i \in 1 .. CommandCount |->
                                 IF Defined(Cmd(i)) THEN Address(Cmd(i)) ELSE 0]
       ELSE phase' = "rejected" /\ UNCHANGED command_map
    /\ UNCHANGED <<input, loader, commands, blocks, compiler, layout, pc>>

-----------------------------------------------------------------------------
(* Running.                                                                 *)

Enter(position) ==
    /\ IF position = 0 THEN phase' = "crashed" /\ UNCHANGED pc
                       ELSE pc' = position /\ UNCHANGED phase
    /\ UNCHANGED <<input, loader, commands, blocks, compiler, layout, command_map>>

\* The table of functions keeps the last definition of a name.
LastDefinition(f) ==
    \A g \in f + 1 .. Len(functions) : functions[g].label # functions[f].label

\* tactyk_asmvm__call looks a name up and refuses an index past the program.
CallByName(f) ==
    /\ phase = "linked" /\ pc = 0
    /\ LastDefinition(f)
    /\ functions[f].value <= CommandCount
    /\ Enter(command_map[functions[f].value])

\* The copy add_program makes of the entry, which tvmjump goes through: an index
\* past command_map reads whatever lies there, as a rule nothing.
FunctionMap(f) ==
    IF functions[f].value <= CommandCount THEN command_map[functions[f].value] ELSE 0

\* The copy has an entry for each name, taken from the first ones of the store.
InFunctionMap(f) == f <= Cardinality({functions[g].label : g \in 1 .. Len(functions)})

CallByIndex(f) ==
    /\ phase = "linked" /\ pc = 0
    /\ InFunctionMap(f)
    /\ Enter(FunctionMap(f))

\* Control leaves a piece by one of its jumps.
Jump ==
    /\ phase = "linked" /\ pc # 0
    /\ \E sym \in Piece(pc).exits : Enter(Address(sym))

\* Control runs on into the next piece that has code.
FallThrough ==
    LET after == {p \in pc + 1 .. CommandCount : Piece(p).symbols # <<>>} IN
    /\ phase = "linked" /\ pc # 0
    /\ Piece(pc).falls
    /\ \/ after = {} /\ Enter(0)
       \/ \E p \in after : (\A q \in after : p <= q) /\ Enter(p)

Leave ==
    /\ phase = "linked" /\ pc # 0
    /\ Piece(pc).exits = {} /\ ~Piece(pc).falls
    /\ pc' = 0
    /\ UNCHANGED <<input, phase, loader, commands, blocks, compiler, layout, command_map>>

-----------------------------------------------------------------------------

Build == HandleLine \/ Move \/ Unwind \/ CompileCommand \/ BeginLayout \/ Shuffle \/ Link

Run ==
    \/ \E f \in 1 .. Len(functions) : CallByName(f) \/ CallByIndex(f)
    \/ Jump
    \/ FallThrough
    \/ Leave

Next == Build \/ Run

Spec == Init /\ [][Next]_vars

-----------------------------------------------------------------------------
(* Properties.                                                              *)

LaidOut == {"layout", "linked"}

Symbol == ({"lbl#"} \X Label)
          \cup ({"codeblock_first#", "codeblock_close#", "cmd#"} \X Nat)

Command == [line : 1 .. Len(doc), labels : Seq(Symbol), child : Nat \cup {None}]

GeneratedCode == [symbols : Seq(Symbol), exits : SUBSET Symbol, falls : BOOLEAN]

TypeOK ==
    /\ doc \in Seq(DocumentLine) /\ doc # <<>> /\ randomize \in BOOLEAN
    /\ phase \in {"handle", "move", "unwind", "compile", "rejected", "crashed"} \cup LaidOut
    /\ dbcode \in 1 .. Len(doc) /\ dbstack \in Seq(1 .. Len(doc))
    /\ script_commands \in Seq(Command) /\ active_command \in 0 .. CommandCount
    /\ active_labels \in Seq(Symbol)
    /\ functions \in Seq([label : Label, value : Nat \ {0}])
    /\ codeblocks \in Seq(Nat) /\ next_codeblock_id \in Nat
    /\ Len(codeblocks) <= MaxCodeblockNestLevel
    /\ label \in Seq(Symbol) /\ asm_code \in Seq(GeneratedCode)
    /\ target_iptr \in 1 .. CommandCount + 1 /\ iptr \in 1 .. target_iptr
    /\ Len(asm_code) = target_iptr - 1
    /\ shuffled \in Nat \ {0}
    /\ phase = "linked" => command_map \in [1 .. CommandCount -> 0 .. CommandCount]
    /\ pc \in 0 .. CommandCount

\* However the random numbers fall, the shuffle neither loses a command nor
\* emits one twice (the loop over program_map in tactyk_emit__compile).
EveryCommandEmittedOnce ==
    phase \in LaidOut =>
        /\ program_map \in [1 .. CommandCount -> 1 .. CommandCount]
        /\ \A p, q \in 1 .. CommandCount : program_map[p] = program_map[q] => p = q

Script == INSTANCE ScriptFlow WITH
             line <- IF pc = 0 THEN 0 ELSE script_commands[program_map[pc]].line

\* The built program does what the document says, for every layout: its jumps,
\* code blocks, skipped commands and tables lead to the command the author of the
\* document expects next.
ImplementsScript == Script!Spec

\* Dispatching by index (goto with a number, lwreturn, resume) reaches the
\* command of that index, or the one after it when that is a skip, and nothing
\* only when skips are all that is left.
IndexReachesCommand ==
    phase = "linked" =>
        \A i \in 1 .. CommandCount :
            LET reached == Script!FirstFrom(script_commands[i].line) IN
            IF reached = 0 THEN command_map[i] = 0
            ELSE /\ command_map[i] # 0
                 /\ script_commands[program_map[command_map[i]]].line = reached

\* A function that another program can call by its index begins at a command
\* ("the next command appended is what the branch target will point at",
\* doc/tactyk-emit.txt:43), unlike an index read past the end of command_map.
FunctionsBegin ==
    phase = "linked" => \A f \in 1 .. Len(functions) : InFunctionMap(f) => FunctionMap(f) # 0

\* The close label of the block of an `if` stands outside of that block
\* ("branch target to the first line of code outside of the code block",
\* doc/tactyk-core [v-isa].txt:233).
BlockClosesOutside ==
    phase = "linked" =>
        \A i \in 1 .. CommandCount :
            LET cmd == script_commands[i] IN
            doc[cmd.line].op = "if" /\ Branch(cmd) = "codeblock" =>
                script_commands[program_map[Address(Close(cmd.child))]].line
                    = Script!FirstFrom(Script!BlockEnd(cmd.line))

=============================================================================
