------------------------- MODULE ProgramBuildProofs -------------------------
(***************************************************************************)
(* Theorems about the path from a document to running code.                *)
(*                                                                         *)
(* First part: for any documents, any limit on nesting and any outcome of  *)
(* the random numbers, the loader and the compiler keep the shape of their *)
(* state, and the executable holds every command exactly once.             *)
(* Second part: an index or a function leads to the command it names.      *)
(* Third part: the program does what its document says (ScriptFlow).       *)
(***************************************************************************)
EXTENDS ProgramBuild, SequenceTheorems, WellFoundedInduction, TLAPS

\* A program that was linked has an address for every jump.
JumpsDefined ==
    phase = "linked" =>
        \A p \in 1 .. CommandCount : \A sym \in Piece(p).exits : Defined(sym)

\* The compiler has turned every command into code before the layout begins.
AllGenerated == phase \in LaidOut => target_iptr = CommandCount + 1

Inv == TypeOK /\ EveryCommandEmittedOnce /\ AllGenerated /\ JumpsDefined

\* Taking the last element off a sequence.
LEMMA FrontOfSeq ==
    ASSUME NEW S, NEW s \in Seq(S), s # <<>>
    PROVE  /\ SubSeq(s, 1, Len(s) - 1) \in Seq(S)
           /\ Len(SubSeq(s, 1, Len(s) - 1)) = Len(s) - 1
           /\ s[Len(s)] \in S
<1>1. Len(s) \in Nat \ {0}
  BY EmptySeq
<1>2. \A i \in 1 .. Len(s) : s[i] \in S
  BY ElementOfSeq
<1>3. \A i \in 1 .. Len(s) - 1 : s[i] \in S
  BY <1>1, <1>2
<1>4. 1 \in Int /\ Len(s) - 1 \in Int
  BY <1>1
<1> DEFINE n == Len(s) - 1
<1>5. n \in Int /\ \A i \in 1 .. n : s[i] \in S
  BY <1>3, <1>4
<1> HIDE DEF n
<1>6. /\ SubSeq(s, 1, n) \in Seq(S)
      /\ Len(SubSeq(s, 1, n)) = IF 1 <= n THEN n - 1 + 1 ELSE 0
  BY <1>4, <1>5, SubSeqProperties
<1>7. n \in Nat
  BY <1>1 DEF n
<1>8. s[Len(s)] \in S
  BY <1>1, <1>2
<1>9. Len(SubSeq(s, 1, n)) = n
  <2>1. CASE 1 <= n
    BY <1>6, <1>7, <2>1
  <2>2. CASE n = 0
    BY <1>6, <2>2
  <2> QED
    BY <1>7, <2>1, <2>2
<1> QED
  BY <1>6, <1>8, <1>9 DEF n

\* The four kinds of symbols.
LEMMA SymbolTypes ==
    /\ \A x \in Label : Lbl(x) \in Symbol
    /\ \A i \in Nat : First(i) \in Symbol /\ Close(i) \in Symbol /\ Cmd(i) \in Symbol
BY DEF Lbl, First, Close, Cmd, Symbol

LEMMA PeerType ==
    ASSUME NEW l, HasPeer(l)
    PROVE  Peer(l) \in 1 .. Len(doc)
BY DEF HasPeer, Peer

LEMMA InitInv == Init => Inv
<1> SUFFICES ASSUME Init PROVE Inv
  OBVIOUS
<1>1. doc \in Seq(DocumentLine) /\ doc # <<>> /\ randomize \in BOOLEAN
  BY InputsAssumption DEF Init
<1>2. Len(doc) \in Nat \ {0}
  BY <1>1, EmptySeq
<1>3. TypeOK
  BY <1>1, <1>2, InputsAssumption, EmptySeq DEF Init, TypeOK, CommandCount, LaidOut
<1>4. EveryCommandEmittedOnce /\ AllGenerated /\ JumpsDefined
  BY DEF Init, EveryCommandEmittedOnce, AllGenerated, JumpsDefined, LaidOut
<1> QED
  BY <1>3, <1>4 DEF Inv

LEMMA HandleLineStep == Inv /\ HandleLine => Inv'
<1> SUFFICES ASSUME Inv, HandleLine PROVE Inv'
  OBVIOUS
<1> USE DEF Inv
<1> DEFINE l == doc[dbcode]
<1>1. l \in DocumentLine /\ Len(doc) \in Nat
  BY ElementOfSeq, EmptySeq DEF TypeOK
<1>2. CommandCount \in Nat
  BY LenProperties DEF TypeOK, CommandCount
<1>3. LabelsWith(l.label) \in Seq(Symbol)
  BY <1>1, AppendProperties, SymbolTypes DEF LabelsWith, TypeOK, DocumentLine
<1>4. FunctionsWith(l.label) \in Seq([label : Label, value : Nat \ {0}])
  <2>1. FunctionValue \in Nat \ {0}
    BY <1>2 DEF FunctionValue
  <2> QED
    BY <1>1, <2>1, AppendProperties DEF FunctionsWith, TypeOK, DocumentLine
<1>5. phase' \notin LaidOut
  BY DEF HandleLine, LaidOut
<1>6. TypeOK'
  <2>1. CASE UNCHANGED commands
    BY <2>1, <1>5 DEF HandleLine, TypeOK, commands, input, loader, blocks, compiler, layout,
        linked, CommandCount, LaidOut, Command
  <2>2. CASE l.op \in {"none", "unknown"}
    BY <2>2, <1>3, <1>4, <1>5 DEF HandleLine, TypeOK, input, loader, blocks, compiler, layout,
        linked, CommandCount, LaidOut, Command
  <2>3. CASE l.op \notin {"none", "unknown", "directive"}
    <3> DEFINE cmd == [line |-> dbcode, labels |-> LabelsWith(l.label), child |-> None]
    <3>1. cmd \in Command
      BY <1>3 DEF Command, TypeOK
    <3>2. script_commands' = Append(script_commands, cmd) /\ active_command' = CommandCount + 1
      BY <2>3 DEF HandleLine
    <3>3. script_commands' \in Seq(Command) /\ CommandCount' = CommandCount + 1
      BY <3>1, <3>2, AppendProperties DEF CommandCount, TypeOK
    <3>4. active_labels' = <<>> /\ functions' = FunctionsWith(l.label)
      BY <2>3 DEF HandleLine
    <3>5. target_iptr' \in 1 .. CommandCount' + 1 /\ pc' \in 0 .. CommandCount'
      BY <3>3, <1>2 DEF HandleLine, TypeOK, compiler, linked
    <3>6. active_labels' \in Seq(Symbol)
      BY <3>4, EmptySeq
    <3> QED
      BY <3>2, <3>3, <3>4, <3>5, <3>6, <1>2, <1>4, <1>5 DEF HandleLine, TypeOK, input, loader,
         blocks, compiler, layout, linked, LaidOut, Command
  <2> QED
    BY <2>1, <2>2, <2>3 DEF HandleLine
<1>7. EveryCommandEmittedOnce' /\ AllGenerated' /\ JumpsDefined'
  BY <1>5 DEF EveryCommandEmittedOnce, AllGenerated, JumpsDefined, LaidOut
<1> QED
  BY <1>6, <1>7

\* What Move and Unwind do to the blocks keeps the shape of the loader.
LEMMA PushStep ==
    ASSUME Inv, PushCodeblock
    PROVE  /\ script_commands' \in Seq(Command) /\ CommandCount' = CommandCount
           /\ active_labels' \in Seq(Symbol)
           /\ active_command' \in 0 .. CommandCount
           /\ functions' = functions
           /\ codeblocks' \in Seq(Nat) /\ next_codeblock_id' \in Nat
           /\ Len(codeblocks') <= MaxCodeblockNestLevel
           /\ phase' \in {"handle", "rejected"}
<1> USE DEF Inv
<1>1. CASE UNCHANGED <<commands, blocks>> /\ phase' \in {"handle", "rejected"}
  BY <1>1 DEF TypeOK, commands, blocks, CommandCount
<1>2. CASE active_command # 0 /\ ~NestFull
  <2> DEFINE old == script_commands[active_command]
             new == [old EXCEPT !.child = next_codeblock_id]
  <2>1. active_command \in 1 .. Len(script_commands)
    BY <1>2, LenProperties DEF TypeOK, CommandCount
  <2>2. old \in Command
    BY <2>1, ElementOfSeq DEF TypeOK
  <2>3. new \in Command
    BY <2>2 DEF Command, TypeOK
  <2>4. script_commands' = [script_commands EXCEPT ![active_command] = new]
    BY <1>2 DEF PushCodeblock
  <2>5. script_commands' \in Seq(Command) /\ CommandCount' = CommandCount
    BY <2>1, <2>3, <2>4, ExceptSeq DEF TypeOK, CommandCount
  <2>6. /\ next_codeblock_id \in Nat /\ First(next_codeblock_id) \in Symbol
        /\ active_labels \in Seq(Symbol) /\ codeblocks \in Seq(Nat)
    BY SymbolTypes DEF TypeOK
  <2>7. /\ active_labels' = Append(active_labels, First(next_codeblock_id))
        /\ codeblocks' = Append(codeblocks, next_codeblock_id)
        /\ next_codeblock_id' = next_codeblock_id + 1
        /\ phase' = "handle" /\ UNCHANGED <<active_command, functions>>
    BY <1>2 DEF PushCodeblock
  <2>8. active_labels' \in Seq(Symbol)
    BY <2>6, <2>7, AppendProperties
  <2>9. codeblocks' \in Seq(Nat) /\ Len(codeblocks') = Len(codeblocks) + 1
    BY <2>6, <2>7, AppendProperties
  <2>10. Len(codeblocks') <= MaxCodeblockNestLevel
    <3>1. Len(codeblocks) \in Nat
      BY <2>6, LenProperties
    <3> QED
      BY <1>2, <2>9, <3>1, InputsAssumption DEF NestFull
  <2> QED
    BY <2>5, <2>6, <2>7, <2>8, <2>9, <2>10 DEF TypeOK
<1> QED
  BY <1>1, <1>2 DEF PushCodeblock

LEMMA PopStep ==
    ASSUME Inv, PopCodeblock
    PROVE  /\ UNCHANGED <<script_commands, active_command, functions, next_codeblock_id>>
           /\ active_labels' \in Seq(Symbol)
           /\ codeblocks' \in Seq(Nat) /\ Len(codeblocks') <= MaxCodeblockNestLevel
<1> USE DEF Inv
<1>1. CASE codeblocks = <<>>
  BY <1>1 DEF PopCodeblock, TypeOK, commands, blocks
<1>2. CASE codeblocks # <<>>
  <2>1. /\ SubSeq(codeblocks, 1, Len(codeblocks) - 1) \in Seq(Nat)
        /\ Len(SubSeq(codeblocks, 1, Len(codeblocks) - 1)) = Len(codeblocks) - 1
        /\ codeblocks[Len(codeblocks)] \in Nat
    BY <1>2, FrontOfSeq DEF TypeOK
  <2>2. /\ active_labels' = Append(active_labels, Close(codeblocks[Len(codeblocks)]))
        /\ codeblocks' = SubSeq(codeblocks, 1, Len(codeblocks) - 1)
        /\ UNCHANGED <<script_commands, active_command, functions, next_codeblock_id>>
    BY <1>2 DEF PopCodeblock
  <2>3. Close(codeblocks[Len(codeblocks)]) \in Symbol /\ active_labels \in Seq(Symbol)
    BY <2>1, SymbolTypes DEF TypeOK
  <2>4. active_labels' \in Seq(Symbol)
    BY <2>2, <2>3, AppendProperties
  <2>5. Len(codeblocks) \in Nat /\ Len(codeblocks) <= MaxCodeblockNestLevel
    BY LenProperties DEF TypeOK
  <2> QED
    BY <2>1, <2>2, <2>4, <2>5, InputsAssumption
<1> QED
  BY <1>1, <1>2

LEMMA MoveStep == Inv /\ Move => Inv'
<1> SUFFICES ASSUME Inv, Move PROVE Inv'
  OBVIOUS
<1> USE DEF Inv
<1>1. Len(doc) \in Nat /\ dbcode \in 1 .. Len(doc)
  BY EmptySeq DEF TypeOK
<1>2. CASE doc[dbcode].op # "directive" /\ HasChild(dbcode)
  <2>1. PushCodeblock
    BY <1>2 DEF Move
  <2>2. dbcode' \in 1 .. Len(doc) /\ dbstack' \in Seq(1 .. Len(doc))
    <3>1. dbcode' = dbcode + 1 /\ dbstack' = Append(dbstack, dbcode)
      BY <1>2 DEF Move
    <3>2. dbstack \in Seq(1 .. Len(doc))
      BY DEF TypeOK
    <3>3. dbstack' \in Seq(1 .. Len(doc))
      BY <1>1, <3>1, <3>2, AppendProperties
    <3> QED
      BY <1>1, <1>2, <3>1, <3>3 DEF HasChild
  <2>3. phase' \notin LaidOut
    BY <2>1, PushStep DEF LaidOut
  <2>4. TypeOK'
    BY <2>1, <2>2, <2>3, PushStep DEF Move, TypeOK, input, compiler, layout, linked, LaidOut,
       Command
  <2> QED
    BY <2>3, <2>4 DEF EveryCommandEmittedOnce, AllGenerated, JumpsDefined, LaidOut
<1>3. CASE ~(doc[dbcode].op # "directive" /\ HasChild(dbcode))
  <2>1. dbcode' \in 1 .. Len(doc)
    BY <1>1, <1>3, PeerType DEF Move
  <2>2. phase' \in {"handle", "unwind"}
    BY <1>3 DEF Move
  <2>3. TypeOK'
    BY <1>3, <2>1, <2>2 DEF Move, TypeOK, input, commands, blocks, compiler, layout, linked,
       LaidOut, Command, CommandCount
  <2> QED
    BY <2>2, <2>3 DEF EveryCommandEmittedOnce, AllGenerated, JumpsDefined, LaidOut
<1> QED
  BY <1>2, <1>3

LEMMA UnwindStep == Inv /\ Unwind => Inv'
<1> SUFFICES ASSUME Inv, Unwind PROVE Inv'
  OBVIOUS
<1> USE DEF Inv
<1>1. phase' \in {"compile", "handle", "unwind"}
  BY DEF Unwind
<1>2. CASE dbstack = <<>>
  <2>1. UNCHANGED <<input, loader, commands, blocks, compiler, layout, linked>>
    BY <1>2 DEF Unwind
  <2>2. TypeOK'
    BY <1>1, <2>1 DEF TypeOK, input, loader, commands, blocks, compiler, layout, linked,
       LaidOut, Command, CommandCount
  <2> QED
    BY <1>1, <2>2 DEF EveryCommandEmittedOnce, AllGenerated, JumpsDefined, LaidOut
<1>3. CASE dbstack # <<>>
  <2>1. PopCodeblock
    BY <1>3 DEF Unwind
  <2>2. dbstack' \in Seq(1 .. Len(doc))
    <3>1. dbstack' = SubSeq(dbstack, 1, Len(dbstack) - 1)
      BY <1>3 DEF Unwind
    <3>2. dbstack \in Seq(1 .. Len(doc))
      BY DEF TypeOK
    <3> QED
      BY <1>3, <3>1, <3>2, FrontOfSeq
  <2>3. dbcode' \in 1 .. Len(doc)
    <3> DEFINE top == dbstack[Len(dbstack)]
    <3>1. top \in 1 .. Len(doc) /\ dbcode \in 1 .. Len(doc)
      BY <1>3, FrontOfSeq DEF TypeOK
    <3>2. IF HasPeer(top) THEN dbcode' = Peer(top) ELSE dbcode' = dbcode
      BY <1>3 DEF Unwind
    <3> HIDE DEF top
    <3> QED
      BY <3>1, <3>2, PeerType
  <2>4. TypeOK'
    BY <1>1, <1>3, <2>1, <2>2, <2>3, PopStep DEF Unwind, TypeOK, input, compiler, layout, linked,
       LaidOut, Command, CommandCount
  <2> QED
    BY <1>1, <2>4 DEF EveryCommandEmittedOnce, AllGenerated, JumpsDefined, LaidOut
<1> QED
  BY <1>2, <1>3

\* The code of a command has symbols of the right kind.
LEMMA CommandFacts ==
    ASSUME Inv, phase = "compile", target_iptr <= CommandCount
    PROVE  /\ target_iptr \in 1 .. CommandCount /\ CommandCount \in Nat
           /\ script_commands[target_iptr] \in Command
           /\ CarriedLabels(script_commands[target_iptr]) \in Seq(Symbol)
<1> USE DEF Inv
<1>1. CommandCount \in Nat /\ target_iptr \in 1 .. CommandCount
  BY LenProperties DEF TypeOK, CommandCount
<1>2. script_commands[target_iptr] \in Command
  BY <1>1, ElementOfSeq DEF TypeOK, CommandCount
<1>3. script_commands[target_iptr].labels \in Seq(Symbol) /\ label \in Seq(Symbol)
  BY <1>2 DEF Command, TypeOK
<1>4. CarriedLabels(script_commands[target_iptr]) \in Seq(Symbol)
  BY <1>3, ConcatProperties DEF CarriedLabels
<1> QED
  BY <1>1, <1>2, <1>4

LEMMA IndexSymbolsType ==
    ASSUME Inv PROVE IndexSymbols \in Seq(Symbol)
<1>1. target_iptr \in Nat /\ iptr \in 1 .. target_iptr
  <2>1. CommandCount \in Nat
    BY LenProperties DEF Inv, TypeOK, CommandCount
  <2> QED
    BY <2>1 DEF Inv, TypeOK
<1> DEFINE n == target_iptr - iptr + 1
<1>2. n \in Nat
  BY <1>1
<1>3. \A k \in 1 .. n : Cmd(iptr + k - 1) \in Symbol
  BY <1>1, SymbolTypes
<1> HIDE DEF n
<1>4. [k \in 1 .. n |-> Cmd(iptr + k - 1)] \in Seq(Symbol)
  BY <1>2, <1>3
<1> QED
  BY <1>4 DEF IndexSymbols, n

\* An exit that names a label of the document names one that is known.
LEMMA CodeType ==
    ASSUME Inv, phase = "compile", target_iptr <= CommandCount,
           Accepted(script_commands[target_iptr])
    PROVE  Code(target_iptr).exits \subseteq Symbol /\ Code(target_iptr).falls \in BOOLEAN
<1> DEFINE cmd == script_commands[target_iptr]
           l == doc[cmd.line]
<1>1. target_iptr \in Nat /\ cmd \in Command /\ l \in DocumentLine
  <2>1. target_iptr \in Nat /\ cmd \in Command
    BY CommandFacts
  <2>2. cmd.line \in 1 .. Len(doc)
    BY <2>1 DEF Command
  <2> QED
    BY <2>1, <2>2, ElementOfSeq DEF Inv, TypeOK
<1>2. Cmd(target_iptr + 1) \in Symbol
  BY <1>1, SymbolTypes
<1>3. Branch(cmd) = "label" => l.target \in Label /\ Lbl(l.target) \in Symbol
  BY <1>1, SymbolTypes DEF Branch, DocumentLine
<1>4. Branch(cmd) = "codeblock" => First(cmd.child) \in Symbol /\ Close(cmd.child) \in Symbol
  BY <1>1, SymbolTypes DEF Branch, Command
<1>5. Branch(cmd) \in {"label", "codeblock", "none"}
  BY DEF Branch
<1>6. l.op = "goto" => Branch(cmd) = "label"
  BY DEF Accepted, Branch
<1>7. l.op = "if" => Branch(cmd) \in {"label", "codeblock"}
  BY <1>5 DEF Accepted
<1>8. Code(target_iptr).exits \subseteq Symbol
  BY <1>2, <1>3, <1>4, <1>5, <1>6, <1>7 DEF Code
<1>9. Code(target_iptr).falls \in BOOLEAN
  BY DEF Code
<1> QED
  BY <1>8, <1>9

LEMMA CompileCommandStep == Inv /\ CompileCommand => Inv'
<1> SUFFICES ASSUME Inv, CompileCommand PROVE Inv'
  OBVIOUS
<1> USE DEF Inv
<1> DEFINE cmd == script_commands[target_iptr]
<1>1. /\ phase = "compile" /\ target_iptr \in 1 .. CommandCount /\ CommandCount \in Nat
      /\ cmd \in Command /\ CarriedLabels(cmd) \in Seq(Symbol)
  <2>1. phase = "compile" /\ target_iptr <= CommandCount
    BY DEF CompileCommand
  <2> QED
    BY <2>1, CommandFacts
<1>2. phase' \in {"compile", "rejected"}
  BY <1>1 DEF CompileCommand
<1>3. /\ UNCHANGED <<input, loader, commands, blocks, layout, linked>>
      /\ CommandCount' = CommandCount
  BY DEF CompileCommand, commands, CommandCount
<1>4. /\ label' \in Seq(Symbol) /\ asm_code' \in Seq(GeneratedCode)
      /\ target_iptr' \in 1 .. CommandCount + 1 /\ iptr' \in 1 .. target_iptr'
      /\ Len(asm_code') = target_iptr' - 1
  <2>1. CASE doc[cmd.line].op = "skip"
    <3> DEFINE code == [symbols |-> <<>>, exits |-> {}, falls |-> TRUE]
    <3>1. code \in GeneratedCode
      BY EmptySeq DEF GeneratedCode
    <3>2. /\ label' = CarriedLabels(cmd) /\ asm_code' = Append(asm_code, code)
          /\ target_iptr' = target_iptr + 1 /\ iptr' = iptr
      BY <2>1 DEF CompileCommand
    <3>3. asm_code \in Seq(GeneratedCode)
      BY DEF TypeOK
    <3>4. asm_code' \in Seq(GeneratedCode) /\ Len(asm_code') = Len(asm_code) + 1
      BY <3>1, <3>2, <3>3, AppendProperties
    <3> QED
      BY <1>1, <3>2, <3>4 DEF TypeOK
  <2>2. CASE doc[cmd.line].op # "skip" /\ ~Accepted(cmd)
    BY <2>2, <1>1 DEF CompileCommand, TypeOK, compiler
  <2>3. CASE doc[cmd.line].op # "skip" /\ Accepted(cmd)
    <3> DEFINE code == [symbols |-> CarriedLabels(cmd) \o IndexSymbols,
                        exits |-> Code(target_iptr).exits, falls |-> Code(target_iptr).falls]
    <3>1. CarriedLabels(cmd) \o IndexSymbols \in Seq(Symbol)
      BY <1>1, IndexSymbolsType, ConcatProperties
    <3>2. code \in GeneratedCode
      BY <2>3, <1>1, <3>1, CodeType DEF GeneratedCode
    <3>3. /\ label' = <<>> /\ asm_code' = Append(asm_code, code)
          /\ target_iptr' = target_iptr + 1 /\ iptr' = target_iptr + 1
      BY <2>3 DEF CompileCommand
    <3>4. asm_code \in Seq(GeneratedCode)
      BY DEF TypeOK
    <3>5. asm_code' \in Seq(GeneratedCode) /\ Len(asm_code') = Len(asm_code) + 1
      BY <3>2, <3>3, <3>4, AppendProperties
    <3>6. label' \in Seq(Symbol)
      BY <3>3, EmptySeq
    <3> QED
      BY <1>1, <3>3, <3>5, <3>6 DEF TypeOK
  <2> QED
    BY <2>1, <2>2, <2>3
<1>5. TypeOK'
  BY <1>2, <1>3, <1>4 DEF TypeOK, input, loader, commands, blocks, layout, linked, LaidOut,
     Command
<1>6. EveryCommandEmittedOnce' /\ AllGenerated' /\ JumpsDefined'
  BY <1>2 DEF EveryCommandEmittedOnce, AllGenerated, JumpsDefined, LaidOut
<1> QED
  BY <1>5, <1>6

LEMMA BeginLayoutStep == Inv /\ BeginLayout => Inv'
<1> SUFFICES ASSUME Inv, BeginLayout PROVE Inv'
  OBVIOUS
<1> USE DEF Inv
<1>1. CommandCount \in Nat /\ target_iptr = CommandCount + 1
  <2>1. CommandCount \in Nat
    BY LenProperties DEF TypeOK, CommandCount
  <2> QED
    BY <2>1 DEF BeginLayout, TypeOK
<1>2. /\ UNCHANGED <<input, loader, commands, blocks, compiler, linked>>
      /\ CommandCount' = CommandCount /\ shuffled' = 1
      /\ program_map' = [k \in 1 .. CommandCount |-> k]
      /\ phase' \in {"crashed", "layout"}
  BY DEF BeginLayout, commands, CommandCount
<1>3. TypeOK'
  BY <1>2 DEF TypeOK, input, loader, commands, blocks, compiler, linked, LaidOut, Command
<1>4. EveryCommandEmittedOnce'
  BY <1>2 DEF EveryCommandEmittedOnce
<1>5. AllGenerated' /\ JumpsDefined'
  BY <1>1, <1>2 DEF AllGenerated, JumpsDefined, compiler
<1> QED
  BY <1>3, <1>4, <1>5

LEMMA ShuffleStep == Inv /\ Shuffle => Inv'
<1> SUFFICES ASSUME Inv, Shuffle PROVE Inv'
  OBVIOUS
<1> USE DEF Inv
<1>1. CommandCount \in Nat
  BY LenProperties DEF TypeOK, CommandCount
<1>2. /\ UNCHANGED <<input, phase, loader, commands, blocks, compiler, linked>>
      /\ CommandCount' = CommandCount /\ shuffled' = shuffled + 1 /\ phase = "layout"
  BY DEF Shuffle, commands, CommandCount
<1>3. TypeOK'
  BY <1>2 DEF TypeOK, input, loader, commands, blocks, compiler, linked, LaidOut, Command
<1>4. PICK j \in shuffled .. CommandCount : program_map' = Swapped(program_map, shuffled, j)
  BY DEF Shuffle
<1>5. shuffled \in 1 .. CommandCount /\ j \in 1 .. CommandCount
  BY <1>1, <1>4 DEF Shuffle, TypeOK
<1>6. /\ program_map \in [1 .. CommandCount -> 1 .. CommandCount]
      /\ \A p, q \in 1 .. CommandCount : program_map[p] = program_map[q] => p = q
  BY <1>2 DEF EveryCommandEmittedOnce, LaidOut
<1>7. /\ program_map' \in [1 .. CommandCount -> 1 .. CommandCount]
      /\ \A p, q \in 1 .. CommandCount : program_map'[p] = program_map'[q] => p = q
  <2> DEFINE n == CommandCount
  <2>1. n \in Nat /\ shuffled \in 1 .. n /\ j \in 1 .. n
    BY <1>1, <1>5
  <2>2. /\ program_map \in [1 .. n -> 1 .. n]
        /\ \A p, q \in 1 .. n : program_map[p] = program_map[q] => p = q
    BY <1>6
  <2> HIDE DEF n
  <2>3. /\ Swapped(program_map, shuffled, j) \in [1 .. n -> 1 .. n]
        /\ \A p, q \in 1 .. n :
              Swapped(program_map, shuffled, j)[p] = Swapped(program_map, shuffled, j)[q] => p = q
    BY <2>1, <2>2 DEF Swapped
  <2> QED
    BY <1>4, <2>3 DEF n
<1>8. EveryCommandEmittedOnce'
  BY <1>2, <1>7 DEF EveryCommandEmittedOnce
<1>9. AllGenerated' /\ JumpsDefined'
  BY <1>2 DEF AllGenerated, JumpsDefined, compiler, LaidOut
<1> QED
  BY <1>3, <1>8, <1>9

\* An address is a position in the executable.
LEMMA AddressType ==
    ASSUME NEW sym, Defined(sym)
    PROVE  Address(sym) \in 1 .. CommandCount
BY DEF Defined, Address

LEMMA LinkStep == Inv /\ Link => Inv'
<1> SUFFICES ASSUME Inv, Link PROVE Inv'
  OBVIOUS
<1> USE DEF Inv
<1>1. /\ UNCHANGED <<input, loader, commands, blocks, compiler, layout, pc>>
      /\ CommandCount' = CommandCount /\ phase = "layout" /\ phase' \in {"linked", "rejected"}
  BY DEF Link, commands, CommandCount
<1>2. phase' = "linked" => command_map' \in [1 .. CommandCount -> 0 .. CommandCount]
  <2> SUFFICES ASSUME phase' = "linked"
               PROVE  command_map' \in [1 .. CommandCount -> 0 .. CommandCount]
    OBVIOUS
  <2>1. command_map' = [i \in 1 .. CommandCount |->
                          IF Defined(Cmd(i)) THEN Address(Cmd(i)) ELSE 0]
    BY DEF Link
  <2>2. \A i \in 1 .. CommandCount :
           (IF Defined(Cmd(i)) THEN Address(Cmd(i)) ELSE 0) \in 0 .. CommandCount
    <3>1. CommandCount \in Nat
      BY LenProperties DEF TypeOK, CommandCount
    <3> TAKE i \in 1 .. CommandCount
    <3>2. CASE Defined(Cmd(i))
      BY <3>1, <3>2, AddressType
    <3>3. CASE ~Defined(Cmd(i))
      BY <3>1, <3>3
    <3> QED
      BY <3>2, <3>3
  <2> QED
    BY <2>1, <2>2
<1>3. TypeOK'
  BY <1>1, <1>2 DEF TypeOK, input, loader, commands, blocks, compiler, layout, LaidOut, Command
<1>4. EveryCommandEmittedOnce'
  BY <1>1 DEF EveryCommandEmittedOnce, LaidOut, layout
<1>5. AllGenerated'
  BY <1>1 DEF AllGenerated, LaidOut, compiler
<1>6. JumpsDefined'
  <2>1. phase' = "linked" => Assembles
    BY DEF Link
  <2>2. UNCHANGED <<asm_code, program_map>>
    BY <1>1 DEF compiler, layout
  <2> QED
    BY <1>1, <2>1, <2>2 DEF JumpsDefined, Assembles, Defined, Holds, Piece
<1> QED
  BY <1>3, <1>4, <1>5, <1>6

\* Control enters an existing piece, or is lost.
LEMMA EnterStep ==
    ASSUME Inv, phase = "linked", NEW p \in 0 .. CommandCount, Enter(p)
    PROVE  Inv'
<1> USE DEF Inv
<1>1. /\ UNCHANGED <<input, loader, commands, blocks, compiler, layout, command_map>>
      /\ CommandCount' = CommandCount
      /\ pc' \in 0 .. CommandCount /\ phase' \in {"linked", "crashed"}
  BY DEF Enter, commands, CommandCount, TypeOK
<1>2. TypeOK'
  BY <1>1 DEF TypeOK, input, loader, commands, blocks, compiler, layout, LaidOut, Command
<1>3. EveryCommandEmittedOnce' /\ AllGenerated' /\ JumpsDefined'
  BY <1>1 DEF EveryCommandEmittedOnce, AllGenerated, JumpsDefined, LaidOut, compiler, layout,
     Defined, Holds, Piece
<1> QED
  BY <1>2, <1>3

LEMMA RunStep == Inv /\ Run => Inv'
<1> SUFFICES ASSUME Inv, Run PROVE Inv'
  OBVIOUS
<1> USE DEF Inv
<1>1. phase = "linked" /\ CommandCount \in Nat
      /\ command_map \in [1 .. CommandCount -> 0 .. CommandCount]
  <2>1. phase = "linked"
    BY DEF Run, CallByName, CallByIndex, Jump, FallThrough, Leave
  <2>2. CommandCount \in Nat
    BY LenProperties DEF TypeOK, CommandCount
  <2> QED
    BY <2>1, <2>2 DEF TypeOK
<1>2. \A f \in 1 .. Len(functions) : functions[f].value \in Nat \ {0}
  <2> TAKE f \in 1 .. Len(functions)
  <2>1. functions \in Seq([label : Label, value : Nat \ {0}])
    BY DEF TypeOK
  <2>2. functions[f] \in [label : Label, value : Nat \ {0}]
    BY <2>1, ElementOfSeq
  <2> QED
    BY <2>2
<1>3. ASSUME NEW f \in 1 .. Len(functions), CallByName(f) PROVE Inv'
  <2>1. command_map[functions[f].value] \in 0 .. CommandCount
    BY <1>1, <1>2, <1>3 DEF CallByName
  <2> QED
    BY <1>1, <1>3, <2>1, EnterStep DEF CallByName
<1>4. ASSUME NEW f \in 1 .. Len(functions), CallByIndex(f) PROVE Inv'
  <2>1. FunctionMap(f) \in 0 .. CommandCount
    BY <1>1, <1>2 DEF FunctionMap
  <2> QED
    BY <1>1, <1>4, <2>1, EnterStep DEF CallByIndex
<1>5. ASSUME Jump PROVE Inv'
  <2>1. PICK sym \in Piece(pc).exits : Enter(Address(sym))
    BY <1>5 DEF Jump
  <2>2. pc \in 1 .. CommandCount
    BY <1>1, <1>5 DEF Jump, TypeOK
  <2>3. Defined(sym)
    BY <1>1, <2>1, <2>2 DEF JumpsDefined
  <2>4. Address(sym) \in 0 .. CommandCount
    BY <1>1, <2>3, AddressType
  <2> QED
    BY <1>1, <2>1, <2>4, EnterStep
<1>6. ASSUME FallThrough PROVE Inv'
  <2>1. pc \in 0 .. CommandCount
    BY DEF TypeOK
  <2>2. \E p \in 0 .. CommandCount : Enter(p)
    BY <1>1, <1>6, <2>1 DEF FallThrough
  <2> QED
    BY <1>1, <2>2, EnterStep
<1>7. ASSUME Leave PROVE Inv'
  <2>1. /\ UNCHANGED <<input, phase, loader, commands, blocks, compiler, layout, command_map>>
        /\ CommandCount' = CommandCount /\ pc' \in 0 .. CommandCount
    BY <1>1, <1>7 DEF Leave, commands, CommandCount
  <2>2. TypeOK'
    BY <2>1 DEF TypeOK, input, loader, commands, blocks, compiler, layout, LaidOut, Command
  <2>3. EveryCommandEmittedOnce' /\ AllGenerated' /\ JumpsDefined'
    BY <2>1 DEF EveryCommandEmittedOnce, AllGenerated, JumpsDefined, LaidOut, compiler, layout,
       Defined, Holds, Piece
  <2> QED
    BY <2>2, <2>3
<1> QED
  BY <1>3, <1>4, <1>5, <1>6, <1>7 DEF Run

LEMMA StutterStep == Inv /\ UNCHANGED vars => Inv'
BY DEF Inv, TypeOK, EveryCommandEmittedOnce, AllGenerated, JumpsDefined, vars, input, loader,
   commands, blocks, compiler, layout, linked, CommandCount, Command, LaidOut, Piece, Defined,
   Holds

LEMMA InvHolds == Spec => []Inv
<1>1. Inv /\ [Next]_vars => Inv'
  BY HandleLineStep, MoveStep, UnwindStep, CompileCommandStep, BeginLayoutStep, ShuffleStep,
     LinkStep, RunStep, StutterStep DEF Next, Build
<1> QED
  BY <1>1, InitInv, PTL DEF Spec

\* The loader's stack stays within the document, labels and code blocks keep
\* their kinds, and every call and every jump of a linked program stays in the
\* executable (tactyk_pl__load_dblock, tactyk_emit__compile).
THEOREM ShapeKept == Spec => []TypeOK
<1>1. Inv => TypeOK
  BY DEF Inv
<1> QED
  BY <1>1, InvHolds, PTL

\* Whatever tactyk_util__rand_range returns, the shuffle of tactyk_emit__compile
\* neither loses a command nor emits one twice, for programs of any length.
THEOREM AllEmitted == Spec => []EveryCommandEmittedOnce
<1>1. Inv => EveryCommandEmittedOnce
  BY DEF Inv
<1> QED
  BY <1>1, InvHolds, PTL

-----------------------------------------------------------------------------
(***************************************************************************)
(* For any documents and any layout: dispatching by index reaches the      *)
(* command of that index.  The loader meets the lines in order and leaves  *)
(* out what directives enclose, so that the commands are the command lines *)
(* of the document; the compiler gives each index to the first command     *)
(* from there on that has code; the layout keeps every piece.              *)
(***************************************************************************)

LEMMA LeastNumber ==
    ASSUME NEW D \in SUBSET Nat, D # {}
    PROVE  \E x \in D : \A y \in D : x <= y
<1>1. PICK x \in D : \A y \in D : ~(<<y, x>> \in OpToRel(<, Nat))
  BY NatLessThanWellFounded, WFMin, Zenon
<1>2. \A y \in D : ~(y < x)
  BY <1>1, Zenon DEF OpToRel
<1> QED
  BY <1>2

-----------------------------------------------------------------------------
(* The document.                                                            *)

Document == doc \in Seq(DocumentLine) /\ doc # <<>>

\* What stratify leaves: a line is at most one level below the line before it.
IndentedDoc ==
    /\ doc[1].depth = 0
    /\ \A l \in 2 .. Len(doc) : doc[l].depth <= doc[l - 1].depth + 1

\* The lines that become commands, skips included.
IsScript(l) ==
    doc[l].op \in {"plain", "goto", "if", "exit", "skip"} /\ ~Script!InDirective(l)

LEMMA DocumentFacts ==
    ASSUME Document
    PROVE  Len(doc) \in Nat \ {0} /\ \A l \in 1 .. Len(doc) : doc[l].depth \in Nat
<1>1. \A l \in 1 .. Len(doc) : doc[l] \in DocumentLine
  BY ElementOfSeq DEF Document
<1> QED
  BY <1>1, EmptySeq DEF Document, DocumentLine

LEMMA Least ==
    ASSUME NEW D \in SUBSET Nat, NEW e
    PROVE  IF D = {} THEN Script!LeastOr(D, e) = e
           ELSE Script!LeastOr(D, e) \in D /\ \A y \in D : Script!LeastOr(D, e) <= y
<1>1. CASE D = {}
  BY <1>1 DEF Script!LeastOr
<1>2. CASE D # {}
  <2>1. \E x \in D : \A y \in D : x <= y
    BY <1>2, LeastNumber
  <2> QED
    BY <1>2, <2>1 DEF Script!LeastOr
<1> QED
  BY <1>1, <1>2

\* The end of a block is the first line after l that is not deeper.
LEMMA BlockEndIs ==
    ASSUME Document, NEW l \in 1 .. Len(doc)
    PROVE  /\ Script!BlockEnd(l) \in l + 1 .. Len(doc) + 1
           /\ \A m \in l + 1 .. Script!BlockEnd(l) - 1 : doc[m].depth > doc[l].depth
           /\ Script!BlockEnd(l) <= Len(doc) => doc[Script!BlockEnd(l)].depth <= doc[l].depth
<1> DEFINE D == {m \in l + 1 .. Len(doc) : doc[m].depth <= doc[l].depth}
           n == Script!LeastOr(D, Len(doc) + 1)
<1>1. Len(doc) \in Nat /\ \A m \in 1 .. Len(doc) : doc[m].depth \in Nat
  BY DocumentFacts
<1>2. D \in SUBSET Nat
  BY <1>1
<1>3. IF D = {} THEN n = Len(doc) + 1 ELSE n \in D /\ \A y \in D : n <= y
  <2> HIDE DEF D
  <2> QED
    BY <1>2, Least
<1>4. Script!BlockEnd(l) = n
  BY DEF Script!BlockEnd
<1> HIDE DEF n
<1>5. n \in l + 1 .. Len(doc) + 1 /\ (n <= Len(doc) => doc[n].depth <= doc[l].depth)
  BY <1>1, <1>3
<1>6. ASSUME NEW m \in l + 1 .. n - 1 PROVE doc[m].depth > doc[l].depth
  <2>1. m \in l + 1 .. Len(doc) /\ m < n
    BY <1>1, <1>5
  <2>2. m \notin D
    BY <1>1, <1>3, <2>1
  <2> QED
    BY <1>1, <2>1, <2>2
<1> QED
  BY <1>4, <1>5, <1>6

\* It is the only line like that.
LEMMA BlockEndUnique ==
    ASSUME Document, NEW l \in 1 .. Len(doc), NEW n \in l + 1 .. Len(doc) + 1,
           \A m \in l + 1 .. n - 1 : doc[m].depth > doc[l].depth,
           n <= Len(doc) => doc[n].depth <= doc[l].depth
    PROVE  Script!BlockEnd(l) = n
<1> DEFINE e == Script!BlockEnd(l)
<1>1. Len(doc) \in Nat /\ \A m \in 1 .. Len(doc) : doc[m].depth \in Nat
  BY DocumentFacts
<1>2. /\ e \in l + 1 .. Len(doc) + 1
      /\ \A m \in l + 1 .. e - 1 : doc[m].depth > doc[l].depth
      /\ e <= Len(doc) => doc[e].depth <= doc[l].depth
  BY BlockEndIs
<1> HIDE DEF e
<1>3. ~(e < n)
  <2> SUFFICES ASSUME e < n PROVE FALSE
    OBVIOUS
  <2>1. e \in l + 1 .. n - 1 /\ e \in 1 .. Len(doc)
    BY <1>1, <1>2
  <2> QED
    BY <1>1, <1>2, <2>1
<1>4. ~(n < e)
  <2> SUFFICES ASSUME n < e PROVE FALSE
    OBVIOUS
  <2>1. n \in l + 1 .. e - 1 /\ n \in 1 .. Len(doc)
    BY <1>1, <1>2
  <2> QED
    BY <1>1, <1>2, <2>1
<1> QED
  BY <1>1, <1>2, <1>3, <1>4 DEF e

\* The next line of the level, if there is one, is where the block ends.
LEMMA PeerIsEnd ==
    ASSUME Document, NEW l \in 1 .. Len(doc)
    PROVE  /\ HasPeer(l) => /\ Peer(l) = Script!BlockEnd(l) /\ Peer(l) \in 1 .. Len(doc)
                            /\ doc[Peer(l)].depth = doc[l].depth
           /\ ~HasPeer(l) /\ Script!BlockEnd(l) <= Len(doc) =>
                 doc[Script!BlockEnd(l)].depth < doc[l].depth
<1> DEFINE e == Script!BlockEnd(l)
<1>1. Len(doc) \in Nat /\ \A m \in 1 .. Len(doc) : doc[m].depth \in Nat
  BY DocumentFacts
<1>2. /\ e \in l + 1 .. Len(doc) + 1
      /\ \A m \in l + 1 .. e - 1 : doc[m].depth > doc[l].depth
      /\ e <= Len(doc) => doc[e].depth <= doc[l].depth
  BY BlockEndIs
<1>3. ASSUME HasPeer(l)
      PROVE  Peer(l) = e /\ Peer(l) \in 1 .. Len(doc) /\ doc[Peer(l)].depth = doc[l].depth
  <2>1. Peer(l) \in 1 .. Len(doc) /\ IsPeer(l, Peer(l))
    BY <1>3 DEF HasPeer, Peer
  <2> DEFINE p == Peer(l)
  <2>2. /\ p \in 1 .. Len(doc) /\ l < p /\ doc[p].depth = doc[l].depth
        /\ \A k \in l + 1 .. p - 1 : doc[k].depth > doc[l].depth
    BY <2>1 DEF IsPeer
  <2> HIDE DEF p, e
  <2>3. p \in l + 1 .. Len(doc) + 1 /\ doc[p].depth <= doc[l].depth
    BY <1>1, <2>2
  <2>4. e = p
    BY <2>2, <2>3, BlockEndUnique DEF e
  <2> QED
    BY <2>2, <2>4 DEF p
<1>4. ASSUME ~HasPeer(l), e <= Len(doc) PROVE doc[e].depth < doc[l].depth
  <2> HIDE DEF e
  <2>1. e \in 1 .. Len(doc) /\ l < e
    BY <1>1, <1>2, <1>4
  <2>2. doc[e].depth # doc[l].depth
    BY <1>2, <1>4, <2>1 DEF HasPeer, IsPeer
  <2> QED
    BY <1>1, <1>2, <2>1, <2>2
<1> QED
  BY <1>3, <1>4

LEMMA InDirectiveEnds ==
    ASSUME Document, NEW l \in 1 .. Len(doc), ~Script!InDirective(l)
    PROVE  /\ ~Script!InDirective(Script!BlockEnd(l))
           /\ doc[l].op = "directive" =>
                 \A m \in l + 1 .. Script!BlockEnd(l) - 1 : Script!InDirective(m)
           /\ doc[l].op # "directive" => ~Script!InDirective(l + 1)
           /\ ~HasChild(l) => Script!BlockEnd(l) = l + 1
<1> DEFINE e == Script!BlockEnd(l)
<1>1. Len(doc) \in Nat /\ \A m \in 1 .. Len(doc) : doc[m].depth \in Nat
  BY DocumentFacts
<1>2. /\ e \in l + 1 .. Len(doc) + 1
      /\ \A m \in l + 1 .. e - 1 : doc[m].depth > doc[l].depth
      /\ e <= Len(doc) => doc[e].depth <= doc[l].depth
  BY BlockEndIs
<1>3. \A d \in 1 .. l - 1 : doc[d].op = "directive" => Script!BlockEnd(d) <= l
  <2> TAKE d \in 1 .. l - 1
  <2> HAVE doc[d].op = "directive"
  <2>1. ~(l < Script!BlockEnd(d))
    BY DEF Script!InDirective
  <2>2. Script!BlockEnd(d) \in Nat
    BY <1>1, BlockEndIs
  <2> QED
    BY <2>1, <2>2
<1>4. ~Script!InDirective(e)
  <2> SUFFICES ASSUME NEW d \in 1 .. e - 1, doc[d].op = "directive", e < Script!BlockEnd(d)
               PROVE  FALSE
    BY DEF Script!InDirective
  <2> DEFINE f == Script!BlockEnd(d)
  <2>1. d \in 1 .. Len(doc)
    BY <1>1, <1>2
  <2>2. f \in d + 1 .. Len(doc) + 1 /\ \A m \in d + 1 .. f - 1 : doc[m].depth > doc[d].depth
    BY <2>1, BlockEndIs
  <2>3. d \in 1 .. l - 1 => f <= l
    BY <1>3
  <2>4. d = l => f = e
    OBVIOUS
  <2>5. e < f
    OBVIOUS
  <2> HIDE DEF e, f
  <2>6. d \in l + 1 .. e - 1
    BY <1>1, <1>2, <2>1, <2>2, <2>3, <2>4, <2>5
  <2>7. doc[d].depth > doc[l].depth /\ doc[e].depth > doc[d].depth /\ e \in 1 .. Len(doc)
    BY <1>1, <1>2, <2>2, <2>5, <2>6
  <2> QED
    BY <1>1, <1>2, <2>1, <2>7
<1>5. ASSUME doc[l].op = "directive", NEW m \in l + 1 .. e - 1 PROVE Script!InDirective(m)
  <2>1. l \in 1 .. m - 1 /\ m < e
    <3> HIDE DEF e
    <3> QED
      BY <1>1, <1>2
  <2> QED
    BY <1>5, <2>1 DEF Script!InDirective
<1>6. ASSUME doc[l].op # "directive" PROVE ~Script!InDirective(l + 1)
  <2> SUFFICES ASSUME NEW d \in 1 .. l, doc[d].op = "directive", l + 1 < Script!BlockEnd(d)
               PROVE  FALSE
    BY <1>1 DEF Script!InDirective
  <2>1. d \in 1 .. l - 1
    BY <1>1, <1>6
  <2>2. Script!BlockEnd(d) <= l /\ Script!BlockEnd(d) \in Nat
    BY <1>1, <1>3, <2>1, BlockEndIs
  <2> QED
    BY <1>1, <2>2
<1>7. ASSUME ~HasChild(l) PROVE e = l + 1
  <2> HIDE DEF e
  <2>1. ~(l + 1 < e)
    <3> SUFFICES ASSUME l + 1 < e PROVE FALSE
      OBVIOUS
    <3>1. l + 1 \in l + 1 .. e - 1 /\ l < Len(doc)
      BY <1>1, <1>2
    <3> QED
      BY <1>2, <1>7, <3>1 DEF HasChild
  <2> QED
    BY <1>1, <1>2, <2>1
<1> QED
  BY <1>4, <1>5, <1>6, <1>7

\* All of this depends on the document alone.
LEMMA SameDocument ==
    ASSUME UNCHANGED doc
    PROVE  /\ \A l : /\ Script!BlockEnd(l)' = Script!BlockEnd(l)
                     /\ Script!InDirective(l)' = Script!InDirective(l)
                     /\ IsScript(l)' = IsScript(l)
           /\ Document' = Document /\ IndentedDoc' = IndentedDoc
BY DEF Script!BlockEnd, Script!LeastOr, Script!InDirective, IsScript, Document, IndentedDoc

-----------------------------------------------------------------------------
(* The walk over the lines.                                                 *)

Loading == {"handle", "move", "unwind"}
Loaded  == {"compile"} \cup LaidOut

\* The first line the loader has not dealt with.
Frontier ==
    CASE phase = "handle" -> dbcode
      [] phase = "move"   -> dbcode + 1
      [] phase = "unwind" -> Script!BlockEnd(dbcode)
      [] OTHER            -> Len(doc) + 1

\* The open line on each level, whose block has not ended before line n.
OpenLines(stack, n) ==
    \A k \in 1 .. Len(stack) :
        /\ doc[stack[k]].depth = k - 1
        /\ stack[k] < n
        /\ \A m \in stack[k] + 1 .. n - 1 : doc[m].depth > k - 1

Walk ==
    phase \in Loading =>
        /\ OpenLines(dbstack, Frontier)
        /\ IF phase = "unwind"
           THEN /\ ~Script!InDirective(Frontier)
                /\ Frontier <= Len(doc) => doc[Frontier].depth < Len(dbstack)
           ELSE /\ ~Script!InDirective(dbcode)
                /\ doc[dbcode].depth = Len(dbstack)

LineOf(i) == script_commands[i].line

\* The commands so far are the command lines before line n, in their order.
CommandsBefore(n) ==
    /\ \A i \in 1 .. CommandCount : LineOf(i) < n /\ IsScript(LineOf(i))
    /\ \A i, j \in 1 .. CommandCount : i < j => LineOf(i) < LineOf(j)
    /\ \A l \in 1 .. Len(doc) : l < n /\ IsScript(l) =>
          \E i \in 1 .. CommandCount : LineOf(i) = l

Collected == phase \in Loading \cup Loaded => CommandsBefore(Frontier)

LEMMA SameLines ==
    ASSUME UNCHANGED doc, CommandCount' = CommandCount, NEW n,
           \A i \in 1 .. CommandCount : LineOf(i)' = LineOf(i)
    PROVE  CommandsBefore(n)' = CommandsBefore(n)
<1>1. \A l : IsScript(l)' = IsScript(l)
  BY SameDocument
<1> QED
  BY <1>1 DEF CommandsBefore

LEMMA WalkFacts ==
    ASSUME Inv
    PROVE  /\ Document /\ Len(doc) \in Nat /\ dbcode \in 1 .. Len(doc)
           /\ doc[dbcode] \in DocumentLine /\ doc[dbcode].op \in Op
           /\ Len(dbstack) \in Nat /\ \A k \in 1 .. Len(dbstack) : dbstack[k] \in 1 .. Len(doc)
           /\ CommandCount \in Nat
           /\ \A i \in 1 .. CommandCount :
                 script_commands[i] \in Command /\ LineOf(i) \in 1 .. Len(doc)
<1>1. Document /\ Len(doc) \in Nat /\ dbcode \in 1 .. Len(doc)
  BY EmptySeq DEF Inv, TypeOK, Document
<1>2. doc[dbcode] \in DocumentLine
  BY <1>1, ElementOfSeq DEF Document
<1>3. Len(dbstack) \in Nat /\ \A k \in 1 .. Len(dbstack) : dbstack[k] \in 1 .. Len(doc)
  BY LenProperties, ElementOfSeq DEF Inv, TypeOK
<1>4. /\ CommandCount \in Nat
      /\ \A i \in 1 .. CommandCount : script_commands[i] \in Command
  BY LenProperties, ElementOfSeq DEF Inv, TypeOK, CommandCount
<1> QED
  BY <1>1, <1>2, <1>3, <1>4 DEF DocumentLine, Command, LineOf

\* Lines that are no commands may be passed over.
LEMMA PassOver ==
    ASSUME Inv, NEW n \in Nat, NEW e \in Nat, n <= e, CommandsBefore(n),
           \A l \in 1 .. Len(doc) : n <= l /\ l < e => ~IsScript(l)
    PROVE  CommandsBefore(e)
<1>1. \A i \in 1 .. CommandCount : LineOf(i) \in Nat
  BY WalkFacts
<1>2. \A l \in 1 .. Len(doc) : l \in Nat
  BY WalkFacts
<1> QED
  BY <1>1, <1>2 DEF CommandsBefore

\* A line that is one is appended.
LEMMA AppendLine ==
    ASSUME Inv, NEW n \in 1 .. Len(doc), CommandsBefore(n), IsScript(n),
           NEW c \in Nat, CommandCount = c, CommandCount' = c + 1, UNCHANGED doc,
           \A i \in 1 .. c : LineOf(i)' = LineOf(i),
           LineOf(c + 1)' = n
    PROVE  CommandsBefore(n + 1)'
<1> DEFINE New(i) == LineOf(i)'
<1>1. \A l : IsScript(l)' = IsScript(l)
  BY SameDocument
<1>2. /\ n \in Nat /\ \A l \in 1 .. Len(doc) : l \in Nat
      /\ \A i \in 1 .. c : New(i) = LineOf(i) /\ LineOf(i) \in Nat
      /\ New(c + 1) = n
  BY WalkFacts
<1>3. /\ \A i \in 1 .. c : LineOf(i) < n /\ IsScript(LineOf(i))
      /\ \A i, j \in 1 .. c : i < j => LineOf(i) < LineOf(j)
      /\ \A l \in 1 .. Len(doc) : l < n /\ IsScript(l) => \E i \in 1 .. c : LineOf(i) = l
  BY DEF CommandsBefore
<1> HIDE DEF New
<1>4. \A i \in 1 .. c + 1 : i \in 1 .. c \/ i = c + 1
  OBVIOUS
<1>5. \A i \in 1 .. c : New(i) < n
  BY <1>2, <1>3
<1>6. \A i \in 1 .. c + 1 : New(i) < n + 1 /\ IsScript(New(i))
  BY <1>2, <1>3, <1>4
<1>7. ASSUME NEW i \in 1 .. c + 1, NEW j \in 1 .. c + 1, i < j PROVE New(i) < New(j)
  <2>1. i \in 1 .. c
    BY <1>7
  <2>2. CASE j = c + 1
    BY <1>2, <1>5, <2>1, <2>2
  <2>3. CASE j \in 1 .. c
    BY <1>2, <1>3, <1>7, <2>1, <2>3
  <2> QED
    BY <1>4, <2>2, <2>3
<1>8. ASSUME NEW l \in 1 .. Len(doc), l < n + 1, IsScript(l)
      PROVE  \E i \in 1 .. c + 1 : New(i) = l
  <2>1. l < n \/ l = n
    BY <1>2, <1>8
  <2> QED
    BY <1>2, <1>3, <1>8, <2>1
<1>9. Len(doc)' = Len(doc)
  OBVIOUS
<1> QED
  BY <1>1, <1>6, <1>7, <1>8, <1>9 DEF CommandsBefore, New

LEMMA HandleLineWalk ==
    ASSUME Inv, Walk, Collected, HandleLine
    PROVE  Walk' /\ Collected'
<1> PICK n \in 1 .. Len(doc), c \in Nat : n = dbcode /\ c = CommandCount
  BY WalkFacts
<1> DEFINE l == doc[n]
<1>1. /\ doc' = doc /\ dbcode' = n /\ dbstack' = dbstack
      /\ phase = "handle" /\ phase' \in {"move", "rejected"}
  BY DEF HandleLine, input, loader
<1>2. CASE phase' = "rejected"
  BY <1>2 DEF Walk, Collected, Loading, Loaded, LaidOut
<1>3. CASE phase' = "move"
  <2>1. Frontier = n /\ Frontier' = n + 1
    BY <1>1, <1>3 DEF Frontier
  <2>2. /\ OpenLines(dbstack, n) /\ ~Script!InDirective(n)
        /\ doc[n].depth = Len(dbstack) /\ CommandsBefore(n)
    BY <1>1, <2>1 DEF Walk, Collected, Loading
  <2>3. OpenLines(dbstack, n + 1)
    <3> SUFFICES ASSUME NEW k \in 1 .. Len(dbstack)
                 PROVE  /\ doc[dbstack[k]].depth = k - 1 /\ dbstack[k] < n + 1
                        /\ \A m \in dbstack[k] + 1 .. n : doc[m].depth > k - 1
      BY WalkFacts DEF OpenLines
    <3>1. /\ doc[dbstack[k]].depth = k - 1 /\ dbstack[k] < n
          /\ \A m \in dbstack[k] + 1 .. n - 1 : doc[m].depth > k - 1
      BY <2>2 DEF OpenLines
    <3>2. dbstack[k] \in Nat /\ n \in Nat /\ Len(dbstack) \in Nat
      BY WalkFacts
    <3> HIDE DEF l
    <3> QED
      BY <2>2, <3>1, <3>2
  <2>4. Walk'
    <3>1. Script!InDirective(n)' = Script!InDirective(n)
      BY <1>1, SameDocument
    <3>2. OpenLines(dbstack, n + 1)' = OpenLines(dbstack, n + 1)
      BY <1>1 DEF OpenLines
    <3> QED
      BY <1>1, <1>3, <2>1, <2>2, <2>3, <3>1, <3>2 DEF Walk, OpenLines, Script!InDirective
  <2>5. CommandsBefore(n + 1)'
    <3>1. CASE l.op \in {"directive", "none"}
      <4>1. UNCHANGED script_commands
        BY <3>1 DEF HandleLine, commands
      <4>2. ~IsScript(n)
        BY <3>1 DEF IsScript
      <4>3. CommandsBefore(n + 1)
        BY <2>2, <4>2, PassOver, WalkFacts
      <4>4. CommandCount' = CommandCount /\ \A i \in 1 .. CommandCount : LineOf(i)' = LineOf(i)
        BY <4>1 DEF CommandCount, LineOf
      <4> QED
        BY <1>1, <4>3, <4>4, SameLines
    <3>2. CASE l.op \notin {"directive", "none"}
      <4> DEFINE cmd == [line |-> n, labels |-> LabelsWith(l.label), child |-> None]
      <4>1. l.op \notin {"none", "unknown", "directive"} /\ script_commands' = Append(script_commands, cmd)
        BY <1>3, <3>2 DEF HandleLine
      <4>2. IsScript(n)
        BY <2>2, <4>1, WalkFacts DEF IsScript, Op
      <4>3. script_commands \in Seq(Command)
        BY DEF Inv, TypeOK
      <4>4. cmd \in Command
        <5>1. l.label \in Label \cup {None}
          BY WalkFacts DEF DocumentLine
        <5>2. LabelsWith(l.label) \in Seq(Symbol)
          BY <5>1, AppendProperties, SymbolTypes DEF LabelsWith, Inv, TypeOK
        <5> QED
          BY <5>2, WalkFacts DEF Command
      <4>5. /\ CommandCount' = c + 1
            /\ \A i \in 1 .. c : LineOf(i)' = LineOf(i)
            /\ LineOf(c + 1)' = n
        <5> HIDE DEF cmd
        <5>1. /\ Len(script_commands') = Len(script_commands) + 1
              /\ \A i \in 1 .. Len(script_commands) : script_commands'[i] = script_commands[i]
              /\ script_commands'[Len(script_commands) + 1] = cmd
          BY <4>1, <4>3, <4>4, AppendProperties
        <5>2. cmd.line = n
          BY DEF cmd
        <5> QED
          BY <5>1, <5>2 DEF CommandCount, LineOf
      <4> HIDE DEF cmd
      <4> QED
        BY <1>1, <2>2, <4>2, <4>5, AppendLine
    <3> QED
      BY <3>1, <3>2
  <2> QED
    BY <1>3, <2>1, <2>4, <2>5 DEF Collected, CommandsBefore
<1> QED
  BY <1>1, <1>2, <1>3

\* The commands keep their lines while a code block is opened.
LEMMA PushLines ==
    ASSUME Inv, PushCodeblock
    PROVE  CommandCount' = CommandCount /\ \A i \in 1 .. CommandCount : LineOf(i)' = LineOf(i)
<1>1. CASE UNCHANGED commands
  BY <1>1 DEF commands, CommandCount, LineOf
<1>2. CASE active_command # 0 /\ ~NestFull
  <2> DEFINE old == script_commands[active_command]
             new == [old EXCEPT !.child = next_codeblock_id]
  <2>1. active_command \in 1 .. CommandCount
    BY <1>2, WalkFacts DEF Inv, TypeOK
  <2>2. old \in Command /\ new \in Command /\ new.line = old.line
    BY <2>1, WalkFacts DEF Command, Inv, TypeOK
  <2>3. script_commands' = [script_commands EXCEPT ![active_command] = new]
    BY <1>2 DEF PushCodeblock
  <2> HIDE DEF new
  <2>4. /\ Len(script_commands') = Len(script_commands)
        /\ \A i \in 1 .. Len(script_commands) :
              script_commands'[i] = IF i = active_command THEN new ELSE script_commands[i]
    BY <2>1, <2>2, <2>3, ExceptSeq DEF Inv, TypeOK, CommandCount
  <2> QED
    BY <2>2, <2>4 DEF LineOf, CommandCount
<1> QED
  BY <1>1, <1>2 DEF PushCodeblock

\* The lines the loader leaves out in a step are the contents of a directive.
SkipsDirectives ==
    phase' \in Loading \cup Loaded =>
        \A l \in 1 .. Len(doc) : Frontier <= l /\ l < Frontier' => Script!InDirective(l)

LEMMA MoveWalk ==
    ASSUME Inv, IndentedDoc, Walk, Collected, Move
    PROVE  Walk' /\ Collected' /\ SkipsDirectives
<1> PICK n \in 1 .. Len(doc) : n = dbcode
  BY WalkFacts
<1> DEFINE e == Script!BlockEnd(n)
<1>1. doc' = doc /\ phase = "move" /\ Frontier = n + 1
  BY DEF Move, input, Frontier
<1>2. /\ OpenLines(dbstack, n + 1) /\ ~Script!InDirective(n)
      /\ doc[n].depth = Len(dbstack) /\ CommandsBefore(n + 1)
  BY <1>1 DEF Walk, Collected, Loading
<1>3. /\ Len(doc) \in Nat /\ Document /\ Len(dbstack) \in Nat
      /\ \A k \in 1 .. Len(dbstack) : dbstack[k] \in 1 .. Len(doc)
      /\ \A m \in 1 .. Len(doc) : doc[m].depth \in Nat
  BY WalkFacts, DocumentFacts
<1>4. \A k : Script!InDirective(k)' = Script!InDirective(k)
  BY <1>1, SameDocument
<1>5. CASE doc[n].op # "directive" /\ HasChild(n)
  <2>1. /\ dbstack' = Append(dbstack, n) /\ dbcode' = n + 1 /\ PushCodeblock
        /\ phase' \in {"handle", "rejected"}
    BY <1>5, PushStep DEF Move
  <2>2. CASE phase' = "rejected"
    BY <2>2 DEF Walk, Collected, SkipsDirectives, Loading, Loaded, LaidOut
  <2>3. CASE phase' = "handle"
    <3>1. Frontier' = n + 1
      BY <2>1, <2>3 DEF Frontier
    <3>2. n + 1 \in 1 .. Len(doc) /\ doc[n + 1].depth = Len(dbstack) + 1
      <4>1. n + 1 \in 2 .. Len(doc) /\ doc[n + 1].depth > doc[n].depth
        BY <1>3, <1>5 DEF HasChild
      <4>2. doc[n + 1].depth <= doc[n].depth + 1
        BY <1>3, <4>1 DEF IndentedDoc
      <4> QED
        BY <1>2, <1>3, <4>1, <4>2
    <3>3. /\ Len(dbstack') = Len(dbstack) + 1 /\ dbstack'[Len(dbstack) + 1] = n
          /\ \A k \in 1 .. Len(dbstack) : dbstack'[k] = dbstack[k]
      BY <2>1, WalkFacts, AppendProperties DEF Inv, TypeOK
    <3>4. OpenLines(dbstack, n + 1)'
      <4> SUFFICES ASSUME NEW k \in 1 .. Len(dbstack) + 1
                   PROVE  /\ doc[dbstack'[k]].depth = k - 1 /\ dbstack'[k] < n + 1
                          /\ \A m \in dbstack'[k] + 1 .. n : doc[m].depth > k - 1
        BY <1>1, <1>3, <3>3 DEF OpenLines
      <4>1. CASE k = Len(dbstack) + 1
        BY <1>2, <1>3, <3>3, <4>1
      <4>2. CASE k \in 1 .. Len(dbstack)
        <5>1. /\ doc[dbstack[k]].depth = k - 1 /\ dbstack[k] < n + 1
              /\ \A m \in dbstack[k] + 1 .. n + 1 - 1 : doc[m].depth > k - 1
          BY <1>2, <4>2 DEF OpenLines
        <5>2. n + 1 - 1 = n /\ dbstack'[k] = dbstack[k]
          BY <3>3, <4>2
        <5> QED
          BY <5>1, <5>2
      <4> QED
        BY <1>3, <4>1, <4>2
    <3>5. ~Script!InDirective(n + 1)
      BY <1>2, <1>3, <1>5, InDirectiveEnds
    <3>6. Walk'
      BY <1>1, <1>4, <2>1, <2>3, <3>1, <3>2, <3>3, <3>4, <3>5 DEF Walk
    <3>7. CommandsBefore(n + 1)'
      BY <1>1, <1>2, <2>1, PushLines, SameLines
    <3>8. SkipsDirectives
      BY <1>1, <1>3, <3>1 DEF SkipsDirectives
    <3> QED
      BY <3>1, <3>6, <3>7, <3>8 DEF Collected
  <2> QED
    BY <2>1, <2>2, <2>3
<1>6. CASE ~(doc[n].op # "directive" /\ HasChild(n))
  <2>1. /\ IF HasPeer(n) THEN dbcode' = Peer(n) /\ phase' = "handle"
                         ELSE dbcode' = n /\ phase' = "unwind"
        /\ dbstack' = dbstack /\ script_commands' = script_commands
    BY <1>6 DEF Move, commands
  <2>2. /\ e \in n + 1 .. Len(doc) + 1
        /\ \A m \in n + 1 .. e - 1 : doc[m].depth > Len(dbstack)
    BY <1>2, <1>3, BlockEndIs
  <2>3. /\ HasPeer(n) => Peer(n) = e /\ e \in 1 .. Len(doc) /\ doc[e].depth = Len(dbstack)
        /\ ~HasPeer(n) /\ e <= Len(doc) => doc[e].depth < Len(dbstack)
    BY <1>2, <1>3, PeerIsEnd
  <2>4. /\ ~Script!InDirective(e)
        /\ \A m \in n + 1 .. e - 1 : Script!InDirective(m)
    <3>1. CASE doc[n].op = "directive"
      BY <1>2, <1>3, <3>1, InDirectiveEnds
    <3>2. CASE ~HasChild(n)
      <4>1. e = n + 1 /\ ~Script!InDirective(e)
        BY <1>2, <1>3, <3>2, InDirectiveEnds
      <4> HIDE DEF e
      <4> QED
        BY <4>1
    <3> QED
      BY <1>6, <3>1, <3>2
  <2>5. Script!BlockEnd(n)' = e
    BY <1>1, SameDocument
  <2> HIDE DEF e
  <2>6. PICK f \in n + 1 .. Len(doc) + 1 : f = e
    BY <2>2
  <2>7. Frontier' = f
    BY <2>1, <2>3, <2>5, <2>6 DEF Frontier
  <2>8. OpenLines(dbstack, f)
    <3> SUFFICES ASSUME NEW k \in 1 .. Len(dbstack)
                 PROVE  /\ doc[dbstack[k]].depth = k - 1 /\ dbstack[k] < f
                        /\ \A m \in dbstack[k] + 1 .. f - 1 : doc[m].depth > k - 1
      BY DEF OpenLines
    <3>1. /\ doc[dbstack[k]].depth = k - 1 /\ dbstack[k] < n + 1
          /\ \A m \in dbstack[k] + 1 .. n : doc[m].depth > k - 1
      BY <1>2 DEF OpenLines
    <3>2. ASSUME NEW m \in dbstack[k] + 1 .. f - 1 PROVE doc[m].depth > k - 1
      <4>1. dbstack[k] \in 1 .. Len(doc)
        BY <1>3
      <4>2. m \in 1 .. Len(doc) /\ (m <= n \/ m \in n + 1 .. e - 1)
        BY <1>3, <2>6, <4>1
      <4>3. m <= n => m \in dbstack[k] + 1 .. n
        BY <1>3, <4>1
      <4> QED
        BY <1>3, <2>2, <3>1, <4>2, <4>3
    <3> QED
      BY <1>3, <3>1, <3>2
  <2>9. OpenLines(dbstack, f)' /\ ~Script!InDirective(f)'
    BY <1>1, <1>4, <2>1, <2>4, <2>6, <2>8 DEF OpenLines
  <2>10. Walk'
    BY <1>1, <1>4, <2>1, <2>3, <2>4, <2>6, <2>7, <2>9 DEF Walk
  <2>11. CommandsBefore(f)
    <3>1. \A l \in 1 .. Len(doc) : n + 1 <= l /\ l < f => ~IsScript(l)
      BY <1>3, <2>4, <2>6 DEF IsScript
    <3> QED
      BY <1>2, <1>3, <2>6, <3>1, PassOver
  <2>12. CommandsBefore(f)'
    BY <1>1, <2>1, <2>11, SameLines DEF CommandCount, LineOf
  <2>13. SkipsDirectives
    BY <1>1, <1>3, <2>4, <2>6, <2>7 DEF SkipsDirectives
  <2> QED
    BY <2>7, <2>10, <2>12, <2>13 DEF Collected
<1> QED
  BY <1>5, <1>6

LEMMA UnwindWalk ==
    ASSUME Inv, Walk, Collected, Unwind
    PROVE  Walk' /\ Collected' /\ SkipsDirectives
<1> DEFINE e == Script!BlockEnd(dbcode)
<1>1. doc' = doc /\ phase = "unwind" /\ Frontier = e
  BY DEF Unwind, input, Frontier
<1>2. /\ Len(doc) \in Nat /\ Document /\ Len(dbstack) \in Nat /\ dbcode \in 1 .. Len(doc)
      /\ \A k \in 1 .. Len(dbstack) : dbstack[k] \in 1 .. Len(doc)
      /\ \A m \in 1 .. Len(doc) : doc[m].depth \in Nat
  BY WalkFacts, DocumentFacts
<1>3. e \in 1 .. Len(doc) + 1
  BY <1>2, BlockEndIs
<1> HIDE DEF e
<1> PICK f \in 1 .. Len(doc) + 1 : f = e
  BY <1>3
<1>4. /\ OpenLines(dbstack, f) /\ ~Script!InDirective(f)
      /\ f <= Len(doc) => doc[f].depth < Len(dbstack)
      /\ CommandsBefore(f)
  BY <1>1 DEF Walk, Collected, Loading
<1>5. /\ \A k : Script!InDirective(k)' = Script!InDirective(k)
      /\ Script!BlockEnd(dbcode)' = Script!BlockEnd(dbcode')
  BY <1>1, SameDocument DEF Script!BlockEnd, Script!LeastOr
<1>6. CASE dbstack = <<>>
  <2>1. phase' = "compile" /\ UNCHANGED commands
    BY <1>6 DEF Unwind
  <2>2. f = Len(doc) + 1
    <3>1. Len(dbstack) = 0
      BY <1>6, EmptySeq
    <3>2. ~(f <= Len(doc))
      <4> SUFFICES ASSUME f <= Len(doc) PROVE FALSE
        OBVIOUS
      <4>1. f \in 1 .. Len(doc) /\ doc[f].depth < 0
        BY <1>2, <1>4, <3>1
      <4>2. doc[f].depth \in Nat
        BY <1>2, <4>1
      <4> QED
        BY <4>1, <4>2
    <3>3. f \in 1 .. Len(doc) + 1 /\ Len(doc) \in Nat
      BY <1>2
    <3> QED
      BY <3>2, <3>3
  <2>3. Frontier' = f
    BY <1>1, <2>1, <2>2 DEF Frontier
  <2>4. CommandsBefore(f)'
    BY <1>1, <1>4, <2>1, SameLines DEF commands, CommandCount, LineOf
  <2>5. SkipsDirectives
    BY <1>1, <1>2, <2>3 DEF SkipsDirectives
  <2> QED
    BY <2>1, <2>3, <2>4, <2>5 DEF Walk, Collected, Loading
<1>7. CASE dbstack # <<>>
  <2> PICK top \in 1 .. Len(doc), c \in Nat :
         c = Len(dbstack) - 1 /\ top = dbstack[Len(dbstack)]
    <3>1. Len(dbstack) \in 1 .. Len(dbstack)
      BY <1>2, <1>7, EmptySeq DEF Inv, TypeOK
    <3>2. Len(dbstack) - 1 \in Nat /\ dbstack[Len(dbstack)] \in 1 .. Len(doc)
      BY <1>2, <3>1
    <3> QED
      BY <3>2
  <2>1. /\ PopCodeblock /\ dbstack' = SubSeq(dbstack, 1, c)
        /\ IF HasPeer(top) THEN dbcode' = Peer(top) /\ phase' = "handle"
                           ELSE dbcode' = dbcode /\ phase' = phase
    BY <1>7 DEF Unwind
  <2>2. Len(dbstack') = c /\ \A k \in 1 .. c : dbstack'[k] = dbstack[k]
    <3>1. \A k \in 1 .. c : dbstack[k] \in 1 .. Len(doc)
      BY <1>2
    <3>2. /\ Len(SubSeq(dbstack, 1, c)) = IF 1 <= c THEN c - 1 + 1 ELSE 0
          /\ \A k \in 1 .. c - 1 + 1 : SubSeq(dbstack, 1, c)[k] = dbstack[1 + k - 1]
      BY <3>1, SubSeqProperties
    <3>3. c - 1 + 1 = c /\ (c = 0 \/ 1 <= c) /\ \A k \in 1 .. c : 1 + k - 1 = k
      OBVIOUS
    <3> QED
      BY <2>1, <3>2, <3>3
  <2>3. /\ doc[top].depth = c /\ top < f
        /\ \A m \in top + 1 .. f - 1 : doc[m].depth > c
    BY <1>2, <1>4 DEF OpenLines
  <2>4. Script!BlockEnd(top) = f
    BY <1>2, <1>4, <2>3, BlockEndUnique
  <2>5. /\ HasPeer(top) => Peer(top) = f /\ f \in 1 .. Len(doc) /\ doc[f].depth = c
        /\ ~HasPeer(top) /\ f <= Len(doc) => doc[f].depth < c
    BY <1>2, <2>3, <2>4, PeerIsEnd
  <2>6. Frontier' = f
    BY <1>1, <1>5, <2>1, <2>5 DEF Frontier, e
  <2>7. OpenLines(dbstack, f)'
    <3>1. Len(dbstack) \in Nat /\ c = Len(dbstack) - 1
      BY <1>2
    <3>2. \A k \in 1 .. c : k \in 1 .. Len(dbstack)
      BY <3>1
    <3>3. \A k \in 1 .. c : /\ doc[dbstack[k]].depth = k - 1 /\ dbstack[k] < f
                            /\ \A m \in dbstack[k] + 1 .. f - 1 : doc[m].depth > k - 1
      BY <1>4, <3>2 DEF OpenLines
    <3> QED
      BY <1>1, <2>2, <3>3 DEF OpenLines
  <2>8. Walk'
    BY <1>1, <1>4, <1>5, <2>1, <2>2, <2>5, <2>6, <2>7 DEF Walk
  <2>9. CommandsBefore(f)'
    BY <1>1, <1>4, <2>1, PopStep, SameLines DEF CommandCount, LineOf
  <2>10. SkipsDirectives
    BY <1>1, <1>2, <2>6 DEF SkipsDirectives
  <2> QED
    BY <2>6, <2>8, <2>9, <2>10 DEF Collected
<1> QED
  BY <1>6, <1>7

\* Nothing else touches the lines and the commands.
LEMMA AfterLoading ==
    ASSUME Inv, Walk, Collected, CompileCommand \/ BeginLayout \/ Shuffle \/ Link \/ Run
    PROVE  Walk' /\ Collected'
<1>1. UNCHANGED <<doc, script_commands>>
  BY DEF CompileCommand, BeginLayout, Shuffle, Link, Run, CallByName, CallByIndex, Jump,
     FallThrough, Leave, Enter, input, commands
<1>2. phase \in Loaded /\ phase' \in Loaded \cup {"rejected", "crashed"}
  BY DEF CompileCommand, BeginLayout, Shuffle, Link, Run, CallByName, CallByIndex, Jump,
     FallThrough, Leave, Enter, Loaded, LaidOut
<1>3. Walk'
  BY <1>2 DEF Walk, Loading, Loaded, LaidOut
<1>4. CASE phase' \in Loaded
  <2> PICK n \in Nat : n = Len(doc) + 1
    BY WalkFacts
  <2>1. Frontier = n /\ Frontier' = n
    BY <1>1, <1>2, <1>4 DEF Frontier, Loaded, LaidOut
  <2>2. CommandsBefore(n)'
    BY <1>1, <1>2, <2>1, SameLines DEF Collected, CommandCount, LineOf
  <2> QED
    BY <1>3, <2>1, <2>2 DEF Collected
<1>5. CASE phase' \in {"rejected", "crashed"}
  BY <1>3, <1>5 DEF Collected, Loading, Loaded, LaidOut
<1> QED
  BY <1>2, <1>4, <1>5

-----------------------------------------------------------------------------
(* The compiler.                                                            *)

LabelSymbol == ({"lbl#"} \X Label) \cup ({"codeblock_first#", "codeblock_close#"} \X Nat)

\* What marks a place in the document is never taken for the index of a command.
PlainLabels ==
    /\ active_labels \in Seq(LabelSymbol) /\ label \in Seq(LabelSymbol)
    /\ \A i \in 1 .. CommandCount : script_commands[i].labels \in Seq(LabelSymbol)

LEMMA LabelSymbols ==
    /\ \A x \in Label : Lbl(x) \in LabelSymbol
    /\ \A b \in Nat : First(b) \in LabelSymbol /\ Close(b) \in LabelSymbol
    /\ \A y \in LabelSymbol : \A i : y # Cmd(i)
BY DEF Lbl, First, Close, Cmd, LabelSymbol

LEMMA HandleLineLabels == ASSUME Inv, PlainLabels, HandleLine PROVE PlainLabels'
<1> DEFINE l == doc[dbcode]
           new == LabelsWith(l.label)
           cmd == [line |-> dbcode, labels |-> new, child |-> None]
<1>1. l.label \in Label \cup {None} /\ CommandCount \in Nat
  BY WalkFacts DEF DocumentLine
<1>2. new \in Seq(LabelSymbol)
  BY <1>1, AppendProperties, LabelSymbols DEF LabelsWith, PlainLabels
<1>3. label' = label
  BY DEF HandleLine, compiler
<1>4. CASE UNCHANGED script_commands
  <2>1. active_labels' \in {active_labels, new, <<>>}
    BY DEF HandleLine, commands
  <2> HIDE DEF new
  <2> QED
    BY <1>2, <1>3, <1>4, <2>1, EmptySeq DEF PlainLabels, CommandCount
<1>5. CASE ~UNCHANGED script_commands
  <2>1. active_labels' = <<>> /\ script_commands' = Append(script_commands, cmd)
    BY <1>5 DEF HandleLine, commands
  <2>2. cmd \in [line : 1 .. Len(doc), labels : Seq(LabelSymbol), child : {None}]
    BY <1>2, WalkFacts
  <2>3. script_commands \in Seq(Command)
    BY DEF Inv, TypeOK
  <2> DEFINE Any == Command \cup [line : 1 .. Len(doc), labels : Seq(LabelSymbol), child : {None}]
  <2>4. script_commands \in Seq(Any) /\ cmd \in Any
    BY <2>2, <2>3
  <2> HIDE DEF cmd, Any
  <2>5. /\ Len(script_commands') = Len(script_commands) + 1
        /\ \A i \in 1 .. Len(script_commands) : script_commands'[i] = script_commands[i]
        /\ script_commands'[Len(script_commands) + 1] = cmd
    BY <2>1, <2>4, AppendProperties
  <2>6. cmd.labels \in Seq(LabelSymbol)
    BY <1>2 DEF cmd
  <2>7. \A i \in 1 .. CommandCount + 1 : script_commands'[i].labels \in Seq(LabelSymbol)
    BY <1>1, <2>5, <2>6 DEF PlainLabels, CommandCount
  <2> QED
    BY <1>3, <2>1, <2>5, <2>7, EmptySeq DEF PlainLabels, CommandCount
<1> QED
  BY <1>4, <1>5

LEMMA MoveLabels == ASSUME Inv, PlainLabels, Move PROVE PlainLabels'
<1>1. label' = label
  BY DEF Move, compiler
<1>2. CASE UNCHANGED commands
  BY <1>1, <1>2 DEF PlainLabels, commands, CommandCount
<1>3. CASE PushCodeblock /\ active_command # 0 /\ ~NestFull
  <2> DEFINE old == script_commands[active_command]
             new == [old EXCEPT !.child = next_codeblock_id]
  <2>1. active_command \in 1 .. CommandCount /\ next_codeblock_id \in Nat
    BY <1>3, WalkFacts DEF Inv, TypeOK
  <2>2. /\ script_commands' = [script_commands EXCEPT ![active_command] = new]
        /\ active_labels' = Append(active_labels, First(next_codeblock_id))
    BY <1>3 DEF PushCodeblock
  <2>3. new \in Command /\ new.labels = old.labels
    BY <2>1, WalkFacts DEF Command
  <2> HIDE DEF new
  <2>4. /\ Len(script_commands') = Len(script_commands)
        /\ \A i \in 1 .. Len(script_commands) :
              script_commands'[i] = IF i = active_command THEN new ELSE script_commands[i]
    BY <2>1, <2>2, <2>3, ExceptSeq DEF Inv, TypeOK, CommandCount
  <2>5. active_labels' \in Seq(LabelSymbol)
    BY <2>1, <2>2, AppendProperties, LabelSymbols DEF PlainLabels
  <2>6. \A i \in 1 .. CommandCount : script_commands'[i].labels \in Seq(LabelSymbol)
    BY <2>1, <2>3, <2>4 DEF PlainLabels, CommandCount
  <2> QED
    BY <1>1, <2>4, <2>5, <2>6 DEF PlainLabels, CommandCount
<1> QED
  BY <1>2, <1>3 DEF Move, PushCodeblock

LEMMA UnwindLabels == ASSUME Inv, PlainLabels, Unwind PROVE PlainLabels'
<1>1. label' = label
  BY DEF Unwind, compiler
<1>2. CASE UNCHANGED commands
  BY <1>1, <1>2 DEF PlainLabels, commands, CommandCount
<1>3. CASE codeblocks # <<>> /\ PopCodeblock
  <2>1. codeblocks[Len(codeblocks)] \in Nat
    BY <1>3, FrontOfSeq DEF Inv, TypeOK
  <2>2. active_labels' = Append(active_labels, Close(codeblocks[Len(codeblocks)]))
    BY <1>3 DEF PopCodeblock
  <2>3. active_labels' \in Seq(LabelSymbol)
    BY <2>1, <2>2, AppendProperties, LabelSymbols DEF PlainLabels
  <2> QED
    BY <1>1, <1>3, <2>3, PopStep DEF PlainLabels, CommandCount
<1> QED
  BY <1>2, <1>3 DEF Unwind, PopCodeblock

\* The labels in front of the code of a command name no index.
LEMMA CarriedPlain ==
    ASSUME Inv, PlainLabels, NEW i \in 1 .. CommandCount
    PROVE  CarriedLabels(script_commands[i]) \in Seq(LabelSymbol)
BY ConcatProperties DEF PlainLabels, CarriedLabels

Skips(i) == doc[LineOf(i)].op = "skip"

\* Command j is the first one from i on that has code.
Carries(j, i) ==
    /\ ~Skips(j) /\ i \in 1 .. j
    /\ \A k \in i .. j - 1 : Skips(k)

Among(symbols, sym) == \E s \in 1 .. Len(symbols) : symbols[s] = sym

NotYetCompiled == phase \in Loading => target_iptr = 1 /\ iptr = 1

\* The first t - 1 commands are compiled, and those from n on have no code.
CompiledUpTo(t, n) ==
    /\ \A k \in n .. t - 1 : Skips(k)
    /\ n > 1 => ~Skips(n - 1)
    /\ \A i \in 1 .. n - 1 : \E j \in i .. n - 1 : Carries(j, i)

SymbolsExact(code, j) ==
    \A i \in Nat : Among(code.symbols, Cmd(i)) <=> Carries(j, i)

Compiled ==
    phase \in Loaded =>
        /\ CompiledUpTo(target_iptr, iptr)
        /\ \A j \in 1 .. target_iptr - 1 : SymbolsExact(asm_code[j], j)

LEMMA SameCommands ==
    ASSUME UNCHANGED <<doc, script_commands>>
    PROVE  /\ \A j, i : Carries(j, i)' = Carries(j, i)
           /\ \A t, n : CompiledUpTo(t, n)' = CompiledUpTo(t, n)
           /\ CommandCount' = CommandCount
<1>1. \A k : Skips(k)' = Skips(k)
  BY DEF Skips, LineOf
<1>2. \A j, i : Carries(j, i)' = Carries(j, i)
  BY <1>1 DEF Carries
<1>3. CommandCount' = CommandCount
  BY DEF CommandCount
<1> QED
  BY <1>1, <1>2, <1>3 DEF CompiledUpTo

\* The indices a piece takes are those since the last piece.
LEMMA IndicesTaken ==
    ASSUME Inv, PlainLabels, phase = "compile", target_iptr <= CommandCount,
           NEW i \in Nat
    PROVE  Among(CarriedLabels(script_commands[target_iptr]) \o IndexSymbols, Cmd(i))
               <=> i \in iptr .. target_iptr
<1> DEFINE a == CarriedLabels(script_commands[target_iptr])
           b == IndexSymbols
           n == target_iptr - iptr + 1
<1>1. target_iptr \in 1 .. CommandCount /\ CommandCount \in Nat /\ iptr \in 1 .. target_iptr
  BY CommandFacts DEF Inv, TypeOK
<1>2. a \in Seq(LabelSymbol)
  BY <1>1, CarriedPlain
<1>3. n \in Nat /\ b = [k \in 1 .. n |-> Cmd(iptr + k - 1)]
  BY <1>1 DEF IndexSymbols
<1> HIDE DEF a, b, n
<1>4. Len(b) = n /\ \A k \in 1 .. n : b[k] = Cmd(iptr + k - 1)
  BY <1>3
<1>5. b \in Seq({Cmd(k) : k \in Int})
  BY <1>1, <1>3
<1>6. /\ Len(a) \in Nat /\ Len(a \o b) = Len(a) + n
      /\ \A k \in 1 .. Len(a) : (a \o b)[k] = a[k]
      /\ \A k \in 1 .. n : (a \o b)[Len(a) + k] = b[k]
  <2> DEFINE S == LabelSymbol \cup {Cmd(k) : k \in Int}
  <2>1. a \in Seq(S) /\ b \in Seq(S)
    BY <1>2, <1>5
  <2> HIDE DEF S
  <2>2. /\ Len(a) \in Nat /\ Len(a \o b) = Len(a) + n
        /\ \A k \in 1 .. Len(a) + n :
              (a \o b)[k] = IF k <= Len(a) THEN a[k] ELSE b[k - Len(a)]
    BY <1>4, <2>1, ConcatProperties, LenProperties
  <2>3. ASSUME NEW k \in 1 .. n PROVE (a \o b)[Len(a) + k] = b[k]
    <3>1. Len(a) + k \in 1 .. Len(a) + n /\ ~(Len(a) + k <= Len(a)) /\ Len(a) + k - Len(a) = k
      BY <1>3, <2>2
    <3> QED
      BY <2>2, <3>1
  <2>4. \A k \in 1 .. Len(a) : k \in 1 .. Len(a) + n /\ k <= Len(a)
    BY <1>3, <2>2
  <2> QED
    BY <2>2, <2>3, <2>4
<1>7. \A k \in 1 .. Len(a) : a[k] # Cmd(i)
  BY <1>2, ElementOfSeq, LabelSymbols
<1>8. ASSUME Among(a \o b, Cmd(i)) PROVE i \in iptr .. target_iptr
  <2>1. PICK s \in 1 .. Len(a) + n : (a \o b)[s] = Cmd(i)
    BY <1>6, <1>8 DEF Among
  <2>2. ~(s \in 1 .. Len(a))
    BY <1>6, <1>7, <2>1
  <2>3. s - Len(a) \in 1 .. n /\ Len(a) + (s - Len(a)) = s
    BY <1>3, <1>6, <2>2
  <2>4. Cmd(iptr + (s - Len(a)) - 1) = Cmd(i)
    BY <1>4, <1>6, <2>1, <2>3
  <2>5. i = iptr + (s - Len(a)) - 1
    BY <2>4 DEF Cmd
  <2> QED
    BY <1>1, <2>3, <2>5 DEF n
<1>9. ASSUME i \in iptr .. target_iptr PROVE Among(a \o b, Cmd(i))
  <2> DEFINE k == i - iptr + 1
  <2>1. k \in 1 .. n /\ iptr + k - 1 = i
    BY <1>1, <1>9 DEF n
  <2>2. Len(a) + k \in 1 .. Len(a \o b)
    BY <1>3, <1>6, <2>1
  <2> HIDE DEF k
  <2>3. (a \o b)[Len(a) + k] = Cmd(i)
    BY <1>4, <1>6, <2>1
  <2> QED
    BY <2>2, <2>3 DEF Among
<1> QED
  BY <1>8, <1>9 DEF a, b

LEMMA CompileCommandCompiled ==
    ASSUME Inv, PlainLabels, Compiled, CompileCommand
    PROVE  PlainLabels' /\ Compiled'
<1>1. phase = "compile" /\ target_iptr <= CommandCount
  BY DEF CompileCommand
<1> PICK t \in 1 .. CommandCount : t = target_iptr
  BY <1>1, CommandFacts
<1> PICK n \in 1 .. t : n = iptr
  BY DEF Inv, TypeOK
<1> DEFINE cmd == script_commands[t]
<1>2. UNCHANGED <<doc, script_commands, active_labels>> /\ CommandCount \in Nat
  BY WalkFacts DEF CompileCommand, input, commands
<1>3. /\ CompiledUpTo(t, n) /\ \A j \in 1 .. t - 1 : SymbolsExact(asm_code[j], j)
      /\ asm_code \in Seq(GeneratedCode) /\ Len(asm_code) = t - 1
  BY <1>1 DEF Compiled, Loaded, Inv, TypeOK
<1>4. PlainLabels'
  <2>1. CarriedLabels(cmd) \in Seq(LabelSymbol)
    BY CarriedPlain
  <2>2. label' \in {label, CarriedLabels(cmd), <<>>}
    BY DEF CompileCommand, compiler
  <2>3. label' \in Seq(LabelSymbol)
    BY <2>1, <2>2, EmptySeq DEF PlainLabels
  <2> QED
    BY <1>2, <2>3 DEF PlainLabels, CommandCount
<1>5. ASSUME NEW code, asm_code' = Append(asm_code, code), code \in GeneratedCode,
             SymbolsExact(code, t)
      PROVE  \A j \in 1 .. t : SymbolsExact(asm_code[j], j)'
  <2>1. (\A j \in 1 .. t - 1 : asm_code'[j] = asm_code[j]) /\ asm_code'[t] = code
    BY <1>3, <1>5, AppendProperties
  <2>2. \A j \in 1 .. t : j \in 1 .. t - 1 \/ j = t
    BY <1>2
  <2>3. \A j \in 1 .. t : SymbolsExact(asm_code'[j], j)
    BY <1>3, <1>5, <2>1, <2>2
  <2>4. CommandCount' = CommandCount /\ \A j, i : Carries(j, i)' = Carries(j, i)
    BY <1>2, SameCommands
  <2> QED
    BY <2>3, <2>4 DEF SymbolsExact, Among
<1>6. CASE Skips(t)
  <2> DEFINE code == [symbols |-> <<>>, exits |-> {}, falls |-> TRUE]
  <2>1. /\ asm_code' = Append(asm_code, code) /\ target_iptr' = t + 1
        /\ iptr' = n /\ phase' = phase
    BY <1>6 DEF CompileCommand, Skips, LineOf
  <2>2. code \in GeneratedCode
    BY EmptySeq DEF GeneratedCode
  <2>3. SymbolsExact(code, t)
    BY <1>6, EmptySeq DEF SymbolsExact, Among, Carries
  <2> HIDE DEF code
  <2>4. CompiledUpTo(t + 1, n)
    <3>1. \A k \in n .. t + 1 - 1 : k \in n .. t - 1 \/ k = t
      BY <1>2
    <3> QED
      BY <1>3, <1>6, <3>1 DEF CompiledUpTo
  <2>5. CompiledUpTo(t + 1, n)'
    BY <1>2, <2>4, SameCommands
  <2>6. target_iptr' - 1 = t
    BY <1>2, <2>1
  <2>7. \A j \in 1 .. t : SymbolsExact(asm_code[j], j)'
    BY <1>5, <2>1, <2>2, <2>3
  <2> QED
    BY <1>4, <2>1, <2>5, <2>6, <2>7 DEF Compiled, CompiledUpTo, SymbolsExact
<1>7. CASE ~Skips(t) /\ ~Accepted(cmd)
  <2>1. phase' = "rejected"
    BY <1>7 DEF CompileCommand, Skips, LineOf
  <2> QED
    BY <1>4, <2>1 DEF Compiled, Loaded, LaidOut
<1>8. CASE ~Skips(t) /\ Accepted(cmd)
  <2> DEFINE code == [symbols |-> CarriedLabels(cmd) \o IndexSymbols,
                      exits |-> Code(t).exits, falls |-> Code(t).falls]
  <2>1. /\ asm_code' = Append(asm_code, code) /\ target_iptr' = t + 1
        /\ iptr' = t + 1 /\ phase' = phase
    BY <1>8 DEF CompileCommand, Skips, LineOf
  <2>2. code \in GeneratedCode
    <3>1. CarriedLabels(cmd) \o IndexSymbols \in Seq(Symbol)
      BY <1>1, CommandFacts, IndexSymbolsType, ConcatProperties
    <3> QED
      BY <1>1, <1>8, <3>1, CodeType DEF GeneratedCode
  <2>3. /\ \A k \in n .. t - 1 : Skips(k)
        /\ n > 1 => ~Skips(n - 1)
        /\ \A i \in 1 .. n - 1 : \E j \in i .. n - 1 : Carries(j, i)
    BY <1>3 DEF CompiledUpTo
  <2>4. \A i \in Nat : Carries(t, i) <=> i \in n .. t
    <3> TAKE i \in Nat
    <3>1. ASSUME i \in n .. t PROVE Carries(t, i)
      <4>1. i \in 1 .. t /\ \A k \in i .. t - 1 : k \in n .. t - 1
        BY <1>2, <3>1
      <4> QED
        BY <1>8, <2>3, <4>1 DEF Carries
    <3>2. ASSUME Carries(t, i), i \notin n .. t PROVE FALSE
      <4>1. i \in 1 .. t /\ \A k \in i .. t - 1 : Skips(k)
        BY <3>2 DEF Carries
      <4>2. n > 1 /\ n - 1 \in i .. t - 1
        BY <1>2, <3>2, <4>1
      <4> QED
        BY <2>3, <4>1, <4>2
    <3> QED
      BY <3>1, <3>2
  <2>5. SymbolsExact(code, t)
    <3>1. \A i \in Nat : Among(code.symbols, Cmd(i)) <=> i \in n .. t
      BY <1>1, IndicesTaken
    <3> HIDE DEF code
    <3> QED
      BY <2>4, <3>1 DEF SymbolsExact
  <2> HIDE DEF code
  <2>6. CompiledUpTo(t + 1, t + 1)
    <3>1. ASSUME NEW i \in 1 .. t PROVE \E j \in i .. t : Carries(j, i)
      <4>1. CASE i \in n .. t
        <5>1. i \in Nat /\ t \in i .. t
          BY <1>2, <4>1
        <5> QED
          BY <2>4, <4>1, <5>1
      <4>2. CASE i \in 1 .. n - 1
        <5>1. PICK j \in i .. n - 1 : Carries(j, i)
          BY <2>3, <4>2
        <5>2. j \in i .. t
          BY <1>2, <4>2
        <5> QED
          BY <5>1, <5>2
      <4> QED
        BY <1>2, <4>1, <4>2
    <3>2. t + 1 - 1 = t /\ \A k : k \notin t + 1 .. t + 1 - 1
      BY <1>2
    <3> QED
      BY <1>8, <3>1, <3>2 DEF CompiledUpTo
  <2>7. CompiledUpTo(t + 1, t + 1)'
    BY <1>2, <2>6, SameCommands
  <2>8. target_iptr' - 1 = t
    BY <1>2, <2>1
  <2>9. \A j \in 1 .. t : SymbolsExact(asm_code[j], j)'
    BY <1>5, <2>1, <2>2, <2>5
  <2> QED
    BY <1>4, <2>1, <2>7, <2>8, <2>9 DEF Compiled, CompiledUpTo, SymbolsExact
<1> QED
  BY <1>6, <1>7, <1>8

-----------------------------------------------------------------------------
(* The layout and the table of commands.                                    *)

Onto ==
    phase \in LaidOut =>
        \A j \in 1 .. CommandCount : \E p \in 1 .. CommandCount : program_map[p] = j

Dispatch ==
    phase = "linked" =>
        \A i \in 1 .. CommandCount :
            IF Defined(Cmd(i))
            THEN command_map[i] \in 1 .. CommandCount /\ Holds(command_map[i], Cmd(i))
            ELSE command_map[i] = 0

Index ==
    /\ IndentedDoc /\ Walk /\ Collected
    /\ PlainLabels /\ NotYetCompiled /\ Compiled
    /\ Onto /\ Dispatch

LEMMA LoadingIndex ==
    ASSUME Inv, Index, HandleLine \/ Move \/ Unwind
    PROVE  Index'
<1> USE DEF Index
<1>1. /\ phase \in Loading /\ phase' \in Loading \cup {"rejected", "compile"}
      /\ UNCHANGED <<doc, target_iptr, iptr>>
  <2>1. CASE HandleLine
    BY <2>1 DEF HandleLine, input, compiler, Loading
  <2>2. CASE Move
    BY <2>2, PushStep DEF Move, input, compiler, Loading
  <2>3. CASE Unwind
    BY <2>3 DEF Unwind, input, compiler, Loading
  <2> QED
    BY <2>1, <2>2, <2>3
<1>2. Walk' /\ Collected' /\ PlainLabels'
  BY HandleLineWalk, MoveWalk, UnwindWalk, HandleLineLabels, MoveLabels, UnwindLabels
<1>3. target_iptr' = 1 /\ iptr' = 1
  BY <1>1 DEF NotYetCompiled
<1>4. Compiled'
  BY <1>3 DEF Compiled, CompiledUpTo
<1>5. NotYetCompiled' /\ Onto' /\ Dispatch'
  BY <1>1, <1>3 DEF NotYetCompiled, Onto, Dispatch, Loading, LaidOut
<1>6. IndentedDoc'
  BY <1>1, SameDocument
<1> QED
  BY <1>2, <1>4, <1>5, <1>6

LEMMA CompileIndex == ASSUME Inv, Index, CompileCommand PROVE Index'
<1> USE DEF Index
<1>1. phase' \in {"compile", "rejected"} /\ doc' = doc
  BY DEF CompileCommand, input
<1>2. Walk' /\ Collected' /\ PlainLabels' /\ Compiled'
  BY AfterLoading, CompileCommandCompiled
<1>3. NotYetCompiled' /\ Onto' /\ Dispatch'
  BY <1>1 DEF NotYetCompiled, Onto, Dispatch, Loading, LaidOut
<1> QED
  BY <1>1, <1>2, <1>3, SameDocument

\* What the layout, the linker and the running program leave alone.
LEMMA LayoutFrame ==
    ASSUME Inv, Index, UNCHANGED <<input, commands, compiler>>, phase \in Loaded,
           phase' \in Loaded \cup {"crashed", "rejected"}
    PROVE  IndentedDoc' /\ PlainLabels' /\ NotYetCompiled' /\ Compiled'
<1>1. UNCHANGED <<doc, script_commands, active_labels, label, target_iptr, iptr, asm_code>>
  BY DEF input, commands, compiler
<1>2. IndentedDoc' /\ PlainLabels'
  BY <1>1, SameDocument DEF Index, PlainLabels, CommandCount
<1>3. NotYetCompiled'
  BY DEF NotYetCompiled, Loading, Loaded, LaidOut
<1>4. Compiled'
  <2>1. CommandCount' = CommandCount /\ \A j, i : Carries(j, i)' = Carries(j, i)
    BY <1>1, SameCommands
  <2>2. \A k : Skips(k)' = Skips(k)
    BY <1>1 DEF Skips, LineOf
  <2>3. /\ CompiledUpTo(target_iptr, iptr)
        /\ \A j \in 1 .. target_iptr - 1 : SymbolsExact(asm_code[j], j)
    BY DEF Index, Compiled
  <2>4. CompiledUpTo(target_iptr, iptr)'
    BY <1>1, <2>1, <2>2, <2>3 DEF CompiledUpTo
  <2>5. \A j \in 1 .. target_iptr - 1 : SymbolsExact(asm_code[j], j)'
    BY <1>1, <2>1, <2>3 DEF SymbolsExact, Among
  <2> QED
    BY <1>1, <2>4, <2>5 DEF Compiled
<1> QED
  BY <1>2, <1>3, <1>4

LEMMA BeginLayoutIndex == ASSUME Inv, Index, BeginLayout PROVE Index'
<1>1. /\ phase = "compile" /\ phase' \in {"crashed", "layout"}
      /\ UNCHANGED <<input, commands, compiler>> /\ CommandCount' = CommandCount
      /\ program_map' = [k \in 1 .. CommandCount |-> k]
  BY DEF BeginLayout, commands, CommandCount
<1>2. IndentedDoc' /\ PlainLabels' /\ NotYetCompiled' /\ Compiled'
  BY <1>1, LayoutFrame DEF Loaded, LaidOut
<1>3. Walk' /\ Collected'
  BY AfterLoading DEF Index
<1>4. Onto' /\ Dispatch'
  BY <1>1 DEF Onto, Dispatch
<1> QED
  BY <1>2, <1>3, <1>4 DEF Index

LEMMA ShuffleIndex == ASSUME Inv, Index, Shuffle PROVE Index'
<1>1. /\ phase = "layout" /\ phase' = "layout"
      /\ UNCHANGED <<input, commands, compiler>> /\ CommandCount' = CommandCount
  BY DEF Shuffle, commands, CommandCount
<1>2. IndentedDoc' /\ PlainLabels' /\ NotYetCompiled' /\ Compiled'
  BY <1>1, LayoutFrame DEF Loaded, LaidOut
<1>3. Walk' /\ Collected'
  BY AfterLoading DEF Index
<1> PICK c \in Nat : c = CommandCount
  BY WalkFacts
<1>4. PICK a \in 1 .. c, b \in 1 .. c : program_map' = Swapped(program_map, a, b)
  BY DEF Shuffle, Inv, TypeOK
<1>5. /\ program_map \in [1 .. c -> 1 .. c]
      /\ \A j \in 1 .. c : \E p \in 1 .. c : program_map[p] = j
  BY <1>1 DEF Inv, EveryCommandEmittedOnce, Index, Onto, LaidOut
<1>6. ASSUME NEW j \in 1 .. c PROVE \E p \in 1 .. c : Swapped(program_map, a, b)[p] = j
  <2>1. PICK p \in 1 .. c : program_map[p] = j
    BY <1>5
  <2> DEFINE q == IF p = b THEN a ELSE IF p = a THEN b ELSE p
  <2>2. q \in 1 .. c /\ Swapped(program_map, a, b)[q] = j
    BY <1>5, <2>1 DEF Swapped
  <2> QED
    BY <2>2
<1>7. Onto' /\ Dispatch'
  BY <1>1, <1>4, <1>6 DEF Onto, Dispatch
<1> QED
  BY <1>2, <1>3, <1>7 DEF Index

LEMMA LinkIndex == ASSUME Inv, Index, Link PROVE Index'
<1>1. /\ phase = "layout" /\ phase' \in {"linked", "rejected"}
      /\ UNCHANGED <<input, commands, compiler, program_map>> /\ CommandCount' = CommandCount
  BY DEF Link, commands, layout, CommandCount
<1>2. IndentedDoc' /\ PlainLabels' /\ NotYetCompiled' /\ Compiled'
  BY <1>1, LayoutFrame DEF Loaded, LaidOut
<1>3. Walk' /\ Collected'
  BY AfterLoading DEF Index
<1>4. Onto'
  BY <1>1 DEF Onto, Index, LaidOut
<1>5. CASE phase' = "linked"
  <2>1. command_map' = [i \in 1 .. CommandCount |->
                          IF Defined(Cmd(i)) THEN Address(Cmd(i)) ELSE 0]
    BY <1>5 DEF Link
  <2>2. \A sym : Defined(sym) => Address(sym) \in 1 .. CommandCount /\ Holds(Address(sym), sym)
    BY DEF Defined, Address
  <2>3. asm_code' = asm_code /\ program_map' = program_map
    BY <1>1 DEF compiler
  <2>4. /\ \A sym : Defined(sym)' = Defined(sym)
        /\ \A p, sym : Holds(p, sym)' = Holds(p, sym)
    BY <1>1, <2>3 DEF Defined, Holds, Piece
  <2>5. \A i \in 1 .. CommandCount :
           IF Defined(Cmd(i))
           THEN command_map'[i] \in 1 .. CommandCount /\ Holds(command_map'[i], Cmd(i))
           ELSE command_map'[i] = 0
    BY <2>1, <2>2
  <2>6. Dispatch'
    BY <1>1, <2>3, <2>4, <2>5 DEF Dispatch, Defined, Holds, Piece
  <2> QED
    BY <1>2, <1>3, <1>4, <2>6 DEF Index
<1>6. CASE phase' = "rejected"
  <2>1. Dispatch'
    BY <1>6 DEF Dispatch
  <2> QED
    BY <1>2, <1>3, <1>4, <2>1 DEF Index
<1> QED
  BY <1>1, <1>5, <1>6

LEMMA RunIndex == ASSUME Inv, Index, Run PROVE Index'
<1>1. /\ phase = "linked" /\ phase' \in {"linked", "crashed"}
      /\ UNCHANGED <<input, commands, compiler, layout, command_map>>
  BY DEF Run, CallByName, CallByIndex, Jump, FallThrough, Leave, Enter
<1>2. IndentedDoc' /\ PlainLabels' /\ NotYetCompiled' /\ Compiled'
  BY <1>1, LayoutFrame DEF Loaded, LaidOut
<1>3. Walk' /\ Collected'
  BY AfterLoading DEF Index
<1>4. UNCHANGED <<script_commands, asm_code, program_map, command_map>>
  BY <1>1 DEF commands, compiler, layout
<1>5. CommandCount' = CommandCount
  BY <1>4 DEF CommandCount
<1>6. Onto'
  BY <1>1, <1>4, <1>5 DEF Index, Onto, LaidOut
<1>7. \A i \in 1 .. CommandCount :
         IF Defined(Cmd(i))
         THEN command_map[i] \in 1 .. CommandCount /\ Holds(command_map[i], Cmd(i))
         ELSE command_map[i] = 0
  BY <1>1 DEF Index, Dispatch
<1>8. Dispatch'
  BY <1>4, <1>5, <1>7 DEF Dispatch, Defined, Holds, Piece
<1> QED
  BY <1>2, <1>3, <1>6, <1>8 DEF Index

LEMMA InitIndex == Init => Index
<1> SUFFICES ASSUME Init PROVE Index
  OBVIOUS
<1>1. IndentedDoc
  BY InputsAssumption DEF Init, IndentedDoc
<1>2. Inv
  BY InitInv
<1>3. /\ phase = "handle" /\ dbcode = 1 /\ dbstack = <<>> /\ script_commands = <<>>
      /\ active_labels = <<>> /\ label = <<>> /\ target_iptr = 1 /\ iptr = 1
  BY DEF Init
<1>4. CommandCount = 0 /\ Len(dbstack) = 0 /\ Frontier = 1 /\ \A k : k \notin 1 .. 0
  BY <1>3, EmptySeq DEF CommandCount, Frontier
<1>5. ~Script!InDirective(1)
  BY DEF Script!InDirective
<1>6. Walk
  BY <1>1, <1>3, <1>4, <1>5 DEF Walk, OpenLines, IndentedDoc
<1>7. Collected
  <2>1. \A l \in 1 .. Len(doc) : ~(l < 1)
    BY <1>2, WalkFacts
  <2> QED
    BY <1>4, <2>1 DEF Collected, CommandsBefore
<1>8. PlainLabels
  BY <1>3, <1>4, EmptySeq DEF PlainLabels
<1>9. NotYetCompiled /\ Compiled /\ Onto /\ Dispatch
  BY <1>3 DEF NotYetCompiled, Compiled, Onto, Dispatch, Loaded, LaidOut
<1> QED
  BY <1>1, <1>6, <1>7, <1>8, <1>9 DEF Index

LEMMA StutterIndex == ASSUME Index, UNCHANGED vars PROVE Index'
<1>1. UNCHANGED <<doc, phase, dbcode, dbstack, script_commands, active_labels, label,
                  target_iptr, iptr, asm_code, program_map, command_map>>
  BY DEF vars, input, loader, commands, compiler, layout, linked
<1>2. CommandCount' = CommandCount
  BY <1>1 DEF CommandCount
<1>3. IndentedDoc' /\ PlainLabels' /\ NotYetCompiled'
  BY <1>1, <1>2, SameDocument DEF Index, PlainLabels, NotYetCompiled
<1>4. Walk' = Walk
  BY <1>1 DEF Walk, OpenLines, Frontier, Script!InDirective, Script!BlockEnd, Script!LeastOr
<1>5. Collected' = Collected
  BY <1>1, <1>2 DEF Collected, CommandsBefore, Frontier, LineOf, IsScript, Script!InDirective,
     Script!BlockEnd, Script!LeastOr
<1>6. Compiled' = Compiled
  BY <1>1, <1>2 DEF Compiled, CompiledUpTo, SymbolsExact, Among, Carries, Skips, LineOf
<1>7. Onto' = Onto /\ Dispatch' = Dispatch
  BY <1>1, <1>2 DEF Onto, Dispatch, Defined, Holds, Piece
<1> QED
  BY <1>3, <1>4, <1>5, <1>6, <1>7 DEF Index

LEMMA IndexHolds == Spec => []Index
<1>1. Inv /\ Index /\ [Next]_vars => Index'
  BY LoadingIndex, CompileIndex, BeginLayoutIndex, ShuffleIndex, LinkIndex, RunIndex,
     StutterIndex DEF Next, Build
<1> QED
  BY <1>1, InitIndex, InvHolds, PTL DEF Spec

-----------------------------------------------------------------------------
(* What is reached.                                                         *)

LEMMA FirstFromIs ==
    ASSUME Document, NEW l \in 1 .. Len(doc), NEW m \in l .. Len(doc), Script!IsCommand(m),
           \A k \in l .. Len(doc) : Script!IsCommand(k) => m <= k
    PROVE  Script!FirstFrom(l) = m
<1> DEFINE D == {k \in l .. Len(doc) : Script!IsCommand(k)}
<1>1. Len(doc) \in Nat
  BY DocumentFacts
<1>2. m \in D /\ \A k \in D : m <= k
  OBVIOUS
<1>3. \A k \in D : k \in Nat
  BY <1>1
<1>4. Script!FirstFrom(l) = Script!LeastOr(D, 0)
  BY DEF Script!FirstFrom
<1> HIDE DEF D
<1>5. D \in SUBSET Nat /\ D # {}
  BY <1>2, <1>3
<1>6. Script!LeastOr(D, 0) \in D /\ \A y \in D : Script!LeastOr(D, 0) <= y
  BY <1>5, Least
<1> DEFINE f == Script!LeastOr(D, 0)
<1>7. f \in Nat /\ m \in Nat /\ f <= m /\ m <= f
  BY <1>2, <1>3, <1>6
<1> HIDE DEF f
<1>8. f = m
  BY <1>7
<1> QED
  BY <1>4, <1>8 DEF f

LEMMA NoneFrom ==
    ASSUME NEW l, \A k \in l .. Len(doc) : ~Script!IsCommand(k)
    PROVE  Script!FirstFrom(l) = 0
BY DEF Script!FirstFrom, Script!LeastOr

\* The commands that are not skips are the commands of the document.
LEMMA CommandLines ==
    ASSUME Inv, Index, phase = "linked"
    PROVE  /\ \A i \in 1 .. CommandCount : ~Skips(i) <=> Script!IsCommand(LineOf(i))
           /\ \A l \in 1 .. Len(doc) : Script!IsCommand(l) =>
                 \E i \in 1 .. CommandCount : LineOf(i) = l /\ ~Skips(i)
           /\ \A i, j \in 1 .. CommandCount : i < j => LineOf(i) < LineOf(j)
<1> PICK n \in Nat : n = Len(doc) + 1
  BY WalkFacts
<1>1. CommandsBefore(n)
  BY DEF Index, Collected, Frontier, Loaded, LaidOut
<1>2. \A i \in 1 .. CommandCount : IsScript(LineOf(i))
  BY <1>1 DEF CommandsBefore
<1>3. \A i \in 1 .. CommandCount : ~Skips(i) <=> Script!IsCommand(LineOf(i))
  BY <1>2 DEF Skips, IsScript, Script!IsCommand
<1>4. ASSUME NEW l \in 1 .. Len(doc), Script!IsCommand(l)
      PROVE  \E i \in 1 .. CommandCount : LineOf(i) = l /\ ~Skips(i)
  <2>1. IsScript(l) /\ l < n
    BY <1>4, WalkFacts DEF IsScript, Script!IsCommand
  <2>2. PICK i \in 1 .. CommandCount : LineOf(i) = l
    BY <1>1, <2>1 DEF CommandsBefore
  <2> QED
    BY <1>3, <1>4, <2>2
<1>5. \A i, j \in 1 .. CommandCount : i < j => LineOf(i) < LineOf(j)
  BY <1>1 DEF CommandsBefore
<1> QED
  BY <1>3, <1>4, <1>5

LEMMA IndexLeads == ASSUME Inv, Index, phase = "linked" PROVE IndexReachesCommand
<1> SUFFICES ASSUME NEW i \in 1 .. CommandCount
             PROVE  LET reached == Script!FirstFrom(LineOf(i)) IN
                    IF reached = 0 THEN command_map[i] = 0
                    ELSE /\ command_map[i] # 0
                         /\ LineOf(program_map[command_map[i]]) = reached
  BY DEF IndexReachesCommand, LineOf
<1>1. /\ CommandCount \in Nat /\ Document /\ Len(doc) \in Nat
      /\ \A k \in 1 .. CommandCount : LineOf(k) \in 1 .. Len(doc)
  BY WalkFacts
<1>2. /\ target_iptr = CommandCount + 1 /\ CompiledUpTo(target_iptr, iptr)
      /\ \A j \in 1 .. CommandCount : SymbolsExact(asm_code[j], j)
      /\ iptr \in 1 .. CommandCount + 1
  BY <1>1 DEF Index, Compiled, Inv, AllGenerated, TypeOK, Loaded, LaidOut
<1>3. /\ program_map \in [1 .. CommandCount -> 1 .. CommandCount]
      /\ \A j \in 1 .. CommandCount : \E p \in 1 .. CommandCount : program_map[p] = j
  BY DEF Inv, EveryCommandEmittedOnce, Index, Onto, LaidOut
<1>4. \A p \in 1 .. CommandCount : Holds(p, Cmd(i)) <=> Carries(program_map[p], i)
  <2>1. i \in Nat
    BY <1>1
  <2>2. \A j \in 1 .. CommandCount : Among(asm_code[j].symbols, Cmd(i)) <=> Carries(j, i)
    BY <1>2, <2>1 DEF SymbolsExact
  <2> QED
    BY <1>3, <2>2 DEF Among, Holds, Piece
<1>5. IF Defined(Cmd(i))
      THEN command_map[i] \in 1 .. CommandCount /\ Holds(command_map[i], Cmd(i))
      ELSE command_map[i] = 0
  BY DEF Index, Dispatch
<1>6. CASE Defined(Cmd(i))
  <2> PICK j \in 1 .. CommandCount : j = program_map[command_map[i]]
    BY <1>3, <1>5, <1>6
  <2>1. Carries(j, i) /\ command_map[i] # 0
    BY <1>1, <1>4, <1>5, <1>6
  <2>2. ~Skips(j) /\ i \in 1 .. j /\ \A k \in i .. j - 1 : Skips(k)
    BY <2>1 DEF Carries
  <2>3. LineOf(j) \in LineOf(i) .. Len(doc) /\ Script!IsCommand(LineOf(j))
    <3>1. i = j \/ i < j
      BY <1>1, <2>2
    <3>2. LineOf(i) <= LineOf(j)
      BY <1>1, <3>1, CommandLines
    <3> QED
      BY <1>1, <2>2, <3>2, CommandLines
  <2>4. ASSUME NEW l \in LineOf(i) .. Len(doc), Script!IsCommand(l) PROVE LineOf(j) <= l
    <3>1. l \in 1 .. Len(doc)
      BY <1>1
    <3>2. PICK k \in 1 .. CommandCount : LineOf(k) = l /\ ~Skips(k)
      BY <2>4, <3>1, CommandLines
    <3>3. ~(k < i)
      <4>1. k < i => LineOf(k) < LineOf(i)
        BY CommandLines
      <4> QED
        BY <1>1, <3>2, <4>1
    <3>4. ~(k < j)
      BY <1>1, <2>2, <3>2, <3>3
    <3>5. j = k \/ j < k
      BY <1>1, <3>4
    <3> QED
      BY <1>1, <3>2, <3>5, CommandLines
  <2>5. LineOf(j) \in Nat \ {0} /\ LineOf(i) \in 1 .. Len(doc)
    BY <1>1
  <2>6. Script!FirstFrom(LineOf(i)) = LineOf(j)
    BY <1>1, <2>3, <2>4, <2>5, FirstFromIs
  <2> QED
    BY <2>1, <2>5, <2>6
<1>7. CASE ~Defined(Cmd(i))
  <2>1. \A j \in 1 .. CommandCount : ~Carries(j, i)
    BY <1>3, <1>4, <1>7 DEF Defined
  <2>2. i >= iptr
    <3> SUFFICES ASSUME i < iptr PROVE FALSE
      BY <1>1, <1>2
    <3>1. i \in 1 .. iptr - 1
      BY <1>1, <1>2
    <3>2. PICK j \in i .. iptr - 1 : Carries(j, i)
      BY <1>2, <3>1 DEF CompiledUpTo
    <3>3. j \in 1 .. CommandCount
      BY <1>1, <1>2, <3>1
    <3> QED
      BY <2>1, <3>2, <3>3
  <2>3. \A k \in i .. CommandCount : Skips(k)
    BY <1>1, <1>2, <2>2 DEF CompiledUpTo
  <2>4. ASSUME NEW l \in LineOf(i) .. Len(doc), Script!IsCommand(l) PROVE FALSE
    <3>1. l \in 1 .. Len(doc)
      BY <1>1
    <3>2. PICK k \in 1 .. CommandCount : LineOf(k) = l /\ ~Skips(k)
      BY <2>4, <3>1, CommandLines
    <3>3. k < i
      BY <1>1, <2>3, <3>2
    <3>4. LineOf(k) < LineOf(i)
      BY <3>3, CommandLines
    <3> QED
      BY <1>1, <3>2, <3>4
  <2>5. Script!FirstFrom(LineOf(i)) = 0
    BY <2>4, NoneFrom
  <2> QED
    BY <1>5, <1>7, <2>5
<1> QED
  BY <1>6, <1>7

\* Dispatching by index (goto with a number, lwreturn, resume) reaches the command
\* of that index, or the first one after it that has code, in every layout of every
\* document (command_map in tactyk_asmvm__add_program).
THEOREM IndexReaches == Spec => []IndexReachesCommand
<1>1. Inv /\ Index => IndexReachesCommand
  BY IndexLeads DEF IndexReachesCommand
<1> QED
  BY <1>1, InvHolds, IndexHolds, PTL

-----------------------------------------------------------------------------
(* Functions.                                                               *)

\* The last line is a command that generates code.
CommandLast == Script!IsCommand(Len(doc))

\* A function begins at a command there is, or at the next one while a line is left.
FunctionsInside ==
    phase \in Loading \cup Loaded =>
        \A f \in 1 .. Len(functions) :
            functions[f].value <= CommandCount + (IF Frontier <= Len(doc) THEN 1 ELSE 0)

LEMMA FunctionFacts ==
    ASSUME Inv
    PROVE  /\ Len(functions) \in Nat /\ functions \in Seq([label : Label, value : Nat \ {0}])
           /\ \A f \in 1 .. Len(functions) : functions[f].value \in Nat \ {0}
<1>1. functions \in Seq([label : Label, value : Nat \ {0}])
  BY DEF Inv, TypeOK
<1>2. \A f \in 1 .. Len(functions) : functions[f] \in [label : Label, value : Nat \ {0}]
  BY <1>1, ElementOfSeq
<1> QED
  BY <1>1, <1>2, LenProperties

LEMMA SameCommandLast == ASSUME UNCHANGED doc PROVE CommandLast' = CommandLast
BY DEF CommandLast, Script!IsCommand, Script!InDirective, Script!BlockEnd, Script!LeastOr

InDocument == phase \in Loading \cup Loaded => Frontier \in 1 .. Len(doc) + 1

LEMMA FrontierRange == Inv => InDocument
<1> SUFFICES ASSUME Inv, phase \in Loading \cup Loaded
             PROVE  Frontier \in 1 .. Len(doc) + 1
  BY DEF InDocument
<1>1. Len(doc) \in Nat /\ dbcode \in 1 .. Len(doc) /\ Document
  BY WalkFacts
<1>2. Script!BlockEnd(dbcode) \in 1 .. Len(doc) + 1
  BY <1>1, BlockEndIs
<1> QED
  BY <1>1, <1>2 DEF Frontier

LEMMA FrontierNext == Inv' => InDocument'
BY FrontierRange, PTL

LEMMA HandleLineFunctions ==
    ASSUME Inv, CommandLast, FunctionsInside, HandleLine
    PROVE  FunctionsInside'
<1> PICK n \in 1 .. Len(doc), c \in Nat : n = dbcode /\ c = CommandCount
  BY WalkFacts
<1>1. /\ phase = "handle" /\ doc' = doc /\ dbcode' = n /\ Len(doc) \in Nat
      /\ phase' \in {"move", "rejected"}
  BY WalkFacts DEF HandleLine, input, loader
<1>2. CASE phase' = "rejected"
  BY <1>2 DEF FunctionsInside, Loading, Loaded, LaidOut
<1>3. CASE phase' = "move"
  <2>1. Frontier = n /\ Frontier' = n + 1
    BY <1>1, <1>3 DEF Frontier
  <2>2. \A f \in 1 .. Len(functions) : functions[f].value \in Nat /\ functions[f].value <= c + 1
    BY <1>1, <2>1, FunctionFacts DEF FunctionsInside, Loading
  <2>3. \A f \in 1 .. Len(functions') : functions'[f].value <= c + 1
    <3>1. CASE functions' = functions
      BY <2>2, <3>1
    <3>2. CASE functions' = Append(functions, [label |-> doc[n].label, value |-> c + 1])
          /\ doc[n].label \in Label
      <4> DEFINE new == [label |-> doc[n].label, value |-> c + 1]
      <4>1. new \in [label : Label, value : Nat \ {0}] /\ new.value = c + 1
        BY <3>2
      <4> HIDE DEF new
      <4>2. /\ Len(functions') = Len(functions) + 1
            /\ \A f \in 1 .. Len(functions) : functions'[f] = functions[f]
            /\ functions'[Len(functions) + 1] = new
        BY <3>2, <4>1, FunctionFacts, AppendProperties DEF new
      <4>3. \A f \in 1 .. Len(functions) + 1 :
               f \in 1 .. Len(functions) \/ f = Len(functions) + 1
        BY FunctionFacts
      <4> QED
        BY <2>2, <4>1, <4>2, <4>3
    <3>3. functions' \in {functions, FunctionsWith(doc[n].label)}
      BY DEF HandleLine, commands
    <3>4. doc[n].label \in Label \cup {None}
      BY WalkFacts DEF DocumentLine
    <3> QED
      BY <3>1, <3>2, <3>3, <3>4 DEF FunctionsWith, FunctionValue
  <2>4. CASE doc[n].op \in {"directive", "none"}
    <3>1. CommandCount' = c
      BY <2>4 DEF HandleLine, commands, CommandCount
    <3>2. n # Len(doc)
      BY <2>4 DEF CommandLast, Script!IsCommand
    <3>3. n + 1 <= Len(doc)
      BY <1>1, <3>2
    <3> QED
      BY <1>1, <2>1, <2>3, <3>1, <3>3 DEF FunctionsInside
  <2>5. CASE doc[n].op \notin {"directive", "none"}
    <3>1. CommandCount' = c + 1
      <4> DEFINE cmd == [line |-> n, labels |-> LabelsWith(doc[n].label), child |-> None]
      <4>1. script_commands' = Append(script_commands, cmd)
        BY <1>3, <2>5 DEF HandleLine
      <4> HIDE DEF cmd
      <4>2. script_commands \in Seq(Command \cup {cmd})
        BY DEF Inv, TypeOK
      <4> QED
        BY <4>1, <4>2, AppendProperties DEF CommandCount
    <3>2. \A x \in Int : x <= c + 1 => x <= c + 1 + (IF n + 1 <= Len(doc) THEN 1 ELSE 0)
      OBVIOUS
    <3>3. \A f \in 1 .. Len(functions') : functions'[f].value \in Int
      <4>1. functions' \in Seq([label : Label, value : Nat \ {0}])
        BY HandleLineStep DEF Inv, TypeOK
      <4>2. \A f \in 1 .. Len(functions') : functions'[f] \in [label : Label, value : Nat \ {0}]
        BY <4>1, ElementOfSeq
      <4> QED
        BY <4>2
    <3> QED
      BY <1>1, <2>1, <2>3, <3>1, <3>2, <3>3 DEF FunctionsInside
  <2> QED
    BY <2>4, <2>5
<1> QED
  BY <1>1, <1>2, <1>3

\* The last line is met as a command before the loader comes to the end.
LEMMA WalkFunctions ==
    ASSUME Inv, Index, CommandLast, FunctionsInside, Move \/ Unwind
    PROVE  FunctionsInside'
<1>1. /\ SkipsDirectives /\ UNCHANGED <<doc, functions>> /\ CommandCount' = CommandCount
      /\ phase \in Loading
  <2>1. CASE Move
    <3>1. UNCHANGED functions /\ CommandCount' = CommandCount
      BY <2>1, PushStep DEF Move, commands, CommandCount
    <3> QED
      BY <2>1, <3>1, MoveWalk DEF Index, Move, input, Loading
  <2>2. CASE Unwind
    <3>1. UNCHANGED functions /\ CommandCount' = CommandCount
      BY <2>2, PopStep DEF Unwind, commands, CommandCount
    <3> QED
      BY <2>2, <3>1, UnwindWalk DEF Index, Unwind, input, Loading
  <2> QED
    BY <2>1, <2>2
<1> SUFFICES ASSUME phase' \in Loading \cup Loaded, NEW f \in 1 .. Len(functions)
             PROVE  functions[f].value
                       <= CommandCount + (IF Frontier' <= Len(doc) THEN 1 ELSE 0)
  BY <1>1 DEF FunctionsInside
<1> PICK v \in Nat, c \in Nat, m \in 1 .. Len(doc) + 1 :
       v = functions[f].value /\ c = CommandCount /\ m = Frontier
  BY <1>1, FunctionFacts, FrontierRange, WalkFacts DEF InDocument
<1>2. v <= c + (IF m <= Len(doc) THEN 1 ELSE 0) /\ Len(doc) \in 1 .. Len(doc)
  BY <1>1, WalkFacts DEF FunctionsInside
<1>3. ~(m <= Len(doc) /\ Len(doc) < Frontier')
  BY <1>1, <1>2 DEF SkipsDirectives, CommandLast, Script!IsCommand
<1>4. Frontier' \in 1 .. Len(doc) + 1
  BY <1>1, MoveStep, UnwindStep, FrontierNext DEF InDocument
<1> QED
  BY <1>2, <1>3, <1>4, WalkFacts

LEMMA AfterLoadingFunctions ==
    ASSUME Inv, FunctionsInside, CompileCommand \/ BeginLayout \/ Shuffle \/ Link \/ Run
    PROVE  FunctionsInside'
<1>1. UNCHANGED <<doc, script_commands, functions>>
  BY DEF CompileCommand, BeginLayout, Shuffle, Link, Run, CallByName, CallByIndex, Jump,
     FallThrough, Leave, Enter, input, commands
<1>2. phase \in Loaded /\ phase' \in Loaded \cup {"rejected", "crashed"}
  BY DEF CompileCommand, BeginLayout, Shuffle, Link, Run, CallByName, CallByIndex, Jump,
     FallThrough, Leave, Enter, Loaded, LaidOut
<1>3. CASE phase' \in Loaded
  <2>1. Frontier = Len(doc) + 1 /\ Frontier' = Len(doc) + 1
    BY <1>1, <1>2, <1>3 DEF Frontier, Loaded, LaidOut
  <2> QED
    BY <1>1, <1>2, <2>1 DEF FunctionsInside, CommandCount
<1>4. CASE phase' \in {"rejected", "crashed"}
  BY <1>4 DEF FunctionsInside, Loading, Loaded, LaidOut
<1> QED
  BY <1>2, <1>3, <1>4

LEMMA FunctionsHold == Spec /\ CommandLast => [](CommandLast /\ FunctionsInside)
<1>1. Init => FunctionsInside
  <2> SUFFICES ASSUME Init PROVE FunctionsInside
    OBVIOUS
  <2>1. Len(functions) = 0 /\ \A f : f \notin 1 .. 0
    BY EmptySeq DEF Init
  <2> QED
    BY <2>1 DEF FunctionsInside
<1>2. Inv /\ Index /\ CommandLast /\ FunctionsInside /\ [Next]_vars
         => CommandLast' /\ FunctionsInside'
  <2> SUFFICES ASSUME Inv, Index, CommandLast, FunctionsInside, [Next]_vars
               PROVE  CommandLast' /\ FunctionsInside'
    OBVIOUS
  <2>1. UNCHANGED doc
    BY DEF Next, Build, vars, input, HandleLine, Move, Unwind, CompileCommand, BeginLayout,
       Shuffle, Link, Run, CallByName, CallByIndex, Jump, FallThrough, Leave, Enter
  <2>2. CASE UNCHANGED vars
    <3>1. UNCHANGED <<phase, dbcode, script_commands, functions>>
      BY <2>2 DEF vars, loader, commands
    <3>2. UNCHANGED <<CommandCount, Frontier>>
      BY <2>1, <3>1 DEF CommandCount, Frontier, Script!BlockEnd, Script!LeastOr
    <3> QED
      BY <2>1, <3>1, <3>2, SameCommandLast DEF FunctionsInside
  <2> QED
    BY <2>1, <2>2, SameCommandLast, HandleLineFunctions, WalkFunctions, AfterLoadingFunctions
       DEF Next, Build
<1> QED
  BY <1>1, <1>2, InvHolds, IndexHolds, PTL DEF Spec

\* When the last line of a document is a command, no function is left without one:
\* also tvmjump by index, which compares nothing, finds an address (function_map in
\* tactyk_asmvm__add_program).
THEOREM FunctionsReach == Spec /\ CommandLast => []FunctionsBegin
<1>1. Inv /\ Index /\ CommandLast /\ FunctionsInside => FunctionsBegin
  <2> SUFFICES ASSUME Inv, Index, CommandLast, FunctionsInside, phase = "linked",
                      NEW f \in 1 .. Len(functions)
               PROVE  FunctionMap(f) # 0
    BY DEF FunctionsBegin
  <2>1. ~(Len(doc) + 1 <= Len(doc)) /\ Len(doc) \in 1 .. Len(doc) /\ CommandCount \in Nat
    BY WalkFacts
  <2>2. functions[f].value \in 1 .. CommandCount
    BY <2>1, FunctionFacts DEF FunctionsInside, Frontier, Loaded, LaidOut
  <2> PICK i \in 1 .. CommandCount : i = functions[f].value
    BY <2>2
  <2>3. LineOf(i) \in 1 .. Len(doc)
    BY WalkFacts
  <2>4. Script!FirstFrom(LineOf(i)) # 0
    <3> DEFINE D == {k \in LineOf(i) .. Len(doc) : Script!IsCommand(k)}
    <3>1. Len(doc) \in D /\ D \in SUBSET Nat /\ 0 \notin D
      BY <2>1, <2>3 DEF CommandLast
    <3>2. Script!FirstFrom(LineOf(i)) = Script!LeastOr(D, 0)
      BY DEF Script!FirstFrom
    <3> HIDE DEF D
    <3> QED
      BY <3>1, <3>2, Least
  <2>5. command_map[i] # 0
    BY <2>4, IndexLeads DEF IndexReachesCommand, LineOf
  <2> QED
    BY <2>2, <2>5 DEF FunctionMap
<1> QED
  BY <1>1, InvHolds, IndexHolds, FunctionsHold, PTL

-----------------------------------------------------------------------------
(***************************************************************************)
(* The built program does what its document says.  Every symbol marks a    *)
(* line of the document: a label its own line, the symbols of a block the  *)
(* line below the `if` and the end of its block.  A symbol waits until the *)
(* first command at or after its line takes it, and is passed on by        *)
(* commands without code, so that the piece it ends up at is the first     *)
(* command from that line on.                                              *)
(***************************************************************************)

\* No line that is only a label has a block where the last command before it is an
\* `if` (BuildBlockClose is the counterexample), and directives are not labelled.
OwnBlocks ==
    /\ \A l \in 1 .. Len(doc) :
          doc[l].op = "none" /\ HasChild(l) /\ ~Script!InDirective(l) =>
              \A i \in 1 .. l - 1 : doc[i].op = "if" /\ ~Script!InDirective(i) =>
                  \E k \in i + 1 .. l - 1 : IsScript(k)
    /\ \A l \in 1 .. Len(doc) : doc[l].op = "directive" => doc[l].label = None

\* Command i is an `if` that block b belongs to.
Opens(i, b) == script_commands[i].child = b /\ b # None /\ doc[LineOf(i)].op = "if"

\* Symbol s marks line l, which may be the one after the last.
Marks(s, l) ==
    \/ \E x \in Label : s = Lbl(x) /\ l \in Script!LabelLines(x)
    \/ \E b \in Nat : /\ b < next_codeblock_id /\ s = First(b)
                      /\ \A i \in 1 .. CommandCount : Opens(i, b) => l = LineOf(i) + 1
    \/ \E b \in Nat : /\ b < next_codeblock_id /\ s = Close(b)
                      /\ \A i \in 1 .. CommandCount :
                            Opens(i, b) => l = Script!BlockEnd(LineOf(i))

\* No command has arrived since the line that s marks.
WaitsAt(s, n) ==
    \E l \in 1 .. n : Marks(s, l) /\ \A i \in 1 .. CommandCount : LineOf(i) < l

Waiting ==
    phase \in Loading =>
        \A k \in 1 .. Len(active_labels) : WaitsAt(active_labels[k], Frontier)

\* Command i is the first one from the line that s marks.
TakenBy(s, i) ==
    \E l \in 1 .. LineOf(i) : Marks(s, l) /\ \A j \in 1 .. i - 1 : LineOf(j) < l

Taken ==
    \A i \in 1 .. CommandCount : \A k \in 1 .. Len(script_commands[i].labels) :
        TakenBy(script_commands[i].labels[k], i)

\* The open blocks are those of the innermost open lines.
OpenBlocks ==
    /\ \A i \in 1 .. CommandCount :
          script_commands[i].child # None => script_commands[i].child < next_codeblock_id
    /\ phase = "move" => doc[dbcode].op # "unknown"
    /\ phase \in Loading =>
          /\ active_command = CommandCount
          /\ Len(codeblocks) <= Len(dbstack)
          /\ CommandCount = 0 => codeblocks = <<>>
          /\ \A k \in 1 .. Len(codeblocks) :
                /\ codeblocks[k] < next_codeblock_id
                /\ \A i \in 1 .. CommandCount : Opens(i, codeblocks[k]) =>
                      LineOf(i) = dbstack[Len(dbstack) - Len(codeblocks) + k]

\* Function f begins at the first command from line l on.
BeginsFrom(f, l) ==
    /\ l \in Script!LabelLines(functions[f].label)
    /\ \A i \in 1 .. CommandCount : LineOf(i) < l <=> i < functions[f].value

\* The label table has the labels of the lines met so far, and no others.
LabelTable ==
    phase \in Loading \cup Loaded =>
        /\ \A l \in 1 .. Len(doc) :
              l < Frontier /\ ~Script!InDirective(l) /\ doc[l].label # None =>
                  Known(doc[l].label)
        /\ \A f \in 1 .. Len(functions) :
              /\ functions[f].value <= CommandCount + 1
              /\ \E l \in 1 .. Len(doc) : l < Frontier /\ BeginsFrom(f, l)

Marked == Waiting /\ Taken /\ OpenBlocks /\ LabelTable

\* The document alone decides what a label means.
LEMMA SameLabels ==
    ASSUME UNCHANGED doc
    PROVE  /\ \A x : Script!LabelLines(x)' = Script!LabelLines(x)
           /\ \A l : HasChild(l)' = HasChild(l)
           /\ OwnBlocks' = OwnBlocks
<1>1. \A l : /\ Script!InDirective(l)' = Script!InDirective(l)
             /\ HasChild(l)' = HasChild(l) /\ IsScript(l)' = IsScript(l)
  BY SameDocument DEF HasChild
<1> QED
  BY <1>1 DEF Script!LabelLines, OwnBlocks

\* New blocks and new commands change no mark.
LEMMA MarksStay ==
    ASSUME UNCHANGED doc, NEW n \in Nat, NEW m \in Nat,
           n = next_codeblock_id, m = next_codeblock_id', n <= m,
           \A b \in Nat : b < n =>
               \A i \in 1 .. CommandCount' : Opens(i, b)' =>
                   i \in 1 .. CommandCount /\ Opens(i, b) /\ LineOf(i)' = LineOf(i),
           NEW s, NEW l, Marks(s, l)
    PROVE  Marks(s, l)'
<1>1. CASE \E x \in Label : s = Lbl(x) /\ l \in Script!LabelLines(x)
  BY <1>1, SameLabels DEF Marks, Lbl
<1>2. CASE \E b \in Nat : /\ b < next_codeblock_id /\ s = First(b)
                          /\ \A i \in 1 .. CommandCount : Opens(i, b) => l = LineOf(i) + 1
  <2>1. PICK b \in Nat : /\ b < n /\ s = First(b)
                         /\ \A i \in 1 .. CommandCount : Opens(i, b) => l = LineOf(i) + 1
    BY <1>2
  <2>2. b < m /\ First(b)' = First(b)
    BY <2>1 DEF First
  <2>3. \A i \in 1 .. CommandCount' : Opens(i, b)' => l = LineOf(i)' + 1
    BY <2>1
  <2> QED
    BY <2>1, <2>2, <2>3 DEF Marks
<1>3. CASE \E b \in Nat : /\ b < next_codeblock_id /\ s = Close(b)
                          /\ \A i \in 1 .. CommandCount :
                                Opens(i, b) => l = Script!BlockEnd(LineOf(i))
  <2>1. PICK b \in Nat : /\ b < n /\ s = Close(b)
                         /\ \A i \in 1 .. CommandCount :
                               Opens(i, b) => l = Script!BlockEnd(LineOf(i))
    BY <1>3
  <2>2. b < m /\ Close(b)' = Close(b)
    BY <2>1 DEF Close
  <2>3. \A i \in 1 .. CommandCount' : Opens(i, b)' => l = Script!BlockEnd(LineOf(i))'
    <3> TAKE i \in 1 .. CommandCount'
    <3> HAVE Opens(i, b)'
    <3>1. i \in 1 .. CommandCount /\ Opens(i, b) /\ LineOf(i)' = LineOf(i)
      BY <2>1
    <3>2. l = Script!BlockEnd(LineOf(i))
      BY <2>1, <3>1
    <3>3. Script!BlockEnd(LineOf(i))' = Script!BlockEnd(LineOf(i))
      BY <3>1 DEF Script!BlockEnd, Script!LeastOr
    <3> QED
      BY <3>2, <3>3
  <2> QED
    BY <2>1, <2>2, <2>3 DEF Marks
<1> QED
  BY <1>1, <1>2, <1>3 DEF Marks

\* What marks a line still does when the commands keep their lines and blocks.
LEMMA TakenStay ==
    ASSUME NEW s, NEW i \in 1 .. CommandCount, TakenBy(s, i),
           \A l : Marks(s, l) => Marks(s, l)',
           \A j \in 1 .. i : LineOf(j)' = LineOf(j)
    PROVE  TakenBy(s, i)'
<1>1. PICK l \in 1 .. LineOf(i) : Marks(s, l) /\ \A j \in 1 .. i - 1 : LineOf(j) < l
  BY DEF TakenBy
<1>2. LineOf(i)' = LineOf(i) /\ \A j \in 1 .. i - 1 : LineOf(j)' = LineOf(j)
  BY DEF CommandCount
<1>3. Marks(s, l)'
  BY <1>1
<1> QED
  BY <1>1, <1>2, <1>3 DEF TakenBy

LEMMA MarkedFacts ==
    ASSUME Inv, Index, Marked
    PROVE  /\ next_codeblock_id \in Nat /\ Len(active_labels) \in Nat
           /\ Len(codeblocks) \in Nat /\ \A k \in 1 .. Len(codeblocks) : codeblocks[k] \in Nat
           /\ phase \in Loading => /\ CommandsBefore(Frontier)
                                   /\ Frontier \in 1 .. Len(doc) + 1
                                   /\ \A k \in 1 .. Len(active_labels) :
                                         WaitsAt(active_labels[k], Frontier)
<1>1. next_codeblock_id \in Nat /\ active_labels \in Seq(Symbol) /\ codeblocks \in Seq(Nat)
  BY DEF Inv, TypeOK
<1>2. /\ Len(active_labels) \in Nat /\ Len(codeblocks) \in Nat
      /\ \A k \in 1 .. Len(codeblocks) : codeblocks[k] \in Nat
  BY <1>1, LenProperties, ElementOfSeq
<1> QED
  BY <1>1, <1>2, FrontierRange DEF Index, Collected, Marked, Waiting, InDocument

\* The last command is the one on the line, or the one before it.
LEMMA HandleLineCommands ==
    ASSUME Inv, Index, Marked, HandleLine
    PROVE  /\ UNCHANGED <<doc, dbcode, dbstack, codeblocks, next_codeblock_id>>
           /\ phase = "handle" /\ phase' \in {"move", "rejected"}
           /\ phase' = "move" => doc[dbcode].op # "unknown"
           /\ \/ /\ UNCHANGED <<script_commands, active_command>>
                 /\ ~IsScript(dbcode)
                 /\ active_labels' = IF doc[dbcode].op = "directive" THEN active_labels
                                     ELSE LabelsWith(doc[dbcode].label)
              \/ /\ CommandCount' = CommandCount + 1
                 /\ active_command' = CommandCount + 1 /\ active_labels' = <<>>
                 /\ doc[dbcode].op # "directive" /\ phase' = "move"
                 /\ \A i \in 1 .. CommandCount : script_commands'[i] = script_commands[i]
                 /\ script_commands'[CommandCount + 1].line = dbcode
                 /\ script_commands'[CommandCount + 1].labels = LabelsWith(doc[dbcode].label)
                 /\ script_commands'[CommandCount + 1].child = None
           /\ functions' = IF doc[dbcode].op = "directive" THEN functions
                           ELSE FunctionsWith(doc[dbcode].label)
<1> DEFINE l == doc[dbcode]
           new == LabelsWith(l.label)
           cmd == [line |-> dbcode, labels |-> new, child |-> None]
<1>1. /\ UNCHANGED <<doc, dbcode, dbstack, codeblocks, next_codeblock_id>>
      /\ phase = "handle" /\ phase' \in {"move", "rejected"}
      /\ phase' = "move" => doc[dbcode].op # "unknown"
  BY DEF HandleLine, input, loader, blocks
<1>2. functions' = IF l.op = "directive" THEN functions ELSE FunctionsWith(l.label)
  BY DEF HandleLine, commands
<1>3. CASE l.op \in {"directive", "none", "unknown"}
  <2>1. /\ UNCHANGED <<script_commands, active_command>>
        /\ active_labels' = IF l.op = "directive" THEN active_labels ELSE new
    BY <1>3 DEF HandleLine, commands
  <2>2. ~IsScript(dbcode)
    BY <1>3 DEF IsScript
  <2> QED
    BY <1>1, <1>2, <2>1, <2>2
<1>4. CASE l.op \notin {"directive", "none", "unknown"}
  <2>1. /\ active_labels' = <<>> /\ script_commands' = Append(script_commands, cmd)
        /\ active_command' = CommandCount + 1 /\ phase' = "move"
    BY <1>4 DEF HandleLine
  <2>2. cmd.line = dbcode /\ cmd.labels = new /\ cmd.child = None
    OBVIOUS
  <2> HIDE DEF cmd
  <2>3. script_commands \in Seq(Command \cup {cmd})
    BY DEF Inv, TypeOK
  <2>4. /\ Len(script_commands') = Len(script_commands) + 1
        /\ \A i \in 1 .. Len(script_commands) : script_commands'[i] = script_commands[i]
        /\ script_commands'[Len(script_commands) + 1] = cmd
    BY <2>1, <2>3, AppendProperties
  <2> HIDE DEF new
  <2>5. /\ CommandCount' = CommandCount + 1
        /\ \A i \in 1 .. CommandCount : script_commands'[i] = script_commands[i]
        /\ script_commands'[CommandCount + 1].line = dbcode
        /\ script_commands'[CommandCount + 1].labels = new
        /\ script_commands'[CommandCount + 1].child = None
    BY <2>2, <2>4 DEF CommandCount
  <2> QED
    BY <1>1, <1>2, <1>4, <2>1, <2>5 DEF new
<1> QED
  BY <1>3, <1>4

\* The label of a line waits with those before it.
LEMMA LabelWaits ==
    ASSUME Inv, Index, Marked, phase = "handle"
    PROVE  \A k \in 1 .. Len(LabelsWith(doc[dbcode].label)) :
              WaitsAt(LabelsWith(doc[dbcode].label)[k], dbcode)
<1> DEFINE x == doc[dbcode].label
<1>1. /\ Frontier = dbcode /\ dbcode \in 1 .. Len(doc) /\ x \in Label \cup {None}
      /\ ~Script!InDirective(dbcode)
  BY WalkFacts DEF Frontier, DocumentLine, Index, Walk, Loading
<1>2. /\ \A k \in 1 .. Len(active_labels) : WaitsAt(active_labels[k], dbcode)
      /\ CommandsBefore(dbcode)
  BY <1>1, MarkedFacts DEF Loading
<1>3. CASE x = None
  BY <1>2, <1>3 DEF LabelsWith
<1>4. CASE x # None
  <2>1. Marks(Lbl(x), dbcode)
    BY <1>1, <1>4 DEF Marks, Script!LabelLines
  <2>2. WaitsAt(Lbl(x), dbcode)
    BY <1>1, <1>2, <2>1, WalkFacts DEF WaitsAt, CommandsBefore
  <2>3. active_labels \in Seq(Symbol) /\ Lbl(x) \in Symbol
    BY <1>1, <1>4, SymbolTypes DEF Inv, TypeOK
  <2>4. LabelsWith(x) = Append(active_labels, Lbl(x))
    BY <1>4 DEF LabelsWith
  <2> DEFINE ls == LabelsWith(x)
  <2> HIDE DEF x
  <2>5. /\ Len(ls) = Len(active_labels) + 1 /\ ls[Len(active_labels) + 1] = Lbl(x)
        /\ \A k \in 1 .. Len(active_labels) : ls[k] = active_labels[k]
    BY <2>3, <2>4, AppendProperties
  <2> HIDE DEF ls
  <2>6. \A k \in 1 .. Len(ls) : k \in 1 .. Len(active_labels) \/ k = Len(active_labels) + 1
    BY <2>5, MarkedFacts
  <2>7. \A k \in 1 .. Len(ls) : WaitsAt(ls[k], dbcode)
    BY <1>2, <2>2, <2>5, <2>6
  <2> QED
    BY <2>7 DEF ls, x
<1> QED
  BY <1>3, <1>4

LEMMA HandleLineTakes ==
    ASSUME Inv, Index, Marked, HandleLine
    PROVE  Waiting' /\ Taken' /\ OpenBlocks'
<1> PICK n \in 1 .. Len(doc), c \in Nat, d \in Nat :
       n = dbcode /\ c = CommandCount /\ d = next_codeblock_id
  BY WalkFacts, MarkedFacts
<1> DEFINE new == LabelsWith(doc[n].label)
<1>1. /\ UNCHANGED <<doc, dbcode, dbstack, codeblocks, next_codeblock_id>>
      /\ phase = "handle" /\ phase' \in {"move", "rejected"} /\ Frontier = n
      /\ phase' = "move" => doc[n].op # "unknown"
  BY HandleLineCommands DEF Frontier
<1>2. \/ /\ UNCHANGED <<script_commands, active_command>>
         /\ active_labels' \in {active_labels, new}
      \/ /\ CommandCount' = c + 1 /\ active_command' = c + 1 /\ active_labels' = <<>>
         /\ \A i \in 1 .. c : script_commands'[i] = script_commands[i]
         /\ script_commands'[c + 1].line = n
         /\ script_commands'[c + 1].labels = new
         /\ script_commands'[c + 1].child = None
  BY HandleLineCommands
<1> HIDE DEF new
<1>3. /\ CommandCount' \in {c, c + 1}
      /\ \A i \in 1 .. c : script_commands'[i] = script_commands[i] /\ LineOf(i)' = LineOf(i)
      /\ CommandCount' = c + 1 => script_commands'[c + 1].child = None
  BY <1>2 DEF CommandCount, LineOf
<1>4. \A b : \A i \in 1 .. CommandCount' : Opens(i, b)' =>
          i \in 1 .. c /\ Opens(i, b) /\ LineOf(i)' = LineOf(i)
  <2> TAKE b
  <2> TAKE i \in 1 .. CommandCount'
  <2> HAVE Opens(i, b)'
  <2>1. script_commands'[i].child = b /\ b # None /\ doc'[LineOf(i)'].op = "if"
    BY DEF Opens
  <2>2. i \in 1 .. c
    BY <1>3, <2>1
  <2> QED
    BY <1>1, <1>3, <2>1, <2>2 DEF Opens
<1>5. \A s, l : Marks(s, l) => Marks(s, l)'
  BY <1>1, <1>4, MarksStay
<1>6. /\ \A k \in 1 .. Len(active_labels) : WaitsAt(active_labels[k], n)
      /\ \A k \in 1 .. Len(new) : WaitsAt(new[k], n)
  BY <1>1, LabelWaits, MarkedFacts DEF new, Loading
<1>7. Waiting'
  <2> SUFFICES ASSUME phase' = "move", NEW k \in 1 .. Len(active_labels')
               PROVE  WaitsAt(active_labels[k], Frontier)'
    BY <1>1 DEF Waiting, Loading
  <2>1. Frontier' = n + 1
    BY <1>1 DEF Frontier
  <2>2. UNCHANGED script_commands /\ active_labels' \in {active_labels, new}
    BY <1>2, EmptySeq
  <2>3. WaitsAt(active_labels'[k], n)
    BY <1>6, <2>2
  <2>4. PICK l \in 1 .. n :
           Marks(active_labels'[k], l) /\ \A i \in 1 .. CommandCount : LineOf(i) < l
    BY <2>3 DEF WaitsAt
  <2> PICK s : s = active_labels'[k]
    OBVIOUS
  <2>5. Marks(s, l)'
    BY <1>5, <2>4
  <2>6. \A i \in 1 .. CommandCount' : LineOf(i)' < l
    BY <2>2, <2>4 DEF CommandCount, LineOf
  <2>7. \E m \in 1 .. n + 1 : Marks(s, m)' /\ \A i \in 1 .. CommandCount' : LineOf(i)' < m
    BY <2>5, <2>6
  <2> QED
    BY <2>1, <2>7 DEF WaitsAt, Marks
<1>8. Taken'
  <2>1. ASSUME NEW i \in 1 .. c, NEW k \in 1 .. Len(script_commands[i].labels)
        PROVE  TakenBy(script_commands[i].labels[k], i)'
    <3> PICK s : s = script_commands[i].labels[k]
      OBVIOUS
    <3>1. TakenBy(s, i)
      BY DEF Marked, Taken
    <3>2. TakenBy(s, i)'
      <4>1. \A j \in 1 .. i : LineOf(j)' = LineOf(j)
        BY <1>3
      <4> QED
        BY <1>5, <3>1, <4>1, TakenStay
    <3>3. script_commands'[i].labels[k] = s
      BY <1>3
    <3> QED
      BY <3>2, <3>3 DEF TakenBy, Marks
  <2>2. ASSUME CommandCount' = c + 1, NEW k \in 1 .. Len(new)
        PROVE  TakenBy(script_commands[c + 1].labels[k], c + 1)'
    <3>1. LineOf(c + 1)' = n /\ script_commands'[c + 1].labels = new
      BY <1>2, <2>2 DEF CommandCount, LineOf
    <3>2. PICK l \in 1 .. n : Marks(new[k], l) /\ \A i \in 1 .. CommandCount : LineOf(i) < l
      BY <1>6 DEF WaitsAt
    <3> PICK s : s = new[k]
      OBVIOUS
    <3>3. Marks(s, l)' /\ \A j \in 1 .. c : LineOf(j)' < l
      BY <1>3, <1>5, <3>2
    <3>4. TakenBy(s, c + 1)'
      BY <3>1, <3>3 DEF TakenBy
    <3> QED
      BY <3>1, <3>4 DEF TakenBy, Marks
  <2>3. CommandCount' = c + 1 => script_commands'[c + 1].labels = new
    BY <1>2 DEF CommandCount
  <2>4. ASSUME NEW i \in 1 .. CommandCount', NEW k \in 1 .. Len(script_commands'[i].labels)
        PROVE  TakenBy(script_commands[i].labels[k], i)'
    <3>1. CASE i \in 1 .. c
      <4>1. k \in 1 .. Len(script_commands[i].labels)
        BY <1>3, <3>1
      <4> QED
        BY <2>1, <3>1, <4>1
    <3>2. CASE CommandCount' = c + 1 /\ i = c + 1
      BY <2>2, <2>3, <3>2
    <3> QED
      BY <1>3, <3>1, <3>2
  <2> QED
    BY <2>4 DEF Taken
<1>9. OpenBlocks'
  <2>1. OpenBlocks /\ phase \in Loading
    BY <1>1 DEF Marked, Loading
  <2>2. \A i \in 1 .. CommandCount' :
           script_commands'[i].child # None => script_commands'[i].child < d
    BY <1>3, <2>1 DEF OpenBlocks
  <2>3. active_command' = CommandCount' /\ (CommandCount' = 0 => codeblocks' = <<>>)
    BY <1>1, <1>2, <2>1 DEF OpenBlocks, CommandCount
  <2>4. ASSUME NEW k \in 1 .. Len(codeblocks)
        PROVE  /\ codeblocks[k] < d
               /\ \A i \in 1 .. CommandCount' : Opens(i, codeblocks[k])' =>
                     LineOf(i)' = dbstack[Len(dbstack) - Len(codeblocks) + k]
    BY <1>1, <1>4, <2>1 DEF OpenBlocks, Opens
  <2> QED
    BY <1>1, <2>1, <2>2, <2>3, <2>4 DEF OpenBlocks, Opens
<1> QED
  BY <1>7, <1>8, <1>9

LEMMA HandleLineTable ==
    ASSUME Inv, Index, Marked, OwnBlocks, HandleLine
    PROVE  LabelTable'
<1> PICK n \in 1 .. Len(doc), c \in Nat : n = dbcode /\ c = CommandCount
  BY WalkFacts
<1> PICK x : x = doc[n].label
  OBVIOUS
<1>1. /\ UNCHANGED <<doc, dbcode>> /\ x \in Label \cup {None} /\ Len(doc) \in Nat
      /\ phase = "handle" /\ phase' \in {"move", "rejected"} /\ Frontier = n
      /\ CommandsBefore(n) /\ ~Script!InDirective(n)
      /\ functions' = IF doc[n].op = "directive" THEN functions ELSE FunctionsWith(x)
  BY HandleLineCommands, MarkedFacts, WalkFacts
     DEF Frontier, Loading, DocumentLine, Index, Walk
<1>2. \/ CommandCount' = c
      \/ CommandCount' = c + 1 /\ LineOf(c + 1)' = n
  BY HandleLineCommands DEF LineOf, CommandCount
<1>3. \A i \in 1 .. c : LineOf(i)' = LineOf(i) /\ LineOf(i) < n /\ LineOf(i) \in Nat
  BY <1>1, HandleLineCommands, WalkFacts DEF LineOf, CommandsBefore, CommandCount
<1>4. CASE phase' = "rejected"
  BY <1>4 DEF LabelTable, Loading, Loaded, LaidOut
<1>5. CASE phase' = "move"
  <2>1. Frontier' = n + 1
    BY <1>1, <1>5 DEF Frontier
  <2>2. /\ \A l \in 1 .. Len(doc) :
              l < n /\ ~Script!InDirective(l) /\ doc[l].label # None => Known(doc[l].label)
        /\ \A f \in 1 .. Len(functions) :
              /\ functions[f].value <= c + 1 /\ functions[f].value \in Nat
              /\ \E l \in 1 .. Len(doc) : l < n /\ BeginsFrom(f, l)
    BY <1>1, FunctionFacts DEF Marked, LabelTable, Loading
  <2>3. /\ \/ /\ functions' = functions
              /\ x = None
           \/ /\ Len(functions') = Len(functions) + 1
              /\ \A f \in 1 .. Len(functions) : functions'[f] = functions[f]
              /\ functions'[Len(functions) + 1].label = x
              /\ functions'[Len(functions) + 1].value = c + 1
              /\ x \in Label
    <3>1. CASE x = None
      BY <1>1, <3>1 DEF FunctionsWith
    <3>2. CASE x # None
      <4>1. doc[n].op # "directive" /\ x \in Label
        BY <1>1, <3>2 DEF OwnBlocks
      <4> DEFINE new == [label |-> x, value |-> c + 1]
      <4>2. new \in [label : Label, value : Nat \ {0}] /\ new.value = c + 1 /\ new.label = x
        BY <4>1
      <4>3. functions' = Append(functions, new)
        BY <1>1, <3>2, <4>1 DEF FunctionsWith, FunctionValue
      <4> HIDE DEF new
      <4> QED
        BY <4>1, <4>2, <4>3, FunctionFacts, AppendProperties
    <3> QED
      BY <3>1, <3>2
  <2>4. ASSUME NEW l \in 1 .. Len(doc), l < n + 1, ~Script!InDirective(l), doc[l].label # None
        PROVE  Known(doc[l].label)'
    <3>1. CASE l < n
      <4>1. PICK f \in 1 .. Len(functions) : functions[f].label = doc[l].label
        BY <2>2, <2>4, <3>1 DEF Known
      <4>2. f \in 1 .. Len(functions') /\ functions'[f].label = functions[f].label
        BY <2>3, FunctionFacts
      <4>3. functions'[f].label = doc'[l].label
        BY <1>1, <4>1, <4>2
      <4> QED
        BY <4>2, <4>3 DEF Known
    <3>2. CASE l = n
      <4>1. /\ Len(functions') = Len(functions) + 1
            /\ functions'[Len(functions) + 1].label = x
        BY <2>3, <2>4, <3>2
      <4>2. Len(functions) + 1 \in 1 .. Len(functions') /\ doc'[l].label = x
        BY <1>1, <3>2, <4>1, FunctionFacts
      <4> QED
        BY <4>1, <4>2 DEF Known
    <3> QED
      BY <2>4, <3>1, <3>2
  <2>5. ASSUME NEW f \in 1 .. Len(functions)
        PROVE  /\ functions'[f].value <= c + 1
               /\ \E l \in 1 .. Len(doc) : l < n + 1 /\ BeginsFrom(f, l)'
    <3>1. functions'[f] = functions[f] /\ functions[f].value <= c + 1
      BY <2>2, <2>3
    <3>2. PICK l \in 1 .. Len(doc) : l < n /\ BeginsFrom(f, l)
      BY <2>2
    <3> PICK v \in Nat : v = functions[f].value /\ v <= c + 1
      BY <2>2
    <3>3. \A i \in 1 .. c : LineOf(i) < l <=> i < v
      BY <3>2 DEF BeginsFrom
    <3>4. \A i \in 1 .. CommandCount' : LineOf(i)' < l <=> i < v
      <4> TAKE i \in 1 .. CommandCount'
      <4>1. CASE i \in 1 .. c
        BY <1>3, <3>3, <4>1
      <4>2. CASE CommandCount' = c + 1 /\ i = c + 1
        BY <1>2, <3>2, <4>2
      <4> QED
        BY <1>2, <4>1, <4>2
    <3>5. l \in Script!LabelLines(functions[f].label)'
      <4>1. l \in Script!LabelLines(functions[f].label)
        BY <3>2 DEF BeginsFrom
      <4> QED
        BY <1>1, <3>1, <4>1, SameDocument DEF Script!LabelLines
    <3>6. BeginsFrom(f, l)'
      BY <3>1, <3>4, <3>5 DEF BeginsFrom
    <3> QED
      BY <3>1, <3>2, <3>6
  <2>6. ASSUME Len(functions') = Len(functions) + 1, NEW f \in Nat, f = Len(functions) + 1
        PROVE  /\ functions'[f].value <= c + 1
               /\ \E l \in 1 .. Len(doc) : l < n + 1 /\ BeginsFrom(f, l)'
    <3>1. functions'[f].value = c + 1 /\ functions'[f].label = x /\ x \in Label
      <4>1. ~(Len(functions') = Len(functions))
        BY <2>6, FunctionFacts
      <4> QED
        BY <2>3, <2>6, <4>1
    <3>2. \A i \in 1 .. CommandCount' : LineOf(i)' < n <=> i < c + 1
      BY <1>2, <1>3
    <3>3. n \in Script!LabelLines(functions[f].label)'
      <4>1. x # None
        BY <3>1, InputsAssumption
      <4>2. ~Script!InDirective(n)'
        BY <1>1, SameDocument
      <4> QED
        BY <1>1, <3>1, <4>1, <4>2 DEF Script!LabelLines
    <3>4. BeginsFrom(f, n)'
      BY <3>1, <3>2, <3>3 DEF BeginsFrom
    <3> QED
      BY <3>1, <3>4
  <2>7. \A f \in 1 .. Len(functions') :
           /\ functions'[f].value <= c + 1
           /\ \E l \in 1 .. Len(doc) : l < n + 1 /\ BeginsFrom(f, l)'
    <3> DEFINE Good(f) == /\ functions'[f].value <= c + 1
                          /\ \E l \in 1 .. Len(doc) : l < n + 1 /\ BeginsFrom(f, l)'
    <3>1. \A f \in 1 .. Len(functions) : Good(f)
      BY <2>5
    <3>2. Len(functions') = Len(functions) + 1 => Good(Len(functions) + 1)
      <4> SUFFICES ASSUME Len(functions') = Len(functions) + 1
                   PROVE  Good(Len(functions) + 1)
        OBVIOUS
      <4> PICK f \in Nat : f = Len(functions) + 1
        BY FunctionFacts
      <4>1. Good(f)
        BY <2>6
      <4> HIDE DEF Good
      <4> QED
        BY <4>1
    <3> HIDE DEF Good
    <3>3. \A f \in 1 .. Len(functions') : Good(f)
      <4>1. /\ Len(functions) \in Nat
            /\ Len(functions') = Len(functions) \/ Len(functions') = Len(functions) + 1
        BY <2>3, FunctionFacts
      <4> QED
        BY <3>1, <3>2, <4>1
    <3> QED
      BY <3>3 DEF Good
  <2>8. \A f \in 1 .. Len(functions') : functions'[f].value <= CommandCount' + 1
    <3>1. \A f \in 1 .. Len(functions') : functions'[f].value \in Nat
      <4> SUFFICES ASSUME NEW f \in 1 .. Len(functions') PROVE functions'[f].value \in Nat
        OBVIOUS
      <4>1. CASE f \in 1 .. Len(functions)
        <5>1. functions'[f] = functions[f]
          BY <2>3, <4>1
        <5> QED
          BY <2>2, <4>1, <5>1
      <4>2. CASE Len(functions') = Len(functions) + 1 /\ f = Len(functions) + 1
        <5>1. ~(Len(functions') = Len(functions))
          BY <4>2, FunctionFacts
        <5> QED
          BY <2>3, <4>2, <5>1
      <4>3. Len(functions) \in Nat
        BY FunctionFacts
      <4>4. Len(functions') = Len(functions) \/ Len(functions') = Len(functions) + 1
        BY <2>3
      <4> QED
        BY <4>1, <4>2, <4>3, <4>4
    <3>2. CommandCount' \in Nat /\ c <= CommandCount'
      BY <1>2
    <3> TAKE f \in 1 .. Len(functions')
    <3> PICK v \in Nat : v = functions'[f].value
      BY <3>1
    <3>3. v <= c + 1
      BY <2>7
    <3> QED
      BY <3>2, <3>3
  <2>9. \A l \in 1 .. Len(doc) : Script!InDirective(l)' = Script!InDirective(l)
    BY <1>1, SameDocument
  <2> QED
    BY <1>1, <2>1, <2>4, <2>7, <2>8, <2>9 DEF LabelTable
<1> QED
  BY <1>1, <1>4, <1>5

LEMMA FrontElements ==
    ASSUME NEW S, NEW s \in Seq(S), NEW c \in Nat, Len(s) = c + 1
    PROVE  /\ Len(SubSeq(s, 1, c)) = c
           /\ \A k \in 1 .. c : SubSeq(s, 1, c)[k] = s[k]
<1>1. \A k \in 1 .. c : s[k] \in S
  <2>1. \A k \in 1 .. c : k \in 1 .. Len(s)
    OBVIOUS
  <2> QED
    BY <2>1, ElementOfSeq
<1>2. /\ Len(SubSeq(s, 1, c)) = IF 1 <= c THEN c - 1 + 1 ELSE 0
      /\ \A k \in 1 .. c - 1 + 1 : SubSeq(s, 1, c)[k] = s[1 + k - 1]
  BY <1>1, SubSeqProperties
<1>3. c - 1 + 1 = c /\ (c = 0 \/ 1 <= c) /\ \A k \in 1 .. c : 1 + k - 1 = k
  OBVIOUS
<1> QED
  BY <1>2, <1>3

\* The block that ends when the loader leaves a level.
LEMMA TopEnds ==
    ASSUME Inv, Walk, phase = "unwind", dbstack # <<>>
    PROVE  /\ Len(dbstack) \in Nat \ {0} /\ dbstack[Len(dbstack)] \in 1 .. Len(doc)
           /\ Script!BlockEnd(dbstack[Len(dbstack)]) = Frontier
<1>1. /\ Document /\ Len(dbstack) \in Nat \ {0} /\ dbstack[Len(dbstack)] \in 1 .. Len(doc)
      /\ Len(doc) \in Nat
  BY WalkFacts, EmptySeq DEF Inv, TypeOK
<1> PICK top \in 1 .. Len(doc), c \in Nat : top = dbstack[Len(dbstack)] /\ c = Len(dbstack) - 1
  <2>1. \A k \in Nat \ {0} : k - 1 \in Nat
    OBVIOUS
  <2>2. Len(dbstack) - 1 \in Nat
    BY <1>1, <2>1
  <2> QED
    BY <1>1, <2>2
<1> PICK f \in 1 .. Len(doc) + 1 : f = Frontier
  BY FrontierRange DEF InDocument, Loading
<1>2. /\ OpenLines(dbstack, f) /\ (f <= Len(doc) => doc[f].depth < Len(dbstack))
  BY DEF Walk, Loading
<1>3. /\ doc[top].depth = c /\ top < f
      /\ \A m \in top + 1 .. f - 1 : doc[m].depth > c
  <2> PICK h \in Nat \ {0} : h = Len(dbstack)
    BY <1>1
  <2>1. h \in 1 .. Len(dbstack)
    OBVIOUS
  <2> QED
    BY <1>2, <2>1 DEF OpenLines
<1>4. f <= Len(doc) => doc[f].depth <= c
  <2> SUFFICES ASSUME f <= Len(doc) PROVE doc[f].depth <= c
    OBVIOUS
  <2> PICK d \in Nat : d = doc[f].depth
    BY <1>1, DocumentFacts
  <2> PICK h \in Nat : h = Len(dbstack)
    BY <1>1
  <2>1. d < h
    BY <1>2
  <2> QED
    BY <2>1
<1>5. Script!BlockEnd(top) = f
  <2>1. f \in top + 1 .. Len(doc) + 1
    BY <1>1, <1>3
  <2>2. /\ \A m \in top + 1 .. f - 1 : doc[m].depth > doc[top].depth
        /\ f <= Len(doc) => doc[f].depth <= doc[top].depth
    BY <1>3, <1>4
  <2> QED
    BY <1>1, <2>1, <2>2, BlockEndUnique
<1> QED
  BY <1>1, <1>5

\* The loader only goes forward.
Advances == phase' \in Loading \cup Loaded => Frontier' \in Nat /\ Frontier <= Frontier'

LEMMA MoveAdvances == ASSUME Inv, Index, Move PROVE Advances /\ SkipsDirectives
<1> PICK n \in 1 .. Len(doc) : n = dbcode
  BY WalkFacts
<1>1. doc' = doc /\ Frontier = n + 1 /\ Document /\ Len(doc) \in Nat
  BY WalkFacts DEF Move, input, Frontier
<1>2. CASE doc[n].op # "directive" /\ HasChild(n)
  <2>1. dbcode' = n + 1 /\ phase' \in {"handle", "rejected"}
    BY <1>2, PushStep DEF Move
  <2> QED
    BY <1>1, <2>1, MoveWalk DEF Advances, Frontier, Loading, Loaded, LaidOut, Index
<1>3. CASE ~(doc[n].op # "directive" /\ HasChild(n))
  <2>1. IF HasPeer(n) THEN dbcode' = Peer(n) /\ phase' = "handle"
                      ELSE dbcode' = n /\ phase' = "unwind"
    BY <1>3 DEF Move
  <2>2. Script!BlockEnd(n) \in n + 1 .. Len(doc) + 1 /\ (HasPeer(n) => Peer(n) = Script!BlockEnd(n))
    BY <1>1, BlockEndIs, PeerIsEnd
  <2>3. Script!BlockEnd(n)' = Script!BlockEnd(n)
    BY <1>1, SameDocument
  <2>4. Frontier' = Script!BlockEnd(n)
    BY <2>1, <2>2, <2>3 DEF Frontier
  <2> QED
    BY <1>1, <2>2, <2>4, MoveWalk DEF Advances, Index
<1> QED
  BY <1>2, <1>3

LEMMA UnwindAdvances == ASSUME Inv, Index, Unwind PROVE Advances /\ SkipsDirectives
<1> PICK f \in 1 .. Len(doc) + 1 : f = Frontier
  BY FrontierRange DEF InDocument, Loading, Unwind
<1>1. doc' = doc /\ phase = "unwind" /\ Document /\ Len(doc) \in Nat /\ dbcode \in 1 .. Len(doc)
  BY WalkFacts DEF Unwind, input
<1>2. CASE dbstack = <<>>
  <2>1. phase' = "compile"
    BY <1>2 DEF Unwind
  <2> QED
    BY <1>1, <2>1, UnwindWalk DEF Advances, Frontier, Index
<1>3. CASE dbstack # <<>>
  <2> PICK top \in 1 .. Len(doc) : top = dbstack[Len(dbstack)]
    BY <1>1, <1>3, TopEnds DEF Index
  <2>1. IF HasPeer(top) THEN dbcode' = Peer(top) /\ phase' = "handle"
                        ELSE dbcode' = dbcode /\ phase' = phase
    BY <1>3 DEF Unwind
  <2>2. HasPeer(top) => Peer(top) = f
    BY <1>1, <1>3, TopEnds, PeerIsEnd DEF Index
  <2>3. dbcode' = dbcode => Script!BlockEnd(dbcode)' = Script!BlockEnd(dbcode)
    BY <1>1 DEF Script!BlockEnd, Script!LeastOr
  <2>4. Frontier' = f
    BY <1>1, <2>1, <2>2, <2>3 DEF Frontier
  <2> QED
    BY <1>1, <2>4, UnwindWalk DEF Advances, Index
<1> QED
  BY <1>2, <1>3

\* Past the lines of directives, the table of labels is still complete.
LEMMA TableStays ==
    ASSUME Inv, Marked, UNCHANGED <<doc, functions>>, CommandCount' = CommandCount,
           \A i \in 1 .. CommandCount : LineOf(i)' = LineOf(i),
           phase \in Loading \cup Loaded, Advances, SkipsDirectives
    PROVE  LabelTable'
<1> SUFFICES ASSUME phase' \in Loading \cup Loaded PROVE LabelTable'
  BY DEF LabelTable
<1> PICK n \in Nat, m \in Nat : n = Frontier /\ m = Frontier' /\ n <= m
  BY FrontierRange, WalkFacts DEF Advances, InDocument
<1>1. /\ \A l \in 1 .. Len(doc) :
            l < n /\ ~Script!InDirective(l) /\ doc[l].label # None => Known(doc[l].label)
      /\ \A f \in 1 .. Len(functions) :
            /\ functions[f].value <= CommandCount + 1
            /\ \E l \in 1 .. Len(doc) : l < n /\ BeginsFrom(f, l)
  BY DEF Marked, LabelTable
<1>2. \A l \in 1 .. Len(doc) : l < m /\ ~Script!InDirective(l) => l < n
  BY WalkFacts DEF SkipsDirectives
<1>3. \A l : Script!InDirective(l)' = Script!InDirective(l)
  BY SameDocument
<1>4. \A x : Known(x)' = Known(x) /\ Script!LabelLines(x)' = Script!LabelLines(x)
  BY SameLabels DEF Known
<1>5. \A f, l : BeginsFrom(f, l) => BeginsFrom(f, l)'
  BY <1>3 DEF BeginsFrom, Script!LabelLines
<1>6. \A l \in 1 .. Len(doc) : l < n => l < m
  BY WalkFacts
<1>7. \A f \in 1 .. Len(functions) : \E l \in 1 .. Len(doc) : l < m /\ BeginsFrom(f, l)'
  BY <1>1, <1>5, <1>6
<1>8. \A l \in 1 .. Len(doc) :
         l < m /\ ~Script!InDirective(l) /\ doc[l].label # None => Known(doc[l].label)
  BY <1>1, <1>2
<1> QED
  BY <1>1, <1>3, <1>7, <1>8 DEF LabelTable, Known

\* An `if` that a block is opened for stands on the line the loader descends from.
LEMMA BlockOfLine ==
    ASSUME Inv, Index, Marked, OwnBlocks, phase = "move", HasChild(dbcode),
           doc[dbcode].op # "directive", CommandCount # 0, doc[LineOf(CommandCount)].op = "if"
    PROVE  LineOf(CommandCount) = dbcode
<1> PICK n \in 1 .. Len(doc), c \in Nat \ {0} : n = dbcode /\ c = CommandCount
  BY WalkFacts
<1> PICK i \in 1 .. Len(doc) : i = LineOf(c)
  BY WalkFacts
<1>1. CommandsBefore(n + 1) /\ ~Script!InDirective(n) /\ doc[n].op # "unknown" /\ doc[n].op \in Op
  BY WalkFacts DEF Index, Collected, Walk, Frontier, Loading, Marked, OpenBlocks
<1>2. /\ i <= n /\ IsScript(i)
      /\ \A j \in 1 .. c : LineOf(j) <= i
      /\ \A k \in 1 .. Len(doc) : k < n + 1 /\ IsScript(k) => \E j \in 1 .. c : LineOf(j) = k
  <2>1. /\ \A j \in 1 .. c : LineOf(j) < n + 1 /\ IsScript(LineOf(j)) /\ LineOf(j) \in Nat
        /\ \A j \in 1 .. c : j < c => LineOf(j) < LineOf(c)
    BY <1>1, WalkFacts DEF CommandsBefore
  <2>2. \A j \in 1 .. c : j < c \/ j = c
    OBVIOUS
  <2>3. \A j \in 1 .. c : LineOf(j) <= i
    BY <2>1, <2>2
  <2>4. \A k \in 1 .. Len(doc) : k < n + 1 /\ IsScript(k) => \E j \in 1 .. c : LineOf(j) = k
    BY <1>1 DEF CommandsBefore
  <2>5. i < n + 1 /\ IsScript(i)
    BY <2>1
  <2>6. i <= n
    BY <2>5
  <2> QED
    BY <2>3, <2>4, <2>5, <2>6
<1>3. CASE IsScript(n)
  <2>1. PICK j \in 1 .. c : LineOf(j) = n
    BY <1>2, <1>3
  <2> QED
    BY <1>2, <2>1
<1>4. CASE ~IsScript(n)
  <2>1. doc[n].op = "none"
    BY <1>1, <1>4 DEF IsScript, Op
  <2>2. i # n /\ i \in 1 .. n - 1 /\ ~Script!InDirective(i)
    BY <1>2, <1>4 DEF IsScript
  <2>3. PICK k \in i + 1 .. n - 1 : IsScript(k)
    BY <1>1, <2>1, <2>2 DEF OwnBlocks
  <2>4. k \in 1 .. Len(doc) /\ k < n + 1
    BY WalkFacts
  <2>5. PICK j \in 1 .. c : LineOf(j) = k
    BY <1>2, <2>3, <2>4
  <2> QED
    BY <1>2, <2>5
<1> QED
  BY <1>3, <1>4

\* Commands that stay as they are keep their symbols.
LEMMA CommandsStay ==
    ASSUME Inv, Index, Marked, UNCHANGED <<doc, script_commands, next_codeblock_id>>
    PROVE  /\ Taken'
           /\ \A s, l : Marks(s, l) => Marks(s, l)'
           /\ \A i, b : Opens(i, b)' = Opens(i, b)
           /\ CommandCount' = CommandCount /\ \A i : LineOf(i)' = LineOf(i)
<1>1. CommandCount' = CommandCount /\ \A i : LineOf(i)' = LineOf(i)
  BY DEF CommandCount, LineOf
<1>2. \A i, b : Opens(i, b)' = Opens(i, b)
  BY <1>1 DEF Opens
<1>3. \A s, l : Marks(s, l) => Marks(s, l)'
  BY <1>1, <1>2, MarkedFacts, MarksStay
<1>4. ASSUME NEW i \in 1 .. CommandCount, NEW k \in 1 .. Len(script_commands[i].labels)
      PROVE  TakenBy(script_commands[i].labels[k], i)'
  <2> PICK s : s = script_commands[i].labels[k]
    OBVIOUS
  <2>1. TakenBy(s, i)'
    BY <1>1, <1>3, TakenStay DEF Marked, Taken
  <2> QED
    BY <2>1 DEF TakenBy, Marks
<1> QED
  BY <1>1, <1>2, <1>3, <1>4 DEF Taken

\* A symbol goes on waiting while the loader passes lines without commands.
LEMMA StillWaiting ==
    ASSUME UNCHANGED <<doc, script_commands, next_codeblock_id>>, Inv, Index, Marked,
           NEW s, NEW n \in Nat, NEW m \in Nat, n <= m, WaitsAt(s, n)
    PROVE  WaitsAt(s, m)'
<1>1. PICK l \in 1 .. n : Marks(s, l) /\ \A i \in 1 .. CommandCount : LineOf(i) < l
  BY DEF WaitsAt
<1>2. Marks(s, l)' /\ l \in 1 .. m /\ \A i \in 1 .. CommandCount' : LineOf(i)' < l
  BY <1>1, CommandsStay
<1> QED
  BY <1>2 DEF WaitsAt

LEMMA PushMarked ==
    ASSUME Inv, Index, Marked, OwnBlocks, phase = "move", HasChild(dbcode),
           doc[dbcode].op # "directive", doc' = doc, dbcode' = dbcode + 1,
           dbstack' = Append(dbstack, dbcode), PushCodeblock, active_command # 0, ~NestFull
    PROVE  Waiting' /\ Taken' /\ OpenBlocks'
<1> PICK n \in 1 .. Len(doc), c \in Nat, d \in Nat :
       n = dbcode /\ c = CommandCount /\ d = next_codeblock_id
  BY WalkFacts, MarkedFacts
<1>1. OpenBlocks /\ active_command = c /\ c \in 1 .. c /\ phase \in Loading
  BY DEF Marked, OpenBlocks, Loading
<1>2. /\ phase' = "handle" /\ next_codeblock_id' = d + 1 /\ active_command' = c
      /\ codeblocks' = Append(codeblocks, d) /\ active_labels' = Append(active_labels, First(d))
  BY <1>1 DEF PushCodeblock
<1>3. /\ CommandCount' = c /\ \A i \in 1 .. c : LineOf(i)' = LineOf(i)
  BY PushLines
<1>4. /\ \A i \in 1 .. c : script_commands'[i].labels = script_commands[i].labels
      /\ \A i \in 1 .. c : script_commands'[i].child
                              = IF i = c THEN d ELSE script_commands[i].child
  <2> DEFINE old == script_commands[c]
             new == [old EXCEPT !.child = d]
  <2>1. old \in Command /\ new \in Command /\ new.labels = old.labels /\ new.child = d
    BY <1>1, WalkFacts DEF Command
  <2>2. script_commands' = [script_commands EXCEPT ![c] = new]
    BY <1>1 DEF PushCodeblock
  <2> HIDE DEF new
  <2>3. \A i \in 1 .. Len(script_commands) :
           script_commands'[i] = IF i = c THEN new ELSE script_commands[i]
    BY <1>1, <2>1, <2>2, ExceptSeq DEF Inv, TypeOK, CommandCount
  <2> QED
    BY <2>1, <2>3 DEF CommandCount
<1>5. Frontier = n + 1 /\ Frontier' = n + 1
  BY <1>2 DEF Frontier
<1>6. /\ \A k \in 1 .. Len(active_labels) : WaitsAt(active_labels[k], n + 1)
      /\ CommandsBefore(n + 1)
  BY <1>1, <1>5, MarkedFacts
<1>7. \A b \in Nat : b < d =>
         \A i \in 1 .. CommandCount' : Opens(i, b)' => i \in 1 .. c /\ Opens(i, b)
  <2> TAKE b \in Nat
  <2> HAVE b < d
  <2> TAKE i \in 1 .. CommandCount'
  <2> HAVE Opens(i, b)'
  <2>1. i \in 1 .. c /\ script_commands'[i].child = b /\ b # None /\ doc[LineOf(i)].op = "if"
    BY <1>3 DEF Opens
  <2>2. i # c
    BY <1>4, <2>1
  <2> QED
    BY <1>4, <2>1, <2>2 DEF Opens
<1>8. \A s, l : Marks(s, l) => Marks(s, l)'
  BY <1>2, <1>3, <1>7, MarksStay
<1>9. \A i \in 1 .. CommandCount' : Opens(i, d)' => LineOf(i)' = n
  <2> TAKE i \in 1 .. CommandCount'
  <2> HAVE Opens(i, d)'
  <2>1. i \in 1 .. c /\ script_commands'[i].child = d /\ d # None /\ doc[LineOf(i)].op = "if"
    BY <1>3 DEF Opens
  <2>2. i = c
    <3> SUFFICES ASSUME i # c PROVE FALSE
      OBVIOUS
    <3>1. script_commands[i].child = d
      BY <1>4, <2>1
    <3>2. d < d
      BY <1>1, <2>1, <3>1 DEF OpenBlocks
    <3> QED
      BY <3>2
  <2> QED
    BY <1>1, <1>3, <2>1, <2>2, BlockOfLine
<1>10. Waiting'
  <2>1. /\ Len(active_labels') = Len(active_labels) + 1
        /\ \A k \in 1 .. Len(active_labels) : active_labels'[k] = active_labels[k]
        /\ active_labels'[Len(active_labels) + 1] = First(d)
    <3>1. active_labels \in Seq(Symbol) /\ First(d) \in Symbol
      BY SymbolTypes DEF Inv, TypeOK
    <3> QED
      BY <1>2, <3>1, AppendProperties
  <2>2. ASSUME NEW k \in 1 .. Len(active_labels) PROVE WaitsAt(active_labels[k], n + 1)'
    <3> PICK s : s = active_labels[k]
      OBVIOUS
    <3>1. PICK l \in 1 .. n + 1 : Marks(s, l) /\ \A i \in 1 .. c : LineOf(i) < l
      BY <1>6 DEF WaitsAt
    <3>2. Marks(s, l)' /\ \A i \in 1 .. CommandCount' : LineOf(i)' < l
      BY <1>3, <1>8, <3>1
    <3>3. WaitsAt(s, n + 1)'
      BY <3>2 DEF WaitsAt
    <3> QED
      BY <2>1, <3>3 DEF WaitsAt, Marks
  <2>3. WaitsAt(First(d), n + 1)'
    <3> PICK s : s = First(d)
      OBVIOUS
    <3>1. Marks(s, n + 1)'
      BY <1>2, <1>9 DEF Marks, First
    <3>2. \A i \in 1 .. CommandCount' : LineOf(i)' < n + 1
      BY <1>3, <1>6 DEF CommandsBefore
    <3>3. WaitsAt(s, n + 1)'
      BY <3>1, <3>2 DEF WaitsAt
    <3> QED
      BY <3>3 DEF First
  <2>4. ASSUME NEW k \in 1 .. Len(active_labels') PROVE WaitsAt(active_labels[k], n + 1)'
    <3>1. CASE k \in 1 .. Len(active_labels)
      BY <2>2, <3>1
    <3>2. CASE k = Len(active_labels) + 1
      BY <2>1, <2>3, <3>2 DEF WaitsAt, Marks, First
    <3> QED
      BY <2>1, <3>1, <3>2, MarkedFacts
  <2>5. \A k \in 1 .. Len(active_labels') : WaitsAt(active_labels[k], Frontier)'
    BY <1>5, <2>4 DEF WaitsAt
  <2> QED
    BY <2>5 DEF Waiting
<1>11. Taken'
  <2>1. ASSUME NEW i \in 1 .. c, NEW k \in 1 .. Len(script_commands[i].labels)
        PROVE  TakenBy(script_commands[i].labels[k], i)'
    <3> PICK s : s = script_commands[i].labels[k]
      OBVIOUS
    <3>1. TakenBy(s, i)'
      <4>1. TakenBy(s, i)
        BY DEF Marked, Taken
      <4>2. \A j \in 1 .. i : LineOf(j)' = LineOf(j)
        BY <1>3
      <4> QED
        BY <1>8, <4>1, <4>2, TakenStay
    <3> QED
      BY <1>4, <3>1 DEF TakenBy, Marks
  <2> QED
    BY <1>3, <1>4, <2>1 DEF Taken
<1>12. OpenBlocks'
  <2> PICK e \in Nat, h \in Nat : e = Len(codeblocks) /\ h = Len(dbstack)
    BY MarkedFacts, WalkFacts
  <2>1. /\ e <= h
        /\ \A k \in 1 .. e : codeblocks[k] \in Nat /\ codeblocks[k] < d
        /\ \A k \in 1 .. e : \A i \in 1 .. c :
              Opens(i, codeblocks[k]) => LineOf(i) = dbstack[h - e + k]
    BY <1>1, MarkedFacts DEF OpenBlocks
  <2>2. /\ Len(codeblocks') = e + 1 /\ codeblocks'[e + 1] = d
        /\ \A k \in 1 .. e : codeblocks'[k] = codeblocks[k]
    BY <1>2, AppendProperties DEF Inv, TypeOK
  <2>3. /\ Len(dbstack') = h + 1 /\ dbstack'[h + 1] = n
        /\ \A k \in 1 .. h : dbstack'[k] = dbstack[k]
    BY WalkFacts, AppendProperties DEF Inv, TypeOK
  <2>4. ASSUME NEW k \in 1 .. e + 1
        PROVE  /\ codeblocks'[k] < d + 1
               /\ \A i \in 1 .. CommandCount' : Opens(i, codeblocks[k])' =>
                     LineOf(i)' = dbstack'[(h + 1) - (e + 1) + k]
    <3>1. CASE k \in 1 .. e
      <4> PICK b \in Nat : b = codeblocks[k] /\ b < d /\ b = codeblocks'[k]
        BY <2>1, <2>2, <3>1
      <4>1. (h + 1) - (e + 1) + k = h - e + k /\ h - e + k \in 1 .. h
        BY <2>1, <3>1
      <4>2. ASSUME NEW i \in 1 .. CommandCount', Opens(i, b)'
            PROVE  LineOf(i)' = dbstack[h - e + k]
        BY <1>3, <1>7, <2>1, <3>1, <4>2
      <4>3. \A i \in 1 .. CommandCount' : Opens(i, codeblocks[k])' = Opens(i, b)'
        BY DEF Opens
      <4> QED
        BY <2>3, <4>1, <4>2, <4>3
    <3>2. CASE k = e + 1
      <4>1. (h + 1) - (e + 1) + k = h + 1
        BY <3>2
      <4>2. \A i \in 1 .. CommandCount' : Opens(i, codeblocks[k])' = Opens(i, d)'
        BY <2>2, <3>2 DEF Opens
      <4> QED
        BY <1>9, <2>2, <2>3, <3>2, <4>1, <4>2
    <3>3. k \in 1 .. e \/ k = e + 1
      OBVIOUS
    <3> QED
      BY ONLY <3>1, <3>2, <3>3
  <2>5. \A i \in 1 .. CommandCount' :
           script_commands'[i].child # None => script_commands'[i].child < d + 1
    <3>1. \A i \in 1 .. c : script_commands[i].child # None =>
             script_commands[i].child < d /\ script_commands[i].child \in Nat
      BY <1>1, WalkFacts DEF OpenBlocks, Command
    <3> QED
      BY <1>3, <1>4, <3>1
  <2>6. e + 1 <= h + 1 /\ CommandCount' # 0 /\ active_command' = CommandCount'
    BY <1>1, <1>2, <1>3, <2>1
  <2>7. \A k \in 1 .. Len(codeblocks') :
           /\ codeblocks'[k] < next_codeblock_id'
           /\ \A i \in 1 .. CommandCount' : Opens(i, codeblocks[k])' =>
                 LineOf(i)' = dbstack'[Len(dbstack') - Len(codeblocks') + k]
    <3> TAKE k \in 1 .. Len(codeblocks')
    <3>1. k \in 1 .. e + 1 /\ next_codeblock_id' = d + 1
      BY <1>2, <2>2
    <3>2. Len(dbstack') - Len(codeblocks') + k = (h + 1) - (e + 1) + k
      BY <2>2, <2>3
    <3>3. codeblocks'[k] < next_codeblock_id'
      BY <2>4, <3>1
    <3>4. \A i \in 1 .. CommandCount' : Opens(i, codeblocks[k])' =>
             LineOf(i)' = dbstack'[(h + 1) - (e + 1) + k]
      BY <2>4, <3>1
    <3> QED
      BY <3>2, <3>3, <3>4
  <2>8. \A i \in 1 .. CommandCount' : script_commands'[i].child # None =>
           script_commands'[i].child < next_codeblock_id'
    BY <1>2, <2>5
  <2>9. Len(codeblocks') <= Len(dbstack')
    BY <2>2, <2>3, <2>6
  <2> QED
    BY <1>2, <2>6, <2>7, <2>8, <2>9 DEF OpenBlocks
<1> QED
  BY <1>10, <1>11, <1>12

LEMMA MoveMarked == ASSUME Inv, Index, Marked, OwnBlocks, Move PROVE Marked'
<1>1. doc' = doc /\ phase = "move" /\ phase \in Loading
  BY DEF Move, input, Loading
<1>2. LabelTable'
  <2>1. /\ functions' = functions /\ CommandCount' = CommandCount
        /\ \A i \in 1 .. CommandCount : LineOf(i)' = LineOf(i)
    <3>1. CASE PushCodeblock
      BY <3>1, PushStep, PushLines
    <3>2. CASE UNCHANGED commands
      BY <3>2 DEF commands, CommandCount, LineOf
    <3> QED
      BY <3>1, <3>2 DEF Move
  <2> QED
    BY <1>1, <2>1, MoveAdvances, TableStays
<1>3. CASE doc[dbcode].op # "directive" /\ HasChild(dbcode) /\ active_command # 0 /\ ~NestFull
  <2>1. dbstack' = Append(dbstack, dbcode) /\ dbcode' = dbcode + 1 /\ PushCodeblock
    BY <1>3 DEF Move
  <2> QED
    BY <1>1, <1>2, <1>3, <2>1, PushMarked DEF Marked
<1>4. CASE ~(doc[dbcode].op # "directive" /\ HasChild(dbcode) /\ active_command # 0 /\ ~NestFull)
  <2>1. /\ UNCHANGED <<script_commands, active_labels, active_command, codeblocks,
                        next_codeblock_id>>
        /\ phase' \in {"handle", "unwind", "rejected"}
        /\ \/ dbstack' = dbstack
           \/ dbstack' = Append(dbstack, dbcode) /\ (phase' # "rejected" => active_command = 0)
    BY <1>4 DEF Move, PushCodeblock, commands, blocks
  <2>2. /\ Taken' /\ \A i, b : Opens(i, b)' = Opens(i, b)
        /\ CommandCount' = CommandCount /\ \A i : LineOf(i)' = LineOf(i)
    BY <1>1, <2>1, CommandsStay
  <2>3. Waiting'
    <3> SUFFICES ASSUME phase' \in Loading, NEW k \in 1 .. Len(active_labels)
                 PROVE  WaitsAt(active_labels[k], Frontier)'
      BY <2>1 DEF Waiting
    <3> PICK n \in Nat, m \in Nat : n = Frontier /\ m = Frontier' /\ n <= m
      BY <1>1, MoveAdvances, FrontierRange, WalkFacts DEF Advances, InDocument
    <3> PICK s : s = active_labels[k]
      OBVIOUS
    <3>1. WaitsAt(s, n)
      BY <1>1, MarkedFacts
    <3>2. WaitsAt(s, m)'
      BY <1>1, <2>1, <3>1, StillWaiting
    <3>3. s = active_labels'[k]
      BY <2>1
    <3> QED
      BY <3>2, <3>3 DEF WaitsAt, Marks
  <2>4. OpenBlocks'
    <3>1. OpenBlocks /\ phase' # "move"
      BY <2>1 DEF Marked
    <3>2. \A i \in 1 .. CommandCount' : script_commands'[i].child # None =>
             script_commands'[i].child < next_codeblock_id'
      BY <2>1, <2>2, <3>1 DEF OpenBlocks
    <3>3. CASE dbstack' = dbstack
      BY <1>1, <2>1, <2>2, <3>1, <3>2, <3>3 DEF OpenBlocks, Opens
    <3>4. CASE dbstack' = Append(dbstack, dbcode) /\ active_command = 0
      <4>1. codeblocks' = <<>> /\ Len(codeblocks') = 0
        BY <1>1, <2>1, <3>1, <3>4, EmptySeq DEF OpenBlocks
      <4>2. Len(dbstack') \in Nat
        <5>1. dbstack' \in Seq(1 .. Len(doc))
          BY <3>4, AppendProperties, WalkFacts DEF Inv, TypeOK
        <5> QED
          BY <5>1, LenProperties
      <4>3. 0 <= Len(dbstack') /\ \A k : k \notin 1 .. 0
        BY <4>2
      <4>4. active_command' = CommandCount'
        BY <1>1, <2>1, <2>2, <3>1 DEF OpenBlocks
      <4> QED
        BY <3>1, <3>2, <4>1, <4>3, <4>4 DEF OpenBlocks
    <3>5. CASE phase' = "rejected"
      BY <3>2, <3>5 DEF OpenBlocks, Loading
    <3> QED
      BY <2>1, <3>3, <3>4, <3>5
  <2> QED
    BY <1>2, <2>2, <2>3, <2>4 DEF Marked
<1> QED
  BY <1>3, <1>4

LEMMA UnwindMarked == ASSUME Inv, Index, Marked, Unwind PROVE Marked'
<1>1. doc' = doc /\ phase = "unwind" /\ phase \in Loading
  BY DEF Unwind, input, Loading
<1>2. /\ UNCHANGED <<script_commands, active_command, functions, next_codeblock_id>>
      /\ phase' \in {"unwind", "handle", "compile"}
  BY PopStep DEF Unwind, commands, blocks
<1>3. /\ Taken' /\ \A s, l : Marks(s, l) => Marks(s, l)'
      /\ \A i, b : Opens(i, b)' = Opens(i, b)
      /\ CommandCount' = CommandCount /\ \A i : LineOf(i)' = LineOf(i)
  BY <1>1, <1>2, CommandsStay
<1>4. LabelTable'
  BY <1>1, <1>2, <1>3, UnwindAdvances, TableStays
<1>5. /\ OpenBlocks
      /\ \A i \in 1 .. CommandCount' : script_commands'[i].child # None =>
            script_commands'[i].child < next_codeblock_id'
  BY <1>2, <1>3 DEF Marked, OpenBlocks
<1>6. CASE dbstack = <<>>
  <2>1. phase' = "compile"
    BY <1>6 DEF Unwind
  <2>2. Waiting' /\ OpenBlocks'
    BY <1>5, <2>1 DEF Waiting, OpenBlocks, Loading
  <2> QED
    BY <1>3, <1>4, <2>2 DEF Marked
<1>7. CASE dbstack # <<>>
  <2> PICK top \in 1 .. Len(doc), h \in Nat : top = dbstack[Len(dbstack)] /\ Len(dbstack) = h + 1
    <3>1. Len(dbstack) \in Nat \ {0} /\ dbstack[Len(dbstack)] \in 1 .. Len(doc)
      BY <1>1, <1>7, TopEnds DEF Index
    <3>2. \A k \in Nat \ {0} : k - 1 \in Nat /\ k = (k - 1) + 1
      OBVIOUS
    <3> QED
      BY <3>1, <3>2
  <2> PICK n \in Nat : n = Frontier /\ n \in 1 .. Len(doc) + 1
    BY <1>1, FrontierRange, WalkFacts DEF InDocument
  <2> PICK m \in Nat : m = Frontier' /\ n <= m
    <3>1. phase' \in Loading \cup Loaded
      BY <1>2 DEF Loading, Loaded
    <3> QED
      BY <3>1, UnwindAdvances DEF Advances
  <2>1. /\ PopCodeblock /\ dbstack' = SubSeq(dbstack, 1, h) /\ phase' \in {"unwind", "handle"}
    <3>1. Len(dbstack) - 1 = h
      OBVIOUS
    <3> QED
      BY <1>1, <1>7, <3>1 DEF Unwind
  <2>2. Len(dbstack') = h /\ \A k \in 1 .. h : dbstack'[k] = dbstack[k]
    BY <2>1, FrontElements DEF Inv, TypeOK
  <2>3. /\ \A k \in 1 .. Len(active_labels) : WaitsAt(active_labels[k], n)
        /\ CommandsBefore(n)
    BY <1>1, MarkedFacts
  <2>4. /\ active_command' = CommandCount' /\ phase' # "move"
        /\ Len(codeblocks) <= Len(dbstack) /\ (CommandCount = 0 => codeblocks = <<>>)
        /\ \A k \in 1 .. Len(codeblocks) :
              /\ codeblocks[k] < next_codeblock_id
              /\ \A i \in 1 .. CommandCount : Opens(i, codeblocks[k]) =>
                    LineOf(i) = dbstack[Len(dbstack) - Len(codeblocks) + k]
    BY <1>1, <1>2, <1>3, <1>5, <2>1 DEF OpenBlocks
  <2>5. CASE codeblocks = <<>>
    <3>1. UNCHANGED <<active_labels, codeblocks>> /\ Len(codeblocks') = 0
      BY <2>1, <2>5, EmptySeq DEF PopCodeblock, commands, blocks
    <3>2. Waiting'
      <4> SUFFICES ASSUME NEW k \in 1 .. Len(active_labels)
                   PROVE  WaitsAt(active_labels[k], Frontier)'
        BY <3>1 DEF Waiting
      <4> PICK s : s = active_labels[k]
        OBVIOUS
      <4>1. WaitsAt(s, m)'
        BY <1>1, <1>2, <2>3, StillWaiting
      <4> QED
        BY <3>1, <4>1 DEF WaitsAt, Marks
    <3>3. OpenBlocks'
      <4>1. 0 <= h /\ \A k : k \notin 1 .. 0
        OBVIOUS
      <4> QED
        BY <1>5, <2>2, <2>4, <2>5, <3>1, <4>1 DEF OpenBlocks
    <3> QED
      BY <1>3, <1>4, <3>2, <3>3 DEF Marked
  <2>6. CASE codeblocks # <<>>
    <3> PICK e \in Nat : Len(codeblocks) = e + 1
      <4>1. Len(codeblocks) \in Nat \ {0}
        BY <2>6, MarkedFacts, EmptySeq DEF Inv, TypeOK
      <4>2. \A k \in Nat \ {0} : k - 1 \in Nat /\ k = (k - 1) + 1
        OBVIOUS
      <4> QED
        BY <4>1, <4>2
    <3> PICK b \in Nat : b = codeblocks[e + 1]
      <4>1. e + 1 \in 1 .. Len(codeblocks)
        OBVIOUS
      <4> QED
        BY <4>1, MarkedFacts
    <3>1. /\ active_labels' = Append(active_labels, Close(b))
          /\ codeblocks' = SubSeq(codeblocks, 1, e)
      <4>1. Len(codeblocks) - 1 = e
        OBVIOUS
      <4> QED
        BY <2>1, <2>6, <4>1 DEF PopCodeblock
    <3>2. Len(codeblocks') = e /\ \A k \in 1 .. e : codeblocks'[k] = codeblocks[k]
      BY <3>1, FrontElements DEF Inv, TypeOK
    <3>3. /\ e <= h /\ b < next_codeblock_id
          /\ \A i \in 1 .. CommandCount : Opens(i, b) => LineOf(i) = top
          /\ \A k \in 1 .. e :
                /\ codeblocks[k] < next_codeblock_id
                /\ \A i \in 1 .. CommandCount : Opens(i, codeblocks[k]) =>
                      LineOf(i) = dbstack[h - e + k]
      <4>1. /\ e + 1 \in 1 .. Len(codeblocks) /\ \A k \in 1 .. e : k \in 1 .. Len(codeblocks)
            /\ Len(dbstack) - Len(codeblocks) + (e + 1) = Len(dbstack)
            /\ \A k \in 1 .. e : Len(dbstack) - Len(codeblocks) + k = h - e + k
        OBVIOUS
      <4>2. e + 1 <= h + 1
        BY <2>4
      <4>3. e <= h
        BY <4>2
      <4> QED
        BY <2>4, <4>1, <4>3
    <3>4. Marks(Close(b), n)
      <4>1. Script!BlockEnd(top) = n
        BY <1>1, <1>7, TopEnds DEF Index
      <4> QED
        BY <3>3, <4>1 DEF Marks
    <3>5. WaitsAt(Close(b), n)
      BY <2>3, <3>4 DEF WaitsAt, CommandsBefore
    <3>6. Waiting'
      <4>1. /\ Len(active_labels') = Len(active_labels) + 1
            /\ \A k \in 1 .. Len(active_labels) : active_labels'[k] = active_labels[k]
            /\ active_labels'[Len(active_labels) + 1] = Close(b)
        <5>1. active_labels \in Seq(Symbol) /\ Close(b) \in Symbol
          BY SymbolTypes DEF Inv, TypeOK
        <5> QED
          BY <3>1, <5>1, AppendProperties
      <4>2. \A k \in 1 .. Len(active_labels') :
               k \in 1 .. Len(active_labels) \/ k = Len(active_labels) + 1
        BY <4>1, MarkedFacts
      <4>3. ASSUME NEW k \in 1 .. Len(active_labels') PROVE WaitsAt(active_labels[k], Frontier)'
        <5> PICK s : s = active_labels'[k]
          OBVIOUS
        <5>1. WaitsAt(s, n)
          BY <2>3, <3>5, <4>1, <4>2
        <5>2. WaitsAt(s, m)'
          BY <1>1, <1>2, <5>1, StillWaiting
        <5> QED
          BY <5>2 DEF WaitsAt, Marks
      <4> QED
        BY <4>3 DEF Waiting
    <3>7. OpenBlocks'
      <4>1. \A k \in 1 .. h - e + e : dbstack'[k] = dbstack[k]
        BY <2>2
      <4>2. ASSUME NEW k \in 1 .. e
            PROVE  /\ codeblocks'[k] < next_codeblock_id'
                   /\ \A i \in 1 .. CommandCount' : Opens(i, codeblocks[k])' =>
                         LineOf(i)' = dbstack'[h - e + k]
        <5>1. h - e + k \in 1 .. h
          BY <3>3
        <5>2. \A i : Opens(i, codeblocks[k])' = Opens(i, codeblocks[k])
          BY <1>1, <1>2, <3>2 DEF Opens, LineOf
        <5> QED
          BY <1>2, <1>3, <2>2, <3>2, <3>3, <5>1, <5>2
      <4>3. \A k \in 1 .. Len(codeblocks') :
               /\ codeblocks'[k] < next_codeblock_id'
               /\ \A i \in 1 .. CommandCount' : Opens(i, codeblocks[k])' =>
                     LineOf(i)' = dbstack'[Len(dbstack') - Len(codeblocks') + k]
        <5> TAKE k \in 1 .. Len(codeblocks')
        <5>1. k \in 1 .. e /\ Len(dbstack') - Len(codeblocks') + k = h - e + k
          BY <2>2, <3>2
        <5> QED
          BY <4>2, <5>1
      <4>4. CommandCount' # 0 /\ Len(codeblocks') <= Len(dbstack')
        BY <1>3, <2>2, <2>4, <2>6, <3>2, <3>3
      <4> QED
        BY <1>5, <2>4, <4>3, <4>4 DEF OpenBlocks
    <3> QED
      BY <1>3, <1>4, <3>6, <3>7 DEF Marked
  <2> QED
    BY <2>5, <2>6
<1> QED
  BY <1>6, <1>7

LEMMA LoadedMarked ==
    ASSUME Inv, Index, Marked, CompileCommand \/ BeginLayout \/ Shuffle \/ Link \/ Run
    PROVE  Marked'
<1>1. /\ UNCHANGED <<doc, script_commands, functions, next_codeblock_id>>
      /\ phase \in Loaded /\ phase' \in Loaded \cup {"rejected", "crashed"}
  BY DEF CompileCommand, BeginLayout, Shuffle, Link, Run, CallByName, CallByIndex, Jump,
     FallThrough, Leave, Enter, input, commands, blocks, Loaded, LaidOut
<1>2. phase' \notin Loading
  BY <1>1 DEF Loading, Loaded, LaidOut
<1>3. Taken' /\ CommandCount' = CommandCount /\ \A i : LineOf(i)' = LineOf(i)
  BY <1>1, CommandsStay
<1>4. Waiting' /\ OpenBlocks'
  BY <1>1, <1>2, <1>3 DEF Waiting, OpenBlocks, Marked, Loading
<1>5. Advances /\ SkipsDirectives
  <2> SUFFICES ASSUME phase' \in Loaded PROVE Advances /\ SkipsDirectives
    BY <1>1, <1>2 DEF Advances, SkipsDirectives, Loaded, LaidOut
  <2> PICK n \in Nat : n = Len(doc) + 1
    BY WalkFacts
  <2>1. Frontier = n /\ Frontier' = n
    BY <1>1 DEF Frontier, Loaded, LaidOut
  <2>2. \A l \in 1 .. Len(doc) : ~(n <= l /\ l < n)
    BY WalkFacts
  <2> QED
    BY <2>1, <2>2 DEF Advances, SkipsDirectives
<1>6. LabelTable'
  BY <1>1, <1>3, <1>5, TableStays
<1> QED
  BY <1>3, <1>4, <1>6 DEF Marked

LEMMA StutterMarked == ASSUME Marked, UNCHANGED vars PROVE Marked'
<1>1. UNCHANGED <<doc, phase, dbcode, dbstack, script_commands, active_labels, active_command,
                  codeblocks, next_codeblock_id, functions>>
  BY DEF vars, input, loader, commands, blocks
<1>2. CommandCount' = CommandCount /\ \A i : LineOf(i)' = LineOf(i)
  BY <1>1 DEF CommandCount, LineOf
<1>3. Frontier' = Frontier
  BY <1>1 DEF Frontier, Script!BlockEnd, Script!LeastOr
<1>4. \A i, b : Opens(i, b)' = Opens(i, b)
  BY <1>1, <1>2 DEF Opens
<1>5. \A s, l : Marks(s, l)' = Marks(s, l)
  <2>1. \A x : Script!LabelLines(x)' = Script!LabelLines(x)
    BY <1>1, SameLabels
  <2>2. \A i : Script!BlockEnd(LineOf(i))' = Script!BlockEnd(LineOf(i))
    <3> TAKE i
    <3>1. LineOf(i)' = LineOf(i) /\ doc' = doc
      BY <1>1, <1>2
    <3> QED
      BY <3>1 DEF Script!BlockEnd, Script!LeastOr
  <2> QED
    BY <1>1, <1>2, <1>4, <2>1, <2>2 DEF Marks, Lbl, First, Close
<1>6. Waiting' = Waiting
  BY <1>1, <1>2, <1>3, <1>5 DEF Waiting, WaitsAt
<1>7. Taken' = Taken
  BY <1>1, <1>2, <1>5 DEF Taken, TakenBy
<1>8. OpenBlocks' = OpenBlocks
  BY <1>1, <1>2, <1>4 DEF OpenBlocks
<1>9. LabelTable' = LabelTable
  <2>1. \A l : Script!InDirective(l)' = Script!InDirective(l) /\ Known(doc[l].label)' = Known(doc[l].label)
    BY <1>1, SameDocument DEF Known
  <2>2. \A f, l : BeginsFrom(f, l)' = BeginsFrom(f, l)
    BY <1>1, <1>2, <2>1 DEF BeginsFrom, Script!LabelLines
  <2> QED
    BY <1>1, <1>2, <1>3, <2>1, <2>2 DEF LabelTable
<1> QED
  BY <1>6, <1>7, <1>8, <1>9 DEF Marked

LEMMA InitMarked == Init => Marked
<1> SUFFICES ASSUME Init PROVE Marked
  OBVIOUS
<1>1. /\ phase = "handle" /\ dbcode = 1 /\ Len(dbstack) = 0 /\ CommandCount = 0
      /\ Len(active_labels) = 0 /\ active_command = 0 /\ codeblocks = <<>>
      /\ Len(codeblocks) = 0 /\ Len(functions) = 0 /\ Frontier = 1
  BY EmptySeq DEF Init, CommandCount, Frontier
<1>2. (\A k : k \notin 1 .. 0) /\ \A l \in 1 .. Len(doc) : ~(l < 1)
  BY InitInv, WalkFacts
<1> QED
  BY <1>1, <1>2 DEF Marked, Waiting, Taken, OpenBlocks, LabelTable

LEMMA SameFile == [Next]_vars => UNCHANGED doc
BY DEF Next, Build, vars, input, HandleLine, Move, Unwind, CompileCommand, BeginLayout,
   Shuffle, Link, Run, CallByName, CallByIndex, Jump, FallThrough, Leave, Enter

LEMMA MarkedHolds == Spec /\ OwnBlocks => [](OwnBlocks /\ Marked)
<1>1. Inv /\ Index /\ OwnBlocks /\ Marked /\ [Next]_vars => OwnBlocks' /\ Marked'
  <2> SUFFICES ASSUME Inv, Index, OwnBlocks, Marked, [Next]_vars PROVE OwnBlocks' /\ Marked'
    OBVIOUS
  <2>1. OwnBlocks'
    BY SameFile, SameLabels
  <2>2. HandleLine => Marked'
    BY HandleLineTakes, HandleLineTable DEF Marked
  <2> QED
    BY <2>1, <2>2, MoveMarked, UnwindMarked, LoadedMarked, StutterMarked DEF Next, Build
<1> QED
  BY <1>1, InitMarked, InvHolds, IndexHolds, PTL DEF Spec

-----------------------------------------------------------------------------
(* The symbols of the pieces.                                               *)

\* Piece j is the first one with code from the line that s marks.
Reaches(s, j) ==
    \E l \in Nat \ {0} : /\ Marks(s, l) /\ l <= LineOf(j)
                         /\ \A i \in 1 .. j - 1 : LineOf(i) < l \/ Skips(i)

\* The commands before t that should have taken s have no code.
PassedTo(s, t) ==
    \E l \in Nat \ {0} : /\ Marks(s, l) /\ \E j \in 1 .. t - 1 : l <= LineOf(j)
                         /\ \A i \in 1 .. t - 1 : LineOf(i) < l \/ Skips(i)

CodedAs(code, j) ==
    IF Skips(j) THEN code.symbols = <<>>
    ELSE /\ \A s \in LabelSymbol : Among(code.symbols, s) => Reaches(s, j)
         /\ Accepted(script_commands[j])
         /\ code.exits = Code(j).exits /\ code.falls = Code(j).falls

Coded ==
    /\ phase \in Loading => label = <<>>
    /\ phase \in Loaded =>
          /\ \A k \in 1 .. Len(label) : PassedTo(label[k], target_iptr)
          /\ \A j \in 1 .. target_iptr - 1 : CodedAs(asm_code[j], j)

\* Without the shuffle the pieces keep their order.
Straight ==
    ~randomize /\ phase \in LaidOut => \A p \in 1 .. CommandCount : program_map[p] = p

\* What is executed is a piece with code.
Running == pc # 0 => phase \in {"linked", "crashed"} /\ ~Skips(program_map[pc])

LEMMA AmongConcat ==
    ASSUME NEW S, NEW a \in Seq(S), NEW b \in Seq(S), NEW s, Among(a \o b, s)
    PROVE  Among(a, s) \/ Among(b, s)
<1>1. PICK k \in 1 .. Len(a \o b) : (a \o b)[k] = s
  BY DEF Among
<1>2. /\ Len(a) \in Nat /\ Len(b) \in Nat /\ Len(a \o b) = Len(a) + Len(b)
      /\ \A i \in 1 .. Len(a) + Len(b) :
            (a \o b)[i] = IF i <= Len(a) THEN a[i] ELSE b[i - Len(a)]
  BY ConcatProperties, LenProperties
<1>3. CASE k <= Len(a)
  <2>1. k \in 1 .. Len(a) /\ a[k] = s
    BY <1>1, <1>2, <1>3
  <2> QED
    BY <2>1 DEF Among
<1>4. CASE ~(k <= Len(a))
  <2>1. k - Len(a) \in 1 .. Len(b) /\ b[k - Len(a)] = s
    BY <1>1, <1>2, <1>4
  <2> QED
    BY <2>1 DEF Among
<1> QED
  BY <1>3, <1>4

\* What a command has to offer the compiler is passed to it or its own.
LEMMA CarriedFrom ==
    ASSUME Inv, Index, Marked, Coded, phase = "compile", NEW t \in 1 .. CommandCount,
           t = target_iptr, NEW s, Among(CarriedLabels(script_commands[t]), s)
    PROVE  \E l \in Nat \ {0} :
              /\ Marks(s, l) /\ l <= LineOf(t)
              /\ \A i \in 1 .. t - 1 : LineOf(i) < l \/ Skips(i)
<1>1. /\ CommandCount \in Nat /\ \A i \in 1 .. CommandCount : LineOf(i) \in Nat
      /\ \A i \in 1 .. t - 1 : i \in 1 .. CommandCount
  BY WalkFacts
<1>2. label \in Seq(Symbol) /\ script_commands[t].labels \in Seq(Symbol)
  BY WalkFacts DEF Inv, TypeOK, Command
<1>3. Among(label, s) \/ Among(script_commands[t].labels, s)
  BY <1>2, AmongConcat DEF CarriedLabels
<1>4. CASE Among(label, s)
  <2>1. PassedTo(s, t)
    BY <1>4 DEF Among, Coded, Loaded
  <2>2. PICK l \in Nat \ {0}, j \in 1 .. t - 1 :
           /\ Marks(s, l) /\ l <= LineOf(j)
           /\ \A i \in 1 .. t - 1 : LineOf(i) < l \/ Skips(i)
    BY <2>1 DEF PassedTo
  <2>3. LineOf(j) < LineOf(t)
    <3> PICK n \in Nat : n = Len(doc) + 1
      BY WalkFacts
    <3>1. CommandsBefore(n)
      BY DEF Index, Collected, Frontier, Loaded
    <3> QED
      BY <1>1, <3>1 DEF CommandsBefore
  <2>4. l <= LineOf(t)
    BY <1>1, <2>2, <2>3
  <2> QED
    BY <2>2, <2>4
<1>5. CASE Among(script_commands[t].labels, s)
  <2>1. TakenBy(s, t)
    BY <1>5 DEF Among, Marked, Taken
  <2>2. PICK l \in 1 .. LineOf(t) : Marks(s, l) /\ \A i \in 1 .. t - 1 : LineOf(i) < l
    BY <2>1 DEF TakenBy
  <2> QED
    BY <1>1, <2>2
<1> QED
  BY <1>3, <1>4, <1>5

\* The code of a command depends on the document and the collected commands.
LEMMA SameCode ==
    ASSUME Inv, Index, Marked,
           UNCHANGED <<doc, randomize, script_commands, functions, next_codeblock_id>>
    PROVE  /\ \A j, code : CodedAs(code, j) => CodedAs(code, j)'
           /\ \A s, t : PassedTo(s, t) => PassedTo(s, t)'
           /\ \A j : Skips(j)' = Skips(j)
<1>1. /\ \A j : LineOf(j)' = LineOf(j) /\ Skips(j)' = Skips(j)
      /\ \A s, l : Marks(s, l) => Marks(s, l)'
  BY CommandsStay DEF Skips
<1>2. \A s, j : Reaches(s, j) => Reaches(s, j)'
  BY <1>1 DEF Reaches
<1>3. \A j : Branch(script_commands[j])' = Branch(script_commands[j])
  BY DEF Branch, Known
<1>4. \A j : Accepted(script_commands[j])' = Accepted(script_commands[j])
  BY <1>3 DEF Accepted
<1>5. \A j : Code(j)' = Code(j)
  BY <1>3 DEF Code, JumpInserted, Lbl, First, Close, Cmd
<1>6. \A j, code : CodedAs(code, j) => CodedAs(code, j)'
  BY <1>1, <1>2, <1>4, <1>5 DEF CodedAs, Among
<1>7. \A s, t : PassedTo(s, t) => PassedTo(s, t)'
  BY <1>1 DEF PassedTo
<1> QED
  BY <1>1, <1>6, <1>7

LEMMA CompileCoded == ASSUME Inv, Index, Marked, Coded, CompileCommand PROVE Coded'
<1>1. /\ phase = "compile" /\ target_iptr \in 1 .. CommandCount /\ CommandCount \in Nat
      /\ phase' \in {"compile", "rejected"}
      /\ UNCHANGED <<doc, randomize, script_commands, functions, next_codeblock_id>>
  <2>1. phase = "compile" /\ target_iptr <= CommandCount
    BY DEF CompileCommand
  <2> QED
    BY <2>1, CommandFacts DEF CompileCommand, input, commands, blocks
<1> PICK t \in 1 .. CommandCount, c \in Nat : t = target_iptr /\ c = CommandCount
  BY <1>1
<1> DEFINE cmd == script_commands[t]
           own == CarriedLabels(cmd)
<1>2. /\ \A j, code : CodedAs(code, j) => CodedAs(code, j)'
      /\ \A s, n : PassedTo(s, n) => PassedTo(s, n)'
      /\ \A j : Skips(j)' = Skips(j)
  BY <1>1, SameCode
<1>3. /\ asm_code \in Seq(GeneratedCode) /\ Len(asm_code) = t - 1
      /\ \A j \in 1 .. t - 1 : CodedAs(asm_code[j], j)
      /\ phase' \notin Loading
  BY <1>1 DEF Inv, TypeOK, Coded, Loaded, Loading
<1>4. ASSUME NEW code, asm_code' = Append(asm_code, code), code \in GeneratedCode,
             CodedAs(code, t)
      PROVE  \A j \in 1 .. t : CodedAs(asm_code[j], j)'
  <2>1. (\A j \in 1 .. t - 1 : asm_code'[j] = asm_code[j]) /\ asm_code'[t] = code
    BY <1>3, <1>4, AppendProperties
  <2> TAKE j \in 1 .. t
  <2> PICK x : x = asm_code'[j]
    OBVIOUS
  <2>2. CodedAs(x, j)
    <3>1. j \in 1 .. t - 1 \/ j = t
      OBVIOUS
    <3> QED
      BY <1>3, <1>4, <2>1, <3>1
  <2>3. CodedAs(x, j)'
    BY <1>2, <2>2
  <2> QED
    BY <2>3 DEF CodedAs, Among
<1>5. CASE Skips(t)
  <2> DEFINE code == [symbols |-> <<>>, exits |-> {}, falls |-> TRUE]
  <2>1. /\ asm_code' = Append(asm_code, code) /\ target_iptr' = t + 1
        /\ label' = own /\ phase' = phase
    BY <1>5 DEF CompileCommand, Skips, LineOf
  <2>2. code \in GeneratedCode
    BY EmptySeq DEF GeneratedCode
  <2>3. CodedAs(code, t)
    BY <1>5 DEF CodedAs
  <2> HIDE DEF code
  <2>4. \A j \in 1 .. t : CodedAs(asm_code[j], j)'
    BY <1>4, <2>1, <2>2, <2>3
  <2>5. ASSUME NEW k \in 1 .. Len(own) PROVE PassedTo(own[k], t + 1)
    <3> PICK s : s = own[k]
      OBVIOUS
    <3>1. Among(own, s)
      BY DEF Among
    <3>2. PICK l \in Nat \ {0} : /\ Marks(s, l) /\ l <= LineOf(t)
                                 /\ \A i \in 1 .. t - 1 : LineOf(i) < l \/ Skips(i)
      BY <1>1, <3>1, CarriedFrom
    <3>3. \A i \in 1 .. t + 1 - 1 : i \in 1 .. t - 1 \/ i = t
      OBVIOUS
    <3>4. t \in 1 .. t + 1 - 1
      OBVIOUS
    <3> QED
      BY <1>5, <3>2, <3>3, <3>4 DEF PassedTo
  <2>6. ASSUME NEW k \in 1 .. Len(label') PROVE PassedTo(label[k], target_iptr)'
    <3> PICK s : s = label'[k]
      OBVIOUS
    <3>1. PassedTo(s, t + 1)
      BY <2>1, <2>5
    <3>2. PassedTo(s, t + 1)'
      BY <1>2, <3>1
    <3> QED
      BY <2>1, <3>2 DEF PassedTo, Marks
  <2>7. target_iptr' - 1 = t
    BY <2>1
  <2> QED
    BY <1>3, <2>4, <2>6, <2>7 DEF Coded
<1>6. CASE ~Skips(t) /\ ~Accepted(cmd)
  <2>1. phase' = "rejected"
    BY <1>6 DEF CompileCommand, Skips, LineOf
  <2> QED
    BY <2>1 DEF Coded, Loading, Loaded, LaidOut
<1>7. CASE ~Skips(t) /\ Accepted(cmd)
  <2> DEFINE symbols == own \o IndexSymbols
             code == [symbols |-> symbols, exits |-> Code(t).exits, falls |-> Code(t).falls]
  <2>1. /\ asm_code' = Append(asm_code, code) /\ target_iptr' = t + 1
        /\ label' = <<>> /\ phase' = phase
    BY <1>7 DEF CompileCommand, Skips, LineOf
  <2>2. own \in Seq(Symbol) /\ IndexSymbols \in Seq(Symbol)
    BY <1>1, CommandFacts, IndexSymbolsType
  <2>3. code \in GeneratedCode
    <3>1. symbols \in Seq(Symbol)
      BY <2>2, ConcatProperties
    <3> QED
      BY <1>1, <1>7, <3>1, CodeType DEF GeneratedCode
  <2>4. ASSUME NEW s \in LabelSymbol, Among(symbols, s) PROVE Reaches(s, t)
    <3>1. Among(own, s) \/ Among(IndexSymbols, s)
      BY <2>2, <2>4, AmongConcat
    <3>2. ~Among(IndexSymbols, s)
      <4>1. target_iptr - iptr + 1 \in Nat
        BY <1>1 DEF Inv, TypeOK
      <4>2. \A k \in 1 .. Len(IndexSymbols) : IndexSymbols[k] = Cmd(iptr + k - 1)
        BY <4>1 DEF IndexSymbols
      <4> QED
        BY <4>2, LabelSymbols DEF Among
    <3> QED
      BY <1>1, <3>1, <3>2, CarriedFrom DEF Reaches
  <2>5. CodedAs(code, t)
    <3>1. /\ code.symbols = symbols /\ code.exits = Code(t).exits /\ code.falls = Code(t).falls
      OBVIOUS
    <3> HIDE DEF code, symbols
    <3> QED
      BY <1>7, <2>4, <3>1 DEF CodedAs
  <2> HIDE DEF code
  <2>6. \A j \in 1 .. t : CodedAs(asm_code[j], j)'
    BY <1>4, <2>1, <2>3, <2>5
  <2>7. target_iptr' - 1 = t /\ Len(label') = 0 /\ \A k : k \notin 1 .. 0
    BY <2>1, EmptySeq
  <2> QED
    BY <1>3, <2>6, <2>7 DEF Coded
<1> QED
  BY <1>5, <1>6, <1>7

Built == Marked /\ Coded /\ Straight /\ Running

LEMMA LoadingBuilt ==
    ASSUME Inv, Index, Built, Marked', HandleLine \/ Move \/ Unwind
    PROVE  Built'
<1>1. /\ phase \in Loading /\ phase' \in Loading \cup {"rejected", "compile"}
      /\ UNCHANGED <<label, target_iptr, pc>>
  <2>1. CASE HandleLine
    BY <2>1 DEF HandleLine, compiler, linked, Loading
  <2>2. CASE Move
    BY <2>2, PushStep DEF Move, compiler, linked, Loading
  <2>3. CASE Unwind
    BY <2>3 DEF Unwind, compiler, linked, Loading
  <2> QED
    BY <2>1, <2>2, <2>3
<1>2. label = <<>> /\ pc = 0 /\ target_iptr = 1
  BY <1>1 DEF Built, Coded, Running, Index, NotYetCompiled, Loading
<1>3. Coded'
  <2>1. Len(label') = 0 /\ target_iptr' - 1 = 0 /\ \A k : k \notin 1 .. 0
    BY <1>1, <1>2, EmptySeq
  <2> QED
    BY <1>1, <1>2, <2>1 DEF Coded
<1>4. Straight' /\ Running'
  BY <1>1, <1>2 DEF Straight, Running, Loading, LaidOut
<1> QED
  BY <1>3, <1>4 DEF Built

\* What has been compiled is not touched again.
LEMMA StillCoded ==
    ASSUME Inv, Index, Built, phase \in Loaded, phase' \notin Loading,
           UNCHANGED <<input, commands, blocks, compiler>>
    PROVE  Coded' /\ CommandCount' = CommandCount /\ \A j : Skips(j)' = Skips(j)
<1>1. UNCHANGED <<doc, randomize, script_commands, functions, next_codeblock_id, label,
                  target_iptr, asm_code>>
  BY DEF input, commands, blocks, compiler
<1>2. /\ \A j, code : CodedAs(code, j) => CodedAs(code, j)'
      /\ \A s, t : PassedTo(s, t) => PassedTo(s, t)'
      /\ \A j : Skips(j)' = Skips(j)
  BY <1>1, SameCode DEF Built
<1>3. /\ \A k \in 1 .. Len(label) : PassedTo(label[k], target_iptr)
      /\ \A j \in 1 .. target_iptr - 1 : CodedAs(asm_code[j], j)
  BY DEF Built, Coded
<1>4. ASSUME NEW k \in 1 .. Len(label) PROVE PassedTo(label[k], target_iptr)'
  <2> PICK s, t : s = label[k] /\ t = target_iptr
    OBVIOUS
  <2>1. PassedTo(s, t)'
    BY <1>2, <1>3
  <2> QED
    BY <1>1, <2>1 DEF PassedTo, Marks
<1>5. ASSUME NEW j \in 1 .. target_iptr - 1 PROVE CodedAs(asm_code[j], j)'
  <2> PICK code : code = asm_code[j]
    OBVIOUS
  <2>1. CodedAs(code, j)'
    BY <1>2, <1>3
  <2> QED
    BY <1>1, <2>1 DEF CodedAs, Among
<1> QED
  BY <1>1, <1>2, <1>4, <1>5 DEF Coded, CommandCount

LEMMA LayoutBuilt ==
    ASSUME Inv, Index, Built, BeginLayout \/ Shuffle \/ Link
    PROVE  Built'
<1>1. /\ phase \in Loaded /\ phase' \notin Loading
      /\ UNCHANGED <<input, commands, blocks, compiler, pc>>
      /\ phase # "linked" /\ phase # "crashed"
  BY DEF BeginLayout, Shuffle, Link, linked, Loading, Loaded, LaidOut
<1>2. Coded' /\ CommandCount' = CommandCount
  BY <1>1, StillCoded
<1>3. Marked'
  BY LoadedMarked DEF Built
<1>4. Running'
  BY <1>1 DEF Built, Running
<1>5. Straight'
  <2>1. CASE BeginLayout
    <3>1. program_map' = [k \in 1 .. CommandCount |-> k]
      BY <2>1 DEF BeginLayout
    <3> QED
      BY <1>2, <3>1 DEF Straight
  <2>2. CASE Shuffle
    BY <2>2 DEF Shuffle, Straight, input
  <2>3. CASE Link
    BY <1>2, <2>3 DEF Link, Straight, Built, input, layout, LaidOut
  <2> QED
    BY <2>1, <2>2, <2>3
<1> QED
  BY <1>2, <1>3, <1>4, <1>5 DEF Built

\* A piece with symbols has code, and the other way round.
LEMMA PieceFacts ==
    ASSUME Inv, Index, Built, phase = "linked", NEW p \in 1 .. CommandCount
    PROVE  /\ program_map[p] \in 1 .. CommandCount /\ CommandCount \in Nat
           /\ Piece(p) \in GeneratedCode
           /\ CodedAs(Piece(p), program_map[p]) /\ SymbolsExact(Piece(p), program_map[p])
           /\ Skips(program_map[p]) <=> Piece(p).symbols = <<>>
<1>1. CommandCount \in Nat /\ target_iptr = CommandCount + 1
  BY WalkFacts DEF Inv, AllGenerated, LaidOut
<1>2. /\ program_map[p] \in 1 .. CommandCount
      /\ \A j \in 1 .. CommandCount : CodedAs(asm_code[j], j) /\ SymbolsExact(asm_code[j], j)
  BY <1>1 DEF Inv, EveryCommandEmittedOnce, LaidOut, Loaded, Built, Coded, Index, Compiled
<1> PICK j \in 1 .. CommandCount : j = program_map[p]
  BY <1>2
<1>3. Piece(p) \in GeneratedCode /\ CodedAs(Piece(p), j) /\ SymbolsExact(Piece(p), j)
  <2>1. asm_code \in Seq(GeneratedCode) /\ Piece(p) = asm_code[j]
    BY DEF Piece, Inv, TypeOK
  <2>2. j \in 1 .. Len(asm_code)
    BY <1>1, WalkFacts DEF Inv, TypeOK
  <2>3. asm_code[j] \in GeneratedCode
    BY <2>1, <2>2, ElementOfSeq
  <2> QED
    BY <1>2, <2>1, <2>3
<1>4. ASSUME ~Skips(j) PROVE Piece(p).symbols # <<>>
  <2>1. j \in Nat /\ Carries(j, j)
    BY <1>1, <1>4 DEF Carries
  <2>2. Among(Piece(p).symbols, Cmd(j))
    BY <1>3, <2>1 DEF SymbolsExact
  <2> QED
    BY <2>2, EmptySeq DEF Among
<1> QED
  BY <1>1, <1>2, <1>3, <1>4 DEF CodedAs

\* Where control can go has code.
LEMMA HeldRuns ==
    ASSUME Inv, Index, Built, phase = "linked", NEW p \in 1 .. CommandCount,
           NEW s, Holds(p, s)
    PROVE  ~Skips(program_map[p])
<1>1. Piece(p).symbols # <<>>
  BY EmptySeq DEF Holds
<1> QED
  BY <1>1, PieceFacts

LEMMA Dispatched ==
    ASSUME Inv, Index, Built, phase = "linked", NEW v \in 1 .. CommandCount,
           command_map[v] # 0
    PROVE  command_map[v] \in 1 .. CommandCount /\ Holds(command_map[v], Cmd(v))
BY DEF Index, Dispatch

LEMMA JumpLands ==
    ASSUME Inv, Index, Built, phase = "linked", pc # 0, NEW sym \in Piece(pc).exits
    PROVE  /\ pc \in 1 .. CommandCount /\ Address(sym) \in 1 .. CommandCount
           /\ Holds(Address(sym), sym)
<1>1. pc \in 1 .. CommandCount
  BY WalkFacts DEF Inv, TypeOK
<1>2. Defined(sym)
  BY <1>1 DEF Inv, JumpsDefined
<1> QED
  BY <1>1, <1>2 DEF Defined, Address

LEMMA NextPiece ==
    ASSUME Inv, Index, Built, phase = "linked", pc # 0, FallThrough
    PROVE  /\ pc \in 1 .. CommandCount /\ Piece(pc).falls
           /\ \/ Enter(0)
              \/ \E p \in pc + 1 .. CommandCount :
                    /\ Enter(p) /\ ~Skips(program_map[p])
                    /\ \A q \in pc + 1 .. p - 1 : Skips(program_map[q])
<1>1. pc \in 1 .. CommandCount /\ CommandCount \in Nat
  BY WalkFacts DEF Inv, TypeOK
<1> DEFINE after == {p \in pc + 1 .. CommandCount : Piece(p).symbols # <<>>}
<1>2. Piece(pc).falls /\ \/ Enter(0)
                         \/ \E p \in after : (\A q \in after : p <= q) /\ Enter(p)
  BY DEF FallThrough
<1>3. \A p \in pc + 1 .. CommandCount : p \in 1 .. CommandCount
  BY <1>1
<1>4. ASSUME NEW p \in after, \A q \in after : p <= q
      PROVE  /\ p \in pc + 1 .. CommandCount /\ ~Skips(program_map[p])
             /\ \A q \in pc + 1 .. p - 1 : Skips(program_map[q])
  <2>1. p \in pc + 1 .. CommandCount /\ ~Skips(program_map[p])
    BY <1>3, PieceFacts
  <2>2. ASSUME NEW q \in pc + 1 .. p - 1 PROVE Skips(program_map[q])
    <3>1. q \in pc + 1 .. CommandCount /\ ~(p <= q)
      BY <1>1, <2>1
    <3>2. q \notin after
      BY <1>4, <3>1
    <3> QED
      BY <1>3, <3>1, <3>2, PieceFacts
  <2> QED
    BY <2>1, <2>2
<1> HIDE DEF after
<1> QED
  BY <1>1, <1>2, <1>4

LEMMA EnterRunning ==
    ASSUME Inv, Index, Built, phase = "linked", Run, NEW p, Enter(p),
           p = 0 \/ (p \in 1 .. CommandCount /\ ~Skips(program_map[p]))
    PROVE  Built'
<1>1. /\ UNCHANGED <<input, commands, blocks, compiler, layout>>
      /\ \/ p = 0 /\ phase' = "crashed" /\ pc' = pc
         \/ p # 0 /\ phase' = "linked" /\ pc' = p
  BY DEF Enter
<1>2. Coded' /\ CommandCount' = CommandCount /\ \A j : Skips(j)' = Skips(j)
  BY <1>1, StillCoded DEF Loading, Loaded, LaidOut
<1>3. program_map' = program_map /\ randomize' = randomize
  BY <1>1 DEF layout, input
<1>4. Marked'
  BY LoadedMarked DEF Built
<1>5. Straight'
  BY <1>1, <1>2, <1>3 DEF Built, Straight, LaidOut
<1>6. Running'
  <2>1. CASE p = 0
    BY <1>1, <1>2, <1>3, <2>1 DEF Built, Running, Skips, LineOf
  <2>2. CASE p # 0
    <3>1. ~Skips(program_map[p])'
      BY <1>1, <1>2, <1>3, <2>2
    <3> QED
      BY <1>1, <1>2, <1>3, <2>2, <3>1 DEF Running, Skips, LineOf
  <2> QED
    BY <2>1, <2>2
<1> QED
  BY <1>2, <1>4, <1>5, <1>6 DEF Built

LEMMA RunBuilt == ASSUME Inv, Index, Built, Run PROVE Built'
<1>1. phase = "linked" /\ CommandCount \in Nat
  BY WalkFacts DEF Run, CallByName, CallByIndex, Jump, FallThrough, Leave
<1>2. ASSUME NEW f \in 1 .. Len(functions), CallByName(f) PROVE Built'
  <2> PICK v \in 1 .. CommandCount : v = functions[f].value
    BY <1>1, <1>2, FunctionFacts DEF CallByName
  <2>1. Enter(command_map[v])
    BY <1>2 DEF CallByName
  <2> QED
    BY <1>1, <2>1, Dispatched, HeldRuns, EnterRunning
<1>3. ASSUME NEW f \in 1 .. Len(functions), CallByIndex(f) PROVE Built'
  <2>1. Enter(FunctionMap(f))
    BY <1>3 DEF CallByIndex
  <2>2. CASE functions[f].value <= CommandCount
    <3> PICK v \in 1 .. CommandCount : v = functions[f].value
      BY <1>1, <2>2, FunctionFacts
    <3>1. Enter(command_map[v])
      BY <2>1, <2>2 DEF FunctionMap
    <3> QED
      BY <1>1, <3>1, Dispatched, HeldRuns, EnterRunning
  <2>3. CASE ~(functions[f].value <= CommandCount)
    <3>1. Enter(0)
      BY <2>1, <2>3 DEF FunctionMap
    <3> QED
      BY <1>1, <3>1, EnterRunning
  <2> QED
    BY <2>2, <2>3
<1>4. ASSUME Jump PROVE Built'
  <2>1. PICK sym \in Piece(pc).exits : Enter(Address(sym))
    BY <1>4 DEF Jump
  <2>2. pc # 0
    BY <1>4 DEF Jump
  <2> QED
    BY <1>1, <2>1, <2>2, JumpLands, HeldRuns, EnterRunning
<1>5. ASSUME FallThrough PROVE Built'
  <2>1. pc # 0
    BY <1>5 DEF FallThrough
  <2>2. \E p : Enter(p) /\ (p = 0 \/ (p \in 1 .. CommandCount /\ ~Skips(program_map[p])))
    <3>1. \A p \in pc + 1 .. CommandCount : p \in 1 .. CommandCount
      BY <1>1, <1>5, <2>1, NextPiece
    <3> QED
      BY <1>1, <1>5, <2>1, <3>1, NextPiece
  <2> QED
    BY <1>1, <2>2, EnterRunning
<1>6. ASSUME Leave PROVE Built'
  <2>1. /\ UNCHANGED <<input, phase, commands, blocks, compiler, layout>> /\ pc' = 0
    BY <1>6 DEF Leave
  <2>2. Coded' /\ CommandCount' = CommandCount
    BY <1>1, <2>1, StillCoded DEF Loading, Loaded, LaidOut
  <2>3. Marked' /\ Running'
    BY <2>1, LoadedMarked DEF Built, Running
  <2>4. Straight'
    BY <2>1, <2>2 DEF Built, Straight, layout, input
  <2> QED
    BY <2>2, <2>3, <2>4 DEF Built
<1> QED
  BY <1>2, <1>3, <1>4, <1>5, <1>6 DEF Run

LEMMA CompileBuilt == ASSUME Inv, Index, Built, CompileCommand PROVE Built'
<1>1. Coded' /\ Marked'
  BY CompileCoded, LoadedMarked DEF Built
<1>2. phase = "compile" /\ phase' \in {"compile", "rejected"} /\ pc' = pc
  BY DEF CompileCommand, linked
<1>3. Straight' /\ Running'
  BY <1>2 DEF Built, Straight, Running, LaidOut
<1> QED
  BY <1>1, <1>3 DEF Built

LEMMA StutterBuilt == ASSUME Inv, Index, Built, UNCHANGED vars PROVE Built'
<1>1. /\ UNCHANGED <<input, phase, commands, blocks, compiler, layout, pc>>
      /\ UNCHANGED <<label, target_iptr, program_map, randomize>>
  BY DEF vars, input, compiler, layout, linked
<1>2. Marked'
  BY StutterMarked DEF Built
<1>3. CASE phase \in Loaded
  <2>1. Coded' /\ CommandCount' = CommandCount /\ \A j : Skips(j)' = Skips(j)
    BY <1>1, <1>3, StillCoded DEF Loading, Loaded, LaidOut
  <2>2. Running' /\ Straight'
    BY <1>1, <2>1 DEF Built, Running, Straight, Skips, LineOf
  <2> QED
    BY <1>2, <2>1, <2>2 DEF Built
<1>4. CASE phase \notin Loaded
  <2>1. Coded' /\ Straight'
    BY <1>1, <1>4 DEF Built, Coded, Straight, Loaded
  <2>2. Running'
    <3>1. UNCHANGED <<doc, script_commands>>
      BY DEF vars, input, commands
    <3> QED
      BY <1>1, <3>1 DEF Built, Running, Skips, LineOf
  <2> QED
    BY <1>2, <2>1, <2>2 DEF Built
<1> QED
  BY <1>3, <1>4

LEMMA InitBuilt == Init => Built
<1> SUFFICES ASSUME Init PROVE Built
  OBVIOUS
<1>1. Coded /\ Straight /\ Running
  BY DEF Init, Coded, Straight, Running, Loaded, LaidOut
<1> QED
  BY <1>1, InitMarked DEF Built

LEMMA BuiltHolds == Spec /\ OwnBlocks => []Built
<1>1. Inv /\ Index /\ (OwnBlocks /\ Marked) /\ (OwnBlocks /\ Marked)' /\ Built /\ [Next]_vars
         => Built'
  BY LoadingBuilt, CompileBuilt, LayoutBuilt, RunBuilt, StutterBuilt DEF Next, Build
<1> QED
  BY <1>1, InitBuilt, InvHolds, IndexHolds, MarkedHolds, PTL DEF Spec

-----------------------------------------------------------------------------
(* The steps of the running program are those of the script.                *)

LEMMA FirstAfter ==
    ASSUME Inv, Index, phase = "linked", NEW j \in 1 .. CommandCount, ~Skips(j),
           NEW l \in Nat \ {0}, l <= LineOf(j),
           \A i \in 1 .. j - 1 : LineOf(i) < l \/ Skips(i)
    PROVE  Script!FirstFrom(l) = LineOf(j)
<1>1. /\ CommandCount \in Nat /\ Document /\ Len(doc) \in Nat
      /\ \A k \in 1 .. CommandCount : LineOf(k) \in 1 .. Len(doc)
  BY WalkFacts
<1>2. l \in 1 .. Len(doc) /\ LineOf(j) \in l .. Len(doc) /\ Script!IsCommand(LineOf(j))
  BY <1>1, CommandLines
<1>3. ASSUME NEW m \in l .. Len(doc), Script!IsCommand(m) PROVE LineOf(j) <= m
  <2>1. m \in 1 .. Len(doc)
    BY <1>1
  <2>2. PICK k \in 1 .. CommandCount : LineOf(k) = m /\ ~Skips(k)
    BY <1>3, <2>1, CommandLines
  <2>3. ~(k < j)
    <3>1. k \in 1 .. j - 1 => LineOf(k) < l
      BY <2>2
    <3> QED
      BY <1>1, <2>1, <2>2, <3>1
  <2>4. k = j \/ j < k
    BY <1>1, <2>3
  <2>5. j < k => LineOf(j) < LineOf(k)
    BY CommandLines
  <2> QED
    BY <1>1, <2>1, <2>2, <2>4, <2>5
<1> QED
  BY <1>1, <1>2, <1>3, FirstFromIs

\* A symbol leads to the first command from the line it marks.
LEMMA LandsOn ==
    ASSUME Inv, Index, Built, phase = "linked", NEW p \in 1 .. CommandCount,
           NEW s \in LabelSymbol, Holds(p, s)
    PROVE  \E l \in Nat : Marks(s, l) /\ Script!FirstFrom(l) = LineOf(program_map[p])
<1> PICK j \in 1 .. CommandCount : j = program_map[p]
  BY PieceFacts
<1>1. ~Skips(j) /\ CodedAs(Piece(p), j)
  BY HeldRuns, PieceFacts
<1>2. Reaches(s, j)
  BY <1>1 DEF CodedAs, Holds, Among
<1>3. PICK l \in Nat \ {0} : /\ Marks(s, l) /\ l <= LineOf(j)
                             /\ \A i \in 1 .. j - 1 : LineOf(i) < l \/ Skips(i)
  BY <1>2 DEF Reaches
<1> QED
  BY <1>1, <1>3, FirstAfter

\* The symbol of the next command leads to the first command below the line.
LEMMA NextLands ==
    ASSUME Inv, Index, phase = "linked", NEW i \in 1 .. CommandCount,
           NEW j \in 1 .. CommandCount, Carries(j, i + 1)
    PROVE  Script!FirstFrom(LineOf(i) + 1) = LineOf(j)
<1>1. /\ CommandCount \in Nat /\ \A k \in 1 .. CommandCount : LineOf(k) \in Nat \ {0}
      /\ \A a, b \in 1 .. CommandCount : a < b => LineOf(a) < LineOf(b)
  <2>1. \A a, b \in 1 .. CommandCount : a < b => LineOf(a) < LineOf(b)
    BY CommandLines
  <2> QED
    BY <2>1, WalkFacts
<1>2. ~Skips(j) /\ i + 1 \in 1 .. j /\ \A k \in i + 1 .. j - 1 : Skips(k)
  BY DEF Carries
<1>3. LineOf(i) + 1 <= LineOf(j)
  BY <1>1, <1>2
<1>4. ASSUME NEW k \in 1 .. j - 1 PROVE LineOf(k) < LineOf(i) + 1 \/ Skips(k)
  <2>1. k \in 1 .. CommandCount
    BY <1>1
  <2>2. CASE k <= i
    BY <1>1, <2>1, <2>2
  <2>3. CASE ~(k <= i)
    BY <1>1, <1>2, <2>3
  <2> QED
    BY <2>2, <2>3
<1>5. LineOf(i) + 1 \in Nat \ {0}
  BY <1>1
<1> QED
  BY <1>2, <1>3, <1>4, <1>5, FirstAfter

LEMMA IndexHeld ==
    ASSUME Inv, Index, Built, phase = "linked", NEW p \in 1 .. CommandCount, NEW i \in Nat,
           Holds(p, Cmd(i))
    PROVE  Carries(program_map[p], i)
<1>1. SymbolsExact(Piece(p), program_map[p])
  BY PieceFacts
<1> QED
  BY <1>1 DEF SymbolsExact, Among, Holds

\* The three kinds of marks.
LEMMA MarkMeans ==
    /\ \A x \in Label : \A l : Marks(Lbl(x), l) => l \in Script!LabelLines(x)
    /\ \A b \in Nat : \A l : Marks(First(b), l) =>
          \A i \in 1 .. CommandCount : Opens(i, b) => l = LineOf(i) + 1
    /\ \A b \in Nat : \A l : Marks(Close(b), l) =>
          \A i \in 1 .. CommandCount : Opens(i, b) => l = Script!BlockEnd(LineOf(i))
<1>1. ASSUME NEW x \in Label, NEW l, Marks(Lbl(x), l)
      PROVE  l \in Script!LabelLines(x)
  BY <1>1 DEF Marks, Lbl, First, Close
<1>2. ASSUME NEW b \in Nat, NEW l, Marks(First(b), l), NEW i \in 1 .. CommandCount, Opens(i, b)
      PROVE  l = LineOf(i) + 1
  BY <1>2 DEF Marks, Lbl, First, Close
<1>3. ASSUME NEW b \in Nat, NEW l, Marks(Close(b), l), NEW i \in 1 .. CommandCount, Opens(i, b)
      PROVE  l = Script!BlockEnd(LineOf(i))
  BY <1>3 DEF Marks, Lbl, First, Close
<1> QED
  BY <1>1, <1>2, <1>3

\* What is being executed.
LEMMA Executed ==
    ASSUME Inv, Index, Built, phase = "linked", pc # 0,
           NEW i, i = program_map[pc]
    PROVE  /\ pc \in 1 .. CommandCount /\ i \in 1 .. CommandCount /\ CommandCount \in Nat
           /\ LineOf(i) \in 1 .. Len(doc) /\ doc[LineOf(i)] \in DocumentLine
           /\ script_commands[i] \in Command
           /\ doc[LineOf(i)].op \in {"plain", "goto", "if", "exit"}
           /\ Accepted(script_commands[i])
           /\ Piece(pc).exits = Code(i).exits /\ Piece(pc).falls = Code(i).falls
<1>1. pc \in 1 .. CommandCount /\ ~Skips(i)
  BY WalkFacts DEF Inv, TypeOK, Built, Running
<1>2. i \in 1 .. CommandCount /\ CommandCount \in Nat /\ CodedAs(Piece(pc), i)
  BY <1>1, PieceFacts
<1>3. LineOf(i) \in 1 .. Len(doc) /\ script_commands[i] \in Command
  BY <1>2, WalkFacts
<1>4. doc[LineOf(i)] \in DocumentLine
  BY <1>3, ElementOfSeq DEF Inv, TypeOK
<1>5. Script!IsCommand(LineOf(i))
  BY <1>1, <1>2, CommandLines
<1> QED
  BY <1>1, <1>2, <1>3, <1>4, <1>5 DEF CodedAs, Script!IsCommand

\* A symbol that names a label of the document leads to the label's target.
LEMMA LabelLands ==
    ASSUME Inv, Index, Built, phase = "linked", NEW p \in 1 .. CommandCount,
           NEW x \in Label, Holds(p, Lbl(x))
    PROVE  LineOf(program_map[p]) \in Script!Target(x)
<1>1. PICK l \in Nat : Marks(Lbl(x), l) /\ Script!FirstFrom(l) = LineOf(program_map[p])
  BY LabelSymbols, LandsOn
<1> QED
  BY <1>1, MarkMeans DEF Script!Target

\* A branch that the compiler takes for a block names no label of the document.
LEMMA NoLabel ==
    ASSUME Inv, Index, Built, phase = "linked", NEW x \in Label \cup {None},
           x = None \/ ~Known(x)
    PROVE  Script!Target(x) = {}
<1> PICK n \in Nat : n = Len(doc) + 1
  BY WalkFacts
<1>1. \A l \in 1 .. Len(doc) :
         l < n /\ ~Script!InDirective(l) /\ doc[l].label # None => Known(doc[l].label)
  BY DEF Built, Marked, LabelTable, Frontier, Loaded, LaidOut
<1>2. Script!LabelLines(x) = {}
  <2> SUFFICES ASSUME NEW l \in Script!LabelLines(x) PROVE FALSE
    OBVIOUS
  <2>1. /\ l \in 1 .. Len(doc) /\ x # None
        /\ doc[l].label = x /\ ~Script!InDirective(l)
    BY DEF Script!LabelLines
  <2>2. Len(doc) \in Nat /\ l < n
    BY <2>1, WalkFacts
  <2>3. Known(doc[l].label)
    BY <1>1, <2>1, <2>2
  <2> QED
    BY <2>1, <2>3
<1> QED
  BY <1>2 DEF Script!Target

LEMMA JumpFollows ==
    ASSUME Inv, Index, Built, phase = "linked", pc # 0,
           NEW i, i = program_map[pc], NEW sym \in Piece(pc).exits
    PROVE  LineOf(program_map[Address(sym)]) \in Script!Successors(LineOf(i))
<1> DEFINE cmd == script_commands[i]
           l == doc[LineOf(i)]
           line == LineOf(program_map[Address(sym)])
<1>1. /\ pc \in 1 .. CommandCount /\ i \in 1 .. CommandCount /\ CommandCount \in Nat
      /\ l \in DocumentLine /\ cmd \in Command /\ Accepted(cmd) /\ sym \in Code(i).exits
      /\ l.op \in {"plain", "goto", "if", "exit"} /\ cmd.line = LineOf(i)
  BY Executed DEF LineOf
<1> PICK p \in 1 .. CommandCount : p = Address(sym) /\ Holds(p, sym)
  BY JumpLands
<1>2. ASSUME sym = Cmd(i + 1) PROVE line = Script!FirstFrom(LineOf(i) + 1)
  <2>1. i + 1 \in Nat
    BY <1>1
  <2>2. Carries(program_map[p], i + 1) /\ program_map[p] \in 1 .. CommandCount
    BY <1>2, <2>1, IndexHeld, PieceFacts
  <2> QED
    BY <1>1, <2>2, NextLands
<1>3. ASSUME Branch(cmd) = "label", sym = Lbl(l.target) PROVE line \in Script!Target(l.target)
  <2>1. l.target \in Label
    BY <1>1, <1>3 DEF Branch, DocumentLine
  <2> QED
    BY <1>3, <2>1, LabelLands
<1>4. CASE l.op = "plain"
  <2>1. sym = Cmd(i + 1)
    BY <1>1, <1>4 DEF Code
  <2> QED
    BY <1>2, <1>4, <2>1 DEF Script!Successors
<1>5. CASE l.op = "goto"
  <2>1. sym = Lbl(l.target)
    BY <1>1, <1>5 DEF Code
  <2>2. Branch(cmd) = "label"
    BY <1>1, <1>5 DEF Accepted, Branch
  <2> QED
    BY <1>3, <1>5, <2>1, <2>2 DEF Script!Successors
<1>6. CASE l.op = "if" /\ Branch(cmd) = "label"
  <2>1. sym = Cmd(i + 1) \/ sym = Lbl(l.target)
    BY <1>1, <1>6 DEF Code
  <2> HIDE DEF line
  <2>2. CASE sym = Cmd(i + 1)
    <3>1. line = Script!FirstFrom(LineOf(i) + 1)
      BY <1>2, <2>2
    <3>2. Script!FirstFrom(LineOf(i) + 1) \in Script!Successors(LineOf(i))
      BY <1>6 DEF Script!Successors
    <3> QED
      BY <3>1, <3>2 DEF line
  <2>3. CASE sym = Lbl(l.target)
    <3>1. line \in Script!Target(l.target)
      BY <1>3, <1>6, <2>3
    <3> QED
      BY <1>6, <3>1 DEF Script!Successors, line
  <2> QED
    BY <2>1, <2>2, <2>3
<1>7. CASE l.op = "if" /\ Branch(cmd) # "label"
  <2>1. Branch(cmd) = "codeblock"
    BY <1>1, <1>7 DEF Accepted, Branch
  <2> PICK b \in Nat : b = cmd.child /\ b # None
    BY <1>1, <2>1 DEF Branch, Command
  <2>2. Opens(i, b)
    BY <1>7 DEF Opens
  <2>3. sym = First(b) \/ sym = Close(b)
    BY <1>1, <1>7 DEF Code
  <2>4. PICK m \in Nat : Marks(sym, m) /\ Script!FirstFrom(m) = line
    BY <2>3, LabelSymbols, LandsOn
  <2>5. m = LineOf(i) + 1 \/ m = Script!BlockEnd(LineOf(i))
    BY <1>1, <2>2, <2>3, <2>4, MarkMeans
  <2>6. Script!Target(l.target) = {}
    <3>1. l.target \in Label \cup {None} /\ (l.target = None \/ ~Known(l.target))
      BY <1>1, <1>7 DEF Branch, DocumentLine
    <3> QED
      BY <3>1, NoLabel
  <2> QED
    BY <1>7, <2>4, <2>5, <2>6 DEF Script!Successors
<1>8. CASE l.op = "exit"
  BY <1>1, <1>8 DEF Code
<1> QED
  BY <1>1, <1>4, <1>5, <1>6, <1>7, <1>8

\* A command that runs on into the next piece is not a branch.
LEMMA FallFollows ==
    ASSUME Inv, Index, Built, phase = "linked", pc # 0, FallThrough,
           NEW i, i = program_map[pc], NEW p \in pc + 1 .. CommandCount,
           ~Skips(program_map[p]),
           \A q \in pc + 1 .. p - 1 : Skips(program_map[q])
    PROVE  LineOf(program_map[p]) \in Script!Successors(LineOf(i))
<1>1. /\ pc \in 1 .. CommandCount /\ i \in 1 .. CommandCount /\ CommandCount \in Nat
      /\ Piece(pc).falls /\ Piece(pc).falls = Code(i).falls
      /\ doc[LineOf(i)].op \in {"plain", "goto", "if", "exit"}
  BY Executed DEF FallThrough
<1>2. doc[LineOf(i)].op = "plain" /\ ~randomize
  BY <1>1 DEF Code, JumpInserted, LineOf
<1>3. \A q \in 1 .. CommandCount : program_map[q] = q
  BY <1>2 DEF Built, Straight, LaidOut
<1>4. i = pc /\ program_map[p] = p /\ p \in 1 .. CommandCount
  BY <1>1, <1>3
<1>5. \A q \in i + 1 .. p - 1 : Skips(q)
  <2> TAKE q \in i + 1 .. p - 1
  <2>1. q \in 1 .. CommandCount /\ q \in pc + 1 .. p - 1
    BY <1>1, <1>4
  <2> QED
    BY <1>3, <2>1
<1>6. Carries(p, i + 1)
  <2>1. i + 1 \in 1 .. p
    BY <1>1, <1>4
  <2> QED
    BY <1>4, <1>5, <2>1 DEF Carries
<1>7. Script!FirstFrom(LineOf(i) + 1) = LineOf(p)
  BY <1>1, <1>4, <1>6, NextLands
<1> QED
  BY <1>2, <1>4, <1>7 DEF Script!Successors

\* Nothing but the end of the program leads out of it.
LEMMA LeaveFollows ==
    ASSUME Inv, Index, Built, phase = "linked", pc # 0, Leave
    PROVE  doc[LineOf(program_map[pc])].op = "exit"
<1> PICK i : i = program_map[pc]
  OBVIOUS
<1>1. /\ Code(i).exits = {} /\ ~Code(i).falls
      /\ doc[LineOf(i)].op \in {"plain", "goto", "if", "exit"}
  BY Executed DEF Leave
<1>2. doc[script_commands[i].line].op # "goto" /\ doc[script_commands[i].line].op # "if"
  BY <1>1 DEF Code
<1>3. doc[script_commands[i].line].op # "plain"
  <2>1. CASE randomize
    BY <1>1, <2>1 DEF Code, JumpInserted
  <2>2. CASE ~randomize
    BY <1>1, <2>2 DEF Code, JumpInserted
  <2> QED
    BY <2>1, <2>2
<1> QED
  BY <1>1, <1>2, <1>3 DEF LineOf

\* A call by name or by index begins at a target of the label.
LEMMA CallFollows ==
    ASSUME Inv, Index, Built, phase = "linked", NEW f \in 1 .. Len(functions),
           NEW v \in 1 .. CommandCount, v = functions[f].value,
           NEW q, q = command_map[v], q # 0
    PROVE  /\ q \in 1 .. CommandCount
           /\ \E l \in 1 .. Len(doc) :
                 /\ doc[l].label # None
                 /\ LineOf(program_map[q]) \in Script!Target(doc[l].label)
<1>1. q \in 1 .. CommandCount /\ Holds(q, Cmd(v)) /\ CommandCount \in Nat
  BY Dispatched, WalkFacts
<1> PICK j \in 1 .. CommandCount : j = program_map[q]
  BY <1>1, PieceFacts
<1>2. Carries(j, v)
  BY <1>1, IndexHeld
<1>3. ~Skips(j) /\ v \in 1 .. j /\ \A k \in v .. j - 1 : Skips(k)
  BY <1>2 DEF Carries
<1>4. PICK l \in 1 .. Len(doc) : BeginsFrom(f, l)
  BY DEF Built, Marked, LabelTable, Loaded, LaidOut
<1>5. /\ l \in Script!LabelLines(functions[f].label)
      /\ \A i \in 1 .. CommandCount : LineOf(i) < l <=> i < v
  BY <1>4 DEF BeginsFrom
<1>6. /\ \A k \in 1 .. CommandCount : LineOf(k) \in Nat
      /\ \A a, b \in 1 .. CommandCount : a < b => LineOf(a) < LineOf(b)
      /\ l \in Nat \ {0}
  <2>1. \A a, b \in 1 .. CommandCount : a < b => LineOf(a) < LineOf(b)
    BY CommandLines
  <2> QED
    BY <2>1, WalkFacts
<1>7. l <= LineOf(j)
  <2>1. ~(j < v)
    BY <1>3
  <2>2. ~(LineOf(j) < l)
    BY <1>5, <2>1
  <2> QED
    BY <1>6, <2>2
<1>8. \A k \in 1 .. j - 1 : LineOf(k) < l \/ Skips(k)
  <2> TAKE k \in 1 .. j - 1
  <2>1. k \in 1 .. CommandCount
    BY <1>1
  <2>2. k < v \/ k \in v .. j - 1
    BY <1>3
  <2> QED
    BY <1>3, <1>5, <2>1, <2>2
<1>9. Script!FirstFrom(l) = LineOf(j)
  BY <1>3, <1>6, <1>7, <1>8, FirstAfter
<1>10. doc[l].label = functions[f].label /\ doc[l].label # None
  BY <1>5 DEF Script!LabelLines
<1>11. LineOf(j) \in Script!Target(doc[l].label)
  BY <1>5, <1>9, <1>10 DEF Script!Target
<1> QED
  BY <1>1, <1>10, <1>11

-----------------------------------------------------------------------------
(* Refinement of ScriptFlow.                                                *)

\* The line that is executed.
Here == IF pc = 0 THEN 0 ELSE LineOf(program_map[pc])

ScriptStep == [Script!Next]_<<doc, Here>>

LEMMA Frame ==
    ASSUME UNCHANGED <<doc, script_commands, program_map>>
    PROVE  Here' = IF pc' = 0 THEN 0 ELSE LineOf(program_map[pc'])
BY DEF Here, LineOf

LEMMA CallStep ==
    ASSUME Inv, Index, Built, phase = "linked", pc = 0, NEW f \in 1 .. Len(functions),
           CallByName(f) \/ CallByIndex(f)
    PROVE  ScriptStep
<1> PICK q : /\ Enter(q)
             /\ \/ q = 0
                \/ /\ functions[f].value <= CommandCount
                   /\ q = command_map[functions[f].value]
  BY DEF CallByName, CallByIndex, FunctionMap
<1>1. /\ UNCHANGED <<doc, script_commands, program_map>>
      /\ pc' = IF q = 0 THEN pc ELSE q
  BY DEF Enter, input, commands, layout
<1>2. CASE q = 0
  BY <1>1, <1>2 DEF ScriptStep, Here, LineOf
<1>3. CASE q # 0
  <2> PICK v \in 1 .. CommandCount : v = functions[f].value
    BY <1>3, WalkFacts, FunctionFacts
  <2>1. PICK l \in 1 .. Len(doc) : /\ doc[l].label # None
                                   /\ LineOf(program_map[q]) \in Script!Target(doc[l].label)
    BY <1>3, CallFollows
  <2>2. LineOf(program_map[q]) # 0
    <3>1. program_map[q] \in 1 .. CommandCount
      BY <1>3, CallFollows, PieceFacts
    <3> QED
      BY <3>1, WalkFacts
  <2>3. Here = 0 /\ Here' = LineOf(program_map[q])
    BY <1>1, <1>3, Frame DEF Here
  <2> QED
    BY <1>1, <2>1, <2>2, <2>3 DEF ScriptStep, Script!Next, Script!Call, Here, LineOf
<1> QED
  BY <1>2, <1>3

LEMMA GoStep ==
    ASSUME Inv, Index, Built, phase = "linked", pc # 0, Jump \/ FallThrough
    PROVE  ScriptStep
<1> PICK i : i = program_map[pc]
  OBVIOUS
<1>1. /\ CommandCount \in Nat /\ pc \in 1 .. CommandCount
      /\ i \in 1 .. CommandCount /\ LineOf(i) \in 1 .. Len(doc)
  BY Executed
<1>2. PICK p : /\ Enter(p)
               /\ \/ p = 0
                  \/ /\ p \in 1 .. CommandCount
                     /\ LineOf(program_map[p]) \in Script!Successors(LineOf(i))
  <2>1. CASE Jump
    <3>1. PICK sym \in Piece(pc).exits : Enter(Address(sym))
      BY <2>1 DEF Jump
    <3> QED
      BY <3>1, JumpLands, JumpFollows
  <2>2. CASE FallThrough
    <3>1. \/ Enter(0)
          \/ \E p \in pc + 1 .. CommandCount :
                /\ Enter(p) /\ ~Skips(program_map[p])
                /\ \A q \in pc + 1 .. p - 1 : Skips(program_map[q])
      BY <2>2, NextPiece
    <3>2. \A p \in pc + 1 .. CommandCount : p \in 1 .. CommandCount
      BY <1>1
    <3> QED
      BY <2>2, <3>1, <3>2, FallFollows
  <2> QED
    BY <2>1, <2>2
<1>3. /\ UNCHANGED <<doc, script_commands, program_map>>
      /\ pc' = IF p = 0 THEN pc ELSE p
  BY <1>2 DEF Enter, input, commands, layout
<1>4. CASE p = 0
  BY <1>3, <1>4 DEF ScriptStep, Here, LineOf
<1>5. CASE p # 0
  <2>1. LineOf(program_map[p]) # 0
    <3>1. program_map[p] \in 1 .. CommandCount
      BY <1>2, <1>5, PieceFacts
    <3> QED
      BY <3>1, WalkFacts
  <2>2. Here = LineOf(i) /\ Here' = LineOf(program_map[p]) /\ LineOf(i) # 0
    BY <1>1, <1>3, <1>5, Frame DEF Here
  <2>3. Here # 0 /\ Here' \in Script!Successors(Here) \ {0}
    BY <1>2, <1>5, <2>1, <2>2
  <2> QED
    BY <1>3, <2>3 DEF ScriptStep, Script!Next, Script!Step, Here, LineOf
<1> QED
  BY <1>4, <1>5

LEMMA EndStep ==
    ASSUME Inv, Index, Built, phase = "linked", pc # 0, Leave
    PROVE  ScriptStep
<1>1. UNCHANGED <<doc, script_commands, program_map>> /\ pc' = 0
  BY DEF Leave, input, commands, layout
<1>2. Here = LineOf(program_map[pc]) /\ Here' = 0
  BY <1>1, Frame DEF Here
<1>3. Here # 0 /\ doc[Here].op = "exit"
  <2>1. LineOf(program_map[pc]) \in 1 .. Len(doc)
    BY Executed
  <2> QED
    BY <1>2, <2>1, LeaveFollows, WalkFacts
<1> QED
  BY <1>1, <1>2, <1>3 DEF ScriptStep, Script!Next, Script!Stop, Here, LineOf

\* While the program is built, nothing is executed.
LEMMA BuildStep == ASSUME Built, Build \/ UNCHANGED vars PROVE ScriptStep
<1>1. doc' = doc
  BY SameFile DEF Next
<1>2. CASE UNCHANGED vars
  <2>1. UNCHANGED <<pc, program_map, script_commands>>
    BY <1>2 DEF vars, layout, linked, commands
  <2> QED
    BY <1>1, <2>1 DEF ScriptStep, Here, LineOf
<1>3. CASE Build
  <2>1. pc' = pc /\ phase \notin {"linked", "crashed"}
    BY <1>3 DEF Build, HandleLine, Move, Unwind, CompileCommand, BeginLayout, Shuffle, Link,
       linked
  <2>2. pc = 0
    BY <2>1 DEF Built, Running
  <2> QED
    BY <1>1, <2>1, <2>2 DEF ScriptStep, Here
<1> QED
  BY <1>2, <1>3

\* The program that is built from a document does what the document says, in every
\* layout: its jumps, code blocks, skipped commands and tables lead to the command
\* that the author expects next (tactyk_pl__load_dblock, tactyk_emit__compile,
\* tactyk_asmvm__add_program).  Only documents in which a label takes over the block
\* of an `if` are left out.
THEOREM ProgramImplementsScript == Spec /\ OwnBlocks => ImplementsScript
<1>1. Init => Script!Init
  BY DEF Init, Script!Init
<1>2. Inv /\ Index /\ Built /\ [Next]_vars => ScriptStep
  <2> SUFFICES ASSUME Inv, Index, Built, [Next]_vars PROVE ScriptStep
    OBVIOUS
  <2>1. CASE Build \/ UNCHANGED vars
    BY <2>1, BuildStep
  <2>2. CASE Run
    <3>1. phase = "linked"
      BY <2>2 DEF Run, CallByName, CallByIndex, Jump, FallThrough, Leave
    <3>2. ASSUME NEW f \in 1 .. Len(functions), CallByName(f) \/ CallByIndex(f)
          PROVE  ScriptStep
      BY <3>1, <3>2, CallStep DEF CallByName, CallByIndex
    <3>3. CASE Jump \/ FallThrough
      BY <3>1, <3>3, GoStep DEF Jump, FallThrough
    <3>4. CASE Leave
      BY <3>1, <3>4, EndStep DEF Leave
    <3> QED
      BY <2>2, <3>2, <3>3, <3>4 DEF Run
  <2> QED
    BY <2>1, <2>2 DEF Next
<1>3. ScriptStep => [Script!Next]_<<doc, IF pc = 0 THEN 0
                                         ELSE script_commands[program_map[pc]].line>>
  BY DEF ScriptStep, Here, LineOf
<1> QED
  BY <1>1, <1>2, <1>3, InvHolds, IndexHolds, BuiltHolds, PTL
     DEF Spec, ImplementsScript, Script!Spec
=============================================================================
