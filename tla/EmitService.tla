----------------------------- MODULE EmitService -----------------------------
(* The emitter service (libtactyk/tactyk_emit_svc.c): the functions with which *)
(* a script builds another program, down to the tables and lists of dblocks    *)
(* that the code emitter keeps (libtactyk/tactyk_emit.c) and the culls that    *)
(* end every build.  Commands are opaque: ProgramBuild follows them further.   *)
EXTENDS DBlockPool, Functions

CONSTANTS Names,             \* texts of labels and memory blocks, numbers of integer labels
          Instructions,      \* V-ISA tokens that name an instruction
          Skips,             \* those that generate no code: skip
          Operands,          \* other tokens, texts and numbers a command may have
          Kinds,             \* ways to make a memory block that scripts use
          ScratchBlocks,     \* blocks of init_program nothing here reads: local_vars, const tables, ...
          FunctionCapacity,  \* objects the function store of a program starts with
          MemblockCapacity,  \* TACTYK_ASMVM__MEMBLOCK_CAPACITY
          ProgramCapacity,   \* TACTYK_ASMVM__PROGRAM_CAPACITY
          MaxTokens,         \* tokens that one call appends: 6
          MaxCalls           \* bound on the calls of a script

VARIABLES pool, ctx, cmd, cmd_lasttoken, programs, status,
          handles,           \* history: what emit-label returned since emit-new
          calls              \* number of calls so far

ASSUME KindsAssumption == Kinds \subseteq {"external", "empty", "ref", "data"}
ASSUME SkipsAssumption == Skips \subseteq Instructions
ASSUME CountsAssumption == {ScratchBlocks, MaxTokens} \subseteq Nat

vars == <<pool, ctx, cmd, cmd_lasttoken, programs, status, handles, calls>>

db == pool.db
Content(b) == db[b].content
Texts(b) == LET list == Chain(pool, b) IN [i \in DOMAIN list |-> TextOf(pool, list[i])]

(* A script that uses the service as documented: emit-new before anything is   *)
(* added, every label before a command of the program and every command ended  *)
(* before emit-build.  The code takes this on trust: emit-build culls tables   *)
(* and commands that the context and cmd still point to.                       *)
Drafting == status = "running" /\ ctx.drafting

Init == /\ pool = FullPool
        /\ ctx = [drafting |-> FALSE]
        /\ cmd = Null /\ cmd_lasttoken = Null
        /\ programs = <<>> /\ status = "running" /\ handles = <<>> /\ calls = 0

(* error() and a failed assert end the program. *)
Fail == status' = "failed" /\ UNCHANGED <<pool, ctx, cmd, cmd_lasttoken, programs, handles>>

-----------------------------------------------------------------------------
(* emit-new: tactyk_emit__init_program.  Nothing of an earlier draft is freed. *)
ProgramBlocks == 10
InitProgram ==
  LET b(i) == Top(pool, ScratchBlocks + i)
      taken == Take(pool, [i \in 1 .. ScratchBlocks |-> Container] \o
                 <<Container, Table(Null), Table(Null), Table(Null),
                   Table(b(6)), Container, Container, Table(b(9)), Container, Container>>)
      Keep(p, c) == SetPersistenceCode(p, c, 10)
  IN  /\ pool' = Keep(Keep(Keep(Keep(taken, b(5)), b(7)), b(8)), b(10))
      /\ ctx' = [drafting |-> TRUE, script_commands |-> b(1), label_table |-> b(2), labelindex_table |-> b(3),
                 memblock_table |-> b(4), functions |-> b(5), memory_layout_ll |-> b(7),
                 memory_layout_hl |-> b(8), active_labels |-> Null, active_labels_last |-> Null]

New == /\ status = "running"
       /\ handles' = <<>>
       /\ IF Room(pool, ScratchBlocks + ProgramBlocks)
          THEN InitProgram /\ UNCHANGED <<cmd, cmd_lasttoken, programs, status>>
          ELSE status' = "failed" /\ UNCHANGED <<pool, ctx, cmd, cmd_lasttoken, programs>>

(* emit-label and emit-intlabel: add_script_label with a block for the name,   *)
(* one for its symbol, one for its index and a key in each of three tables.    *)
LabelTables == {ctx.label_table, ctx.functions, ctx.labelindex_table}
LabelBlocks(name) == 3 + Cardinality({t \in LabelTables : ~Has(pool, t, name)})
HandleFromOne == Len(Content(ctx.functions)) + 1                 \* Mutant: read after the label is added
LabelHandle == Len(Content(ctx.functions))
Index == Len(Content(ctx.script_commands))

AddScriptLabel(p, raw, name) ==
  LET symbol == Top(p, 1)
      named == PutBlock(Take(p, <<[String(name) EXCEPT !.self_managed = FALSE]>>), ctx.label_table, raw, symbol)
      store == named.db[ctx.functions].store
      known == Put(NewObject(named, store, [txt |-> name, value |-> Index]),
                   ctx.functions, raw, Len(named.db[store].content) + 1)
      entry == Top(known, 1)
      indexed == PutBlock(Take(known, <<String("index")>>), ctx.labelindex_table, raw, entry)
  IN  /\ pool' = IF ctx.active_labels = Null THEN indexed ELSE Link(indexed, ctx.active_labels_last, symbol)
      /\ ctx' = [ctx EXCEPT !.active_labels = IF @ = Null THEN symbol ELSE @, !.active_labels_last = symbol]

Label(name) ==
  /\ Drafting
  /\ Len(Content(db[ctx.functions].store)) < FunctionCapacity
  /\ IF ~Room(pool, LabelBlocks(name)) THEN Fail
     ELSE /\ AddScriptLabel(Take(pool, <<String(name)>>), Top(pool, 1), name)
          /\ handles' = Append(handles, [name |-> name, handle |-> LabelHandle])
          /\ UNCHANGED <<cmd, cmd_lasttoken, programs, status>>

-----------------------------------------------------------------------------
(* emit-cmd begins a command.  One that was open is forgotten. *)
Cmd(token) ==
  /\ Drafting
  /\ IF ~Room(pool, 2) THEN Fail
     ELSE /\ pool' = Take(pool, <<[String("") EXCEPT !.token = Top(pool, 2)], External(token)>>)
          /\ cmd' = Top(pool, 1)
          /\ cmd_lasttoken' = Top(pool, 2)
          /\ UNCHANGED <<ctx, programs, status, handles>>

(* emit-token-1 to -6, emit-text, emit-int and emit-float: each token is       *)
(* linked to the one before.                                                   *)
TokenBlocks(tokens) ==
  [i \in DOMAIN tokens |-> [External(tokens[i]) EXCEPT !.next = IF i = Len(tokens) THEN Null ELSE Top(pool, i + 1)]]
AppendTokens(tokens) ==
  /\ Drafting
  /\ IF cmd = Null \/ ~Room(pool, Len(tokens)) THEN Fail
     ELSE /\ pool' = Link(Take(pool, TokenBlocks(tokens)), cmd_lasttoken, Top(pool, 1))
          /\ cmd_lasttoken' = Top(pool, Len(tokens))
          /\ UNCHANGED <<ctx, cmd, programs, status, handles>>

(* ... with a token handle outside the vocabulary, or a text without source or *)
(* out of its range; and emit-mem-ref and emit-mem-copy with nothing bound to  *)
(* addr2, or a block of another program whose index the running one lacks.     *)
OperandInvalid == Drafting /\ Fail

(* emit-cmd-end: add_script_command, which takes the labels that wait. *)
LabelsKept == ctx.active_labels                                  \* Mutant: they wait on
LabelsTaken == Null
EndCmd ==
  /\ Drafting
  /\ IF cmd = Null THEN Fail
     ELSE IF TextOf(pool, db[cmd].token) \notin Instructions \/ ~Room(pool, 1) THEN Fail
     ELSE /\ pool' = NewObject(Take(pool, <<String("")>>), ctx.script_commands,
                       [tokens |-> db[cmd].token, pl_code |-> cmd, asm_code |-> Top(pool, 1),
                        labels |-> ctx.active_labels])
          /\ ctx' = [ctx EXCEPT !.active_labels = LabelsTaken, !.active_labels_last = Null]
          /\ cmd' = Null /\ cmd_lasttoken' = Null
          /\ UNCHANGED <<programs, status, handles>>

-----------------------------------------------------------------------------
(* emit-mem-external, emit-mem, emit-mem-ref and emit-mem-copy declare a block,*)
(* and leave it without memory, allocate it, share memory bound to addr2, and  *)
(* copy such memory to nowhere.                                                *)
Base == [external |-> "none", empty |-> "own", ref |-> "shared", data |-> "none"]
LayoutTables == {ctx.memory_layout_hl, ctx.memblock_table}
NameBlocks(kind) == IF kind = "empty" THEN 2 ELSE 1
MemBlocks(kind, name) == NameBlocks(kind) + 1 + Cardinality({t \in LayoutTables : ~Has(pool, t, name)})
NoAssertion == TRUE                                              \* Mutant: the counts are not compared
LayoutsAgree == Len(Content(ctx.memory_layout_ll)) = Len(Content(ctx.memory_layout_hl))

DeclareMemblock(p, kind, name) ==
  LET mem_name == Top(p, 1)
      taken == Take(p, <<String(name)>>)
      id == Len(Content(ctx.memory_layout_hl))
      store == db[ctx.memory_layout_hl].store
      ll == NewObject(taken, ctx.memory_layout_ll, [memblock_index |-> id, base_address |-> Base[kind]])
      hl == Put(NewObject(ll, store, [memblock |-> Len(ll.db[ctx.memory_layout_ll].content), memblock_id |-> id]),
                ctx.memory_layout_hl, mem_name, Len(ll.db[store].content) + 1)
      memid == Top(hl, 1)
  IN  PutBlock(Take(hl, <<String("id")>>), ctx.memblock_table, mem_name, memid)

Mem(kind, name) ==
  /\ Drafting
  /\ IF \/ ~Room(pool, MemBlocks(kind, name))
        \/ ~LayoutsAgree
        \/ Len(Content(ctx.memory_layout_ll)) = MemblockCapacity
     THEN Fail
     ELSE /\ pool' = DeclareMemblock(IF kind = "empty" THEN Take(pool, <<String(name)>>) ELSE pool, kind, name)
          /\ UNCHANGED <<ctx, cmd, cmd_lasttoken, programs, status, handles>>

-----------------------------------------------------------------------------
(* emit-build: compile, cull what has code 0, add the program to the VM.       *)
Code == [i \in DOMAIN Content(ctx.script_commands) |->
          LET c == Content(ctx.script_commands)[i] IN [labels |-> Texts(c.labels), tokens |-> Texts(c.tokens)]]

(* nasm (since 2.15) takes a label again where it stands for the same address: *)
(* before one command, or before commands with none but skips between them,    *)
(* whose labels pass to the next command that has code.  What else it, or an   *)
(* older one, or an instruction handler objects to is left open.               *)
Skipped(c) == Head(c.tokens) \in Skips
WithCode(code) == {n \in DOMAIN code : ~Skipped(code[n])}
Assembles(code) ==
  \A i, j \in DOMAIN code :
    i < j /\ (Range(code[i].labels) \cap Range(code[j].labels) # {}) /\ (\E n \in WithCode(code) : n >= j)
      => (i .. j - 1) \cap WithCode(code) = {}
Rejected == Drafting /\ Index > 0 /\ Fail

(* compile leaves a value of global_vars behind, which no cull frees. *)
CompileBlocks == 1
Compiled == Cull(Take(pool, <<[External("true") EXCEPT !.persistence_code = 100]>>), 0)

(* function_jumptable: where the first objects of the store lead to. *)
FunctionMap(p) ==
  [i \in DOMAIN p.db[ctx.functions].content |-> p.db[p.db[ctx.functions].store].content[i].value]

Build ==
  /\ Drafting
  /\ cmd = Null /\ ctx.active_labels = Null /\ Index > 0
  /\ IF \/ ~Assembles(Code) \/ ~Room(pool, CompileBlocks) \/ Len(programs) = ProgramCapacity
     THEN Fail
     ELSE /\ pool' = Compiled
          /\ programs' = Append(programs,
               [code |-> Code, functions |-> ctx.functions, memory_layout_ll |-> ctx.memory_layout_ll,
                memory_layout_hl |-> ctx.memory_layout_hl, function_map |-> FunctionMap(Compiled),
                handles |-> handles])
          /\ ctx' = [drafting |-> FALSE]
          /\ handles' = <<>>
          /\ UNCHANGED <<cmd, cmd_lasttoken, status>>

Next == /\ calls < MaxCalls
        /\ calls' = calls + 1
        /\ \/ New \/ EndCmd \/ OperandInvalid \/ Rejected \/ Build
           \/ \E name \in Names : Label(name) \/ \E kind \in Kinds : Mem(kind, name)
           \/ \E token \in Instructions \cup Operands : Cmd(token)
           \/ \E n \in 1 .. MaxTokens : \E tokens \in [1 .. n -> Operands] : AppendTokens(tokens)

Spec == Init /\ [][Next]_vars

-----------------------------------------------------------------------------
(* The pool is never handed a block twice and never hands out a live one: the  *)
(* stack of free blocks (dblocks_stack) holds each disposed block once, after  *)
(* any mix of tables, keys, lists and culls.                                   *)
TypeOK == /\ StackExact(pool)
          /\ status \in {"running", "failed"}
          /\ {cmd, cmd_lasttoken} \subseteq Blocks \cup {Null}

(* What init_program marks with a persistence code, and every key and object   *)
(* that is put into it later, outlives the culls that end this and later       *)
(* builds: tactyk_dblock__put passes the code of a table on.                   *)
KeptSurvives == LinksSurvive(pool)

(* The handle that emit-label returned for a name (the count of functions at   *)
(* that moment) selects, in the function map that add_program derives from the *)
(* store, the command that carries the label.  It does for the handles of a    *)
(* program up to the first name it labels again, whatever follows.  Those from *)
(* there on miss: the store has more objects than add_program counts names.    *)
Reaches(p, h) == /\ h.handle + 1 \in DOMAIN p.function_map
                 /\ h.name \in Range(p.code[p.function_map[h.handle + 1] + 1].labels)
NamesDiffer(hs, k) == \A i, j \in 1 .. k : hs[i].name = hs[j].name => i = j
HandleReachesLabel ==
  \A n \in DOMAIN programs : \A k \in DOMAIN programs[n].handles :
    NamesDiffer(programs[n].handles, k) => Reaches(programs[n], programs[n].handles[k])

(* The low-level layout that instructions index and the high-level one that    *)
(* names are looked up in grow in step (declare_memblock): the memory a name   *)
(* stands for carries the index recorded with the name, in a draft and in a    *)
(* built program.                                                              *)
LayoutInStep(q) ==
  \A f \in Range(Content(q.memory_layout_hl)) :
    LET hl == Content(db[q.memory_layout_hl].store)[f.value]
        ll == Content(q.memory_layout_ll)
    IN  /\ ll[hl.memblock].memblock_index = hl.memblock_id
        /\ hl.memblock = hl.memblock_id + 1
LayoutsInStep == /\ \A n \in DOMAIN programs : LayoutInStep(programs[n])
                 /\ ctx.drafting => LayoutInStep(ctx)

(* The service implements EmittedPrograms: whatever blocks the lists and tables*)
(* of earlier drafts lie in, a program that is built consists of exactly what  *)
(* was emitted since emit-new, and stays so through later drafts and culls.    *)
FunctionsOf(q) ==
  [name \in {TextOf(pool, f.key) : f \in Range(Content(q.functions))} |->
     Content(db[q.functions].store)[Get(pool, q.functions, name)].value]
MemoryOf(q) ==
  [name \in {TextOf(pool, f.key) : f \in Range(Content(q.memory_layout_hl))} |->
     LET hl == Content(db[q.memory_layout_hl].store)[Get(pool, q.memory_layout_hl, name)]
     IN  Content(q.memory_layout_ll)[hl.memblock].base_address]

Draft == IF ctx.drafting
         THEN [code |-> Code, pending |-> Texts(ctx.active_labels), functions |-> FunctionsOf(ctx),
               memory |-> MemoryOf(ctx)]
         ELSE [code |-> <<>>, pending |-> <<>>, functions |-> <<>>, memory |-> <<>>]
Open == IF cmd = Null THEN <<>> ELSE Texts(db[cmd].token)
Built == [n \in DOMAIN programs |-> [code |-> programs[n].code, functions |-> FunctionsOf(programs[n]),
                                     memory |-> MemoryOf(programs[n])]]

Emitted == INSTANCE EmittedPrograms WITH Vocabulary <- Names \cup Instructions \cup Operands, Bases <- Range(Base),
                                         draft <- Draft, open <- Open, built <- Built
ImplementsEmitted == Emitted!Spec
=============================================================================
